---------------------------- MODULE ProvingProofs ----------------------------
(***************************************************************************)
(* Proofs about the parts of Proving: the graph rules judge sets of         *)
(* originals; the caches of the strict qualification describe the disk, and *)
(* what it publishes is backed; a ready database is whole, and its stages   *)
(* come in order; a passing report of the gate is earned.                   *)
(*                                                                         *)
(* Each part has an inductive invariant of its own (StrictInv, StagesInv,   *)
(* IosInv), over its own variables: the steps of the other parts leave      *)
(* those alone.                                                             *)
(***************************************************************************)
EXTENDS Proving, SequenceTheorems, FiniteSetTheorems, TLAPS

-----------------------------------------------------------------------------
(* The graph rules (GraphRules).                                           *)
(* Two lists of originals with the same graphs.                             *)
Alike(a, b) == /\ \A i \in DOMAIN a : \E j \in DOMAIN b : a[i] = b[j]
               /\ \A j \in DOMAIN b : \E i \in DOMAIN a : a[i] = b[j]
               /\ a = <<>> <=> b = <<>>

LEMMA AlikeFiles == ASSUME NEW a, NEW b, Alike(a, b) PROVE G!Files(a) = G!Files(b)
BY DEF Alike, G!Files

LEMMA AlikeSymbols == ASSUME NEW a, NEW b, Alike(a, b) PROVE G!SymbolsIn(a) = G!SymbolsIn(b)
<1>1. G!Files(a) = G!Files(b)
  BY AlikeFiles
<1>. QED BY <1>1 DEF Alike, G!SymbolsIn, G!All, G!Field, G!Holding

LEMMA AlikeRefs == ASSUME NEW a, NEW b, Alike(a, b) PROVE G!RefsIn(a) = G!RefsIn(b)
<1>1. G!Files(a) = G!Files(b)
  BY AlikeFiles
<1>. QED BY <1>1 DEF Alike, G!RefsIn, G!All, G!Field, G!Holding

LEMMA AlikeRelations == ASSUME NEW a, NEW b, Alike(a, b) PROVE G!RelationsIn(a) = G!RelationsIn(b)
<1>1. G!Files(a) = G!Files(b)
  BY AlikeFiles
<1>. QED BY <1>1 DEF Alike, G!RelationsIn, G!All, G!Field, G!Holding

LEMMA AlikeSources ==
  ASSUME NEW a, NEW b, Alike(a, b), NEW f PROVE G!Source(a, f) = G!Source(b, f)
<1>1. {a[i][f].digest : i \in G!Holding(a, f)} = {b[i][f].digest : i \in G!Holding(b, f)}
  BY DEF Alike, G!Holding
<1>2. {a[i][f].includes : i \in G!Holding(a, f)} = {b[i][f].includes : i \in G!Holding(b, f)}
  BY DEF Alike, G!Holding
<1>. QED BY <1>1, <1>2 DEF G!Source, G!Field

LEMMA AlikeRecords ==
  ASSUME NEW a, NEW b, Alike(a, b)
  PROVE  G!Ids(a) = G!Ids(b) /\ \A id : G!Records(a, id) = G!Records(b, id)
BY AlikeSymbols DEF G!Ids, G!Records

LEMMA AlikePlaces ==
  ASSUME NEW a, NEW b, Alike(a, b), NEW id, NEW roles
  PROVE  G!RefPlaces(a, id, roles) = G!RefPlaces(b, id, roles)
BY AlikeRefs DEF G!RefPlaces

LEMMA AlikeCollectable ==
  ASSUME NEW a, NEW b, Alike(a, b) PROVE G!Collectable(a) => G!Collectable(b)
<1>1. G!Files(a) = G!Files(b)
  BY AlikeFiles
<1> SUFFICES ASSUME G!Collectable(a) PROVE G!Collectable(b)
  OBVIOUS
<1>2. \A i \in DOMAIN b : b[i] # <<>> /\ \A f \in DOMAIN b[i] : ~b[i][f].errors
  BY DEF Alike, G!Collectable
<1>3. \A i \in DOMAIN b : \A f \in DOMAIN b[i] \cap Ignored :
         b[i][f].symbols = {} /\ b[i][f].refs = {} /\ b[i][f].relations = {}
  BY DEF Alike, G!Collectable
<1>4. ASSUME NEW f \in G!Files(b), NEW i \in G!Holding(b, f), NEW j \in G!Holding(b, f)
      PROVE  b[i][f].digest = b[j][f].digest
  BY <1>1, <1>4 DEF Alike, G!Collectable, G!Holding
<1>5. ASSUME NEW f \in G!Files(b) PROVE \A i \in G!Holding(b, f) : \A r \in b[i][f].refs : r.at[1] = f
  BY <1>1, <1>5 DEF Alike, G!Collectable, G!Holding, G!Field
<1>. QED BY <1>1, <1>2, <1>3, <1>4, <1>5 DEF G!Collectable, G!Field

LEMMA AlikeExposes ==
  ASSUME NEW a, NEW b, Alike(a, b), NEW header, NEW id, NEW body
  PROVE  (\E i \in DOMAIN a : G!Exposes(a, i, header, id, body))
            <=> \E i \in DOMAIN b : G!Exposes(b, i, header, id, body)
BY DEF Alike, G!Exposes

LEMMA AlikeProviders ==
  ASSUME NEW a, NEW b, Alike(a, b), NEW old, NEW new, NEW id, G!ValidProviders(old, new, a, id)
  PROVE  G!ValidProviders(old, new, b, id)
<1> DEFINE Body(g) == \E h \in G!Names(G!Headers(old)), i \in DOMAIN g : G!Exposes(g, i, h, id, TRUE)
<1>1. Body(a) <=> Body(b)
  <2>1. \A h : (\E i \in DOMAIN a : G!Exposes(a, i, h, id, TRUE))
                 <=> \E i \in DOMAIN b : G!Exposes(b, i, h, id, TRUE)
    BY AlikeExposes
  <2>. QED BY <2>1
<1>2. Body(a) = Body(b)
  BY <1>1
<1>3. \A h : (\E i \in DOMAIN a : G!Exposes(a, i, h, id, Body(a)))
                <=> \E i \in DOMAIN b : G!Exposes(b, i, h, id, Body(b))
  <2> HIDE DEF Body
  <2>. QED BY <1>2, AlikeExposes
<1>. QED BY <1>3 DEF G!ValidProviders

LEMMA AlikeCompared ==
  ASSUME NEW a, NEW b, Alike(a, b), NEW c, G!CompareGraphs(a, c) PROVE G!CompareGraphs(b, c)
<1> DEFINE one == <<c>>
<1>1. /\ G!Files(a) = G!Files(b) /\ G!RefsIn(a) = G!RefsIn(b) /\ G!RelationsIn(a) = G!RelationsIn(b)
      /\ G!Ids(a) = G!Ids(b) /\ b # <<>> /\ G!Collectable(b)
      /\ \A f : G!Source(a, f) = G!Source(b, f)
      /\ \A id : G!Records(a, id) = G!Records(b, id)
      /\ \A id, roles : G!RefPlaces(a, id, roles) = G!RefPlaces(b, id, roles)
  <2>1. a # <<>> /\ G!Collectable(a)
    BY DEF G!CompareGraphs
  <2>. QED BY <2>1, AlikeFiles, AlikeRefs, AlikeRelations, AlikeRecords, AlikeSources, AlikePlaces,
              AlikeCollectable DEF Alike
<1>2. ASSUME NEW id \in G!Ids(one) PROVE G!SymbolPreserved(b, id, G!Records(b, id), G!Records(one, id))
  <2>1. G!SymbolPreserved(a, id, G!Records(a, id), G!Records(one, id))
    BY <1>2 DEF G!CompareGraphs
  <2>2. G!ValidProviders(G!Records(b, id), G!Records(one, id), b, id)
    BY <1>1, <2>1, AlikeProviders DEF G!SymbolPreserved
  <2>. QED BY <1>1, <2>1, <2>2 DEF G!SymbolPreserved
<1>3. ASSUME NEW r \in G!RefsIn(one) \ G!RefsIn(b)
      PROVE  ProvenRef(r, {b[i] : i \in G!Holding(b, r.at[1])})
  <2>1. {b[i] : i \in G!Holding(b, r.at[1])} = {a[i] : i \in G!Holding(a, r.at[1])}
    BY DEF Alike, G!Holding
  <2>. QED BY <1>1, <1>3, <2>1 DEF G!CompareGraphs
<1>. QED BY <1>1, <1>2, <1>3 DEF G!CompareGraphs

LEMMA AlikeSuperset ==
  ASSUME NEW a, NEW b, Alike(a, b), NEW c, G!GraphSuperset(a, c) PROVE G!GraphSuperset(b, c)
<1> DEFINE one == <<c>>
<1>1. /\ G!Files(a) = G!Files(b) /\ G!Ids(a) = G!Ids(b) /\ b # <<>>
      /\ \A id : G!Records(a, id) = G!Records(b, id)
      /\ \A id, roles : G!RefPlaces(a, id, roles) = G!RefPlaces(b, id, roles)
  <2>1. a # <<>>
    BY DEF G!GraphSuperset
  <2>. QED BY <2>1, AlikeFiles, AlikeRecords, AlikePlaces DEF Alike
<1> DEFINE present(g) == {g[i] : i \in DOMAIN g} \cup {c}
<1>2. present(a) = present(b)
  BY DEF Alike
<1>3. ASSUME NEW i \in DOMAIN b, NEW f \in DOMAIN b[i] \ Ignored
      PROVE  G!NodeKept(b[i][f], c[f], G!Ids(one), present(b))
  <2>1. PICK j \in DOMAIN a : a[j] = b[i]
    BY DEF Alike
  <2>2. G!NodeKept(a[j][f], c[f], G!Ids(one), present(a))
    BY <1>3, <2>1 DEF G!GraphSuperset
  <2>. QED BY <1>2, <2>1, <2>2
<1>. QED BY <1>1, <1>3 DEF G!GraphSuperset, G!DeclarationKnown

-----------------------------------------------------------------------------
(* The four ways in which originals are presented again.                    *)
LEMMA OrdersAreAlike ==
  ASSUME NEW X, NEW g \in Seq(X), g # <<>>,
         NEW h \in {g, G!Reverse(g), g \o <<g[1]>>, <<g[Len(g)]>> \o g}
  PROVE  Alike(g, h) /\ Alike(h, g)
<1>1. Len(g) \in Nat \ {0} /\ DOMAIN g = 1..Len(g)
  OBVIOUS
<1> DEFINE n == Len(g)
<1>2. CASE h = g
  BY <1>2 DEF Alike
<1>3. CASE h = G!Reverse(g)
  <2>1. DOMAIN h = 1..n /\ \A j \in 1..n : h[j] = g[n - j + 1]
    BY <1>3 DEF G!Reverse
  <2>2. \A j \in 1..n : n - j + 1 \in 1..n /\ n - (n - j + 1) + 1 = j
    BY <1>1
  <2>3. h # <<>>
    <3>0. 1 \in 1..n
      BY <1>1
    <3>1. 1 \in DOMAIN h
      BY <2>1, <3>0
    <3>. QED BY <3>1
  <2>4. \A j \in DOMAIN h : \E i \in DOMAIN g : g[i] = h[j]
    BY <1>1, <2>1, <2>2
  <2>5. \A i \in DOMAIN g : \E j \in DOMAIN h : g[i] = h[j]
    BY <1>1, <2>1, <2>2
  <2>. QED BY <2>3, <2>4, <2>5 DEF Alike
<1>4. CASE h = g \o <<g[1]>>
  <2>1. DOMAIN h = 1..(n + 1) /\ (\A i \in 1..n : h[i] = g[i]) /\ h[n + 1] = g[1]
    BY <1>1, <1>4
  <2>2. h # <<>> /\ 1 \in 1..n /\ n + 1 \in 1..(n + 1) /\ 1..n \subseteq 1..(n + 1)
        /\ \A i \in 1..(n + 1) : i \in 1..n \/ i = n + 1
    BY <1>1, <2>1
  <2>3. \A j \in DOMAIN h : \E i \in DOMAIN g : g[i] = h[j]
    BY <1>1, <2>1, <2>2
  <2>4. \A i \in DOMAIN g : \E j \in DOMAIN h : g[i] = h[j]
    BY <1>1, <2>1, <2>2
  <2>. QED BY <2>2, <2>3, <2>4 DEF Alike
<1>5. CASE h = <<g[Len(g)]>> \o g
  <2>1. DOMAIN h = 1..(n + 1) /\ (\A i \in 1..n : h[i + 1] = g[i]) /\ h[1] = g[n]
    BY <1>1, <1>5
  <2>2. h # <<>> /\ n \in 1..n /\ 1 \in 1..(n + 1)
        /\ (\A i \in 1..n : i + 1 \in 1..(n + 1))
        /\ \A i \in 1..(n + 1) : i = 1 \/ (i - 1 \in 1..n /\ (i - 1) + 1 = i)
    BY <1>1, <2>1
  <2>3. \A j \in DOMAIN h : \E i \in DOMAIN g : g[i] = h[j]
    BY <1>1, <2>1, <2>2
  <2>4. \A i \in DOMAIN g : \E j \in DOMAIN h : g[i] = h[j]
    BY <1>1, <2>1, <2>2
  <2>. QED BY <2>2, <2>3, <2>4 DEF Alike
<1>. QED BY <1>2, <1>3, <1>4, <1>5

(* The exact union of collectable originals is one graph with the same      *)
(* files, records and sources.                                              *)
IsUnion(g, exact) == G!Collectable(g) /\ exact = G!UnionGraph(g)

LEMMA UnionFiles ==
  ASSUME NEW g, NEW exact, IsUnion(g, exact)
  PROVE  /\ DOMAIN exact = G!Files(g) /\ G!Files(<<exact>>) = G!Files(g)
         /\ \A f \in G!Files(g) : f \notin Ignored /\ G!Holding(<<exact>>, f) = {1}
                /\ \E i \in DOMAIN g : f \in DOMAIN g[i]
<1>1. DOMAIN exact = G!Files(g)
  BY DEF IsUnion, G!UnionGraph
<1>2. DOMAIN <<exact>> = {1} /\ <<exact>>[1] = exact
  OBVIOUS
<1>3. \A f \in G!Files(g) : f \notin Ignored /\ \E i \in DOMAIN g : f \in DOMAIN g[i]
  BY DEF G!Files
<1>4. G!Files(<<exact>>) = G!Files(g)
  BY <1>1, <1>2, <1>3 DEF G!Files
<1>. QED BY <1>1, <1>2, <1>3, <1>4 DEF G!Holding

(* The union holds of a file what the originals agree on or hold together.  *)
NodeOf(g, exact, f) ==
    /\ exact[f].errors = FALSE
    /\ exact[f].includes = UNION {g[i][f].includes : i \in G!Holding(g, f)}
    /\ exact[f].symbols = UNION {g[i][f].symbols : i \in G!Holding(g, f)}
    /\ exact[f].refs = UNION {g[i][f].refs : i \in G!Holding(g, f)}
    /\ exact[f].relations = UNION {g[i][f].relations : i \in G!Holding(g, f)}
    /\ \A i \in G!Holding(g, f) : g[i][f].digest = exact[f].digest
    /\ G!Holding(g, f) # {}

LEMMA UnionNodes ==
  ASSUME NEW g, NEW exact, IsUnion(g, exact), NEW f \in G!Files(g)
  PROVE  NodeOf(g, exact, f)
<1>0. G!Collectable(g) /\ exact = G!UnionGraph(g)
  BY DEF IsUnion
<1>1. G!Holding(g, f) # {}
  BY <1>0, UnionFiles DEF G!Holding
<1> DEFINE digests == {g[i][f].digest : i \in G!Holding(g, f)}
<1>2. /\ exact[f].errors = FALSE
      /\ exact[f].includes = UNION {g[i][f].includes : i \in G!Holding(g, f)}
      /\ exact[f].symbols = UNION {g[i][f].symbols : i \in G!Holding(g, f)}
      /\ exact[f].refs = UNION {g[i][f].refs : i \in G!Holding(g, f)}
      /\ exact[f].relations = UNION {g[i][f].relations : i \in G!Holding(g, f)}
      /\ exact[f].digest = CHOOSE d \in digests : TRUE
  BY <1>0 DEF G!UnionGraph, G!Field
<1>3. (CHOOSE d \in digests : TRUE) \in digests
  BY <1>1
<1>4. \A d, e \in digests : d = e
  BY <1>0 DEF G!Collectable
<1>. QED BY <1>1, <1>2, <1>3, <1>4 DEF NodeOf

LEMMA UnionRecords ==
  ASSUME NEW g, NEW exact, IsUnion(g, exact)
  PROVE  /\ G!SymbolsIn(<<exact>>) = G!SymbolsIn(g) /\ G!RefsIn(<<exact>>) = G!RefsIn(g)
         /\ G!RelationsIn(<<exact>>) = G!RelationsIn(g)
         /\ G!Ids(<<exact>>) = G!Ids(g) /\ \A id : G!Records(<<exact>>, id) = G!Records(g, id)
         /\ \A f \in G!Files(g) : G!Source(<<exact>>, f) = G!Source(g, f)
<1> DEFINE one == <<exact>>
           held == G!Files(g)
<1>1. G!Files(one) = held /\ \A f \in held : G!Holding(one, f) = {1} /\ one[1][f] = exact[f]
  BY UnionFiles
<1>2. \A f \in held : NodeOf(g, exact, f)
  BY UnionNodes
<1> HIDE DEF one, held
<1>3. G!SymbolsIn(one) = G!SymbolsIn(g)
  <2>1. G!SymbolsIn(one) = UNION {UNION {one[i][f].symbols : i \in G!Holding(one, f)} : f \in held}
    BY <1>1 DEF G!SymbolsIn, G!All, G!Field
  <2>2. G!SymbolsIn(g) = UNION {UNION {g[i][f].symbols : i \in G!Holding(g, f)} : f \in held}
    BY DEF G!SymbolsIn, G!All, G!Field, held
  <2>3. ASSUME NEW f \in held PROVE UNION {one[i][f].symbols : i \in G!Holding(one, f)}
                                 = UNION {g[i][f].symbols : i \in G!Holding(g, f)}
    <3>1. {one[i][f].symbols : i \in G!Holding(one, f)} = {exact[f].symbols}
      BY <1>1, <2>3
    <3>. QED BY <1>2, <2>3, <3>1 DEF NodeOf
  <2> DEFINE before(f) == UNION {g[i][f].symbols : i \in G!Holding(g, f)}
             after(f) == UNION {one[i][f].symbols : i \in G!Holding(one, f)}
  <2>4. \A f \in held : after(f) = before(f)
    BY <2>3
  <2> HIDE DEF before, after
  <2>5. {after(f) : f \in held} = {before(f) : f \in held}
    BY <2>4
  <2>. QED BY <2>1, <2>2, <2>5 DEF before, after
<1>4. G!RefsIn(one) = G!RefsIn(g)
  <2>1. G!RefsIn(one) = UNION {UNION {one[i][f].refs : i \in G!Holding(one, f)} : f \in held}
    BY <1>1 DEF G!RefsIn, G!All, G!Field
  <2>2. G!RefsIn(g) = UNION {UNION {g[i][f].refs : i \in G!Holding(g, f)} : f \in held}
    BY DEF G!RefsIn, G!All, G!Field, held
  <2>3. ASSUME NEW f \in held PROVE UNION {one[i][f].refs : i \in G!Holding(one, f)}
                                 = UNION {g[i][f].refs : i \in G!Holding(g, f)}
    <3>1. {one[i][f].refs : i \in G!Holding(one, f)} = {exact[f].refs}
      BY <1>1, <2>3
    <3>. QED BY <1>2, <2>3, <3>1 DEF NodeOf
  <2> DEFINE before(f) == UNION {g[i][f].refs : i \in G!Holding(g, f)}
             after(f) == UNION {one[i][f].refs : i \in G!Holding(one, f)}
  <2>4. \A f \in held : after(f) = before(f)
    BY <2>3
  <2> HIDE DEF before, after
  <2>5. {after(f) : f \in held} = {before(f) : f \in held}
    BY <2>4
  <2>. QED BY <2>1, <2>2, <2>5 DEF before, after
<1>5. G!RelationsIn(one) = G!RelationsIn(g)
  <2>1. G!RelationsIn(one) = UNION {UNION {one[i][f].relations : i \in G!Holding(one, f)} : f \in held}
    BY <1>1 DEF G!RelationsIn, G!All, G!Field
  <2>2. G!RelationsIn(g) = UNION {UNION {g[i][f].relations : i \in G!Holding(g, f)} : f \in held}
    BY DEF G!RelationsIn, G!All, G!Field, held
  <2>3. ASSUME NEW f \in held PROVE UNION {one[i][f].relations : i \in G!Holding(one, f)}
                                 = UNION {g[i][f].relations : i \in G!Holding(g, f)}
    <3>1. {one[i][f].relations : i \in G!Holding(one, f)} = {exact[f].relations}
      BY <1>1, <2>3
    <3>. QED BY <1>2, <2>3, <3>1 DEF NodeOf
  <2> DEFINE before(f) == UNION {g[i][f].relations : i \in G!Holding(g, f)}
             after(f) == UNION {one[i][f].relations : i \in G!Holding(one, f)}
  <2>4. \A f \in held : after(f) = before(f)
    BY <2>3
  <2> HIDE DEF before, after
  <2>5. {after(f) : f \in held} = {before(f) : f \in held}
    BY <2>4
  <2>. QED BY <2>1, <2>2, <2>5 DEF before, after
<1>6. ASSUME NEW f \in held PROVE G!Source(one, f) = G!Source(g, f)
  <2>1. {one[i][f].digest : i \in G!Holding(one, f)} = {g[i][f].digest : i \in G!Holding(g, f)}
    BY <1>1, <1>2, <1>6 DEF NodeOf
  <2>2. {one[i][f].includes : i \in G!Holding(one, f)} = {exact[f].includes}
    BY <1>1, <1>6
  <2>3. UNION {one[i][f].includes : i \in G!Holding(one, f)}
           = UNION {g[i][f].includes : i \in G!Holding(g, f)}
    BY <1>2, <1>6, <2>2 DEF NodeOf
  <2>. QED BY <2>1, <2>3 DEF G!Source, G!Field
<1>7. G!Ids(one) = G!Ids(g) /\ \A id : G!Records(one, id) = G!Records(g, id)
  BY <1>3 DEF G!Ids, G!Records
<1>. QED BY <1>3, <1>4, <1>5, <1>6, <1>7 DEF one, held

(* The union has, of each file, the includes every original has of it.      *)
Agreed(g, exact) ==
    \A i \in DOMAIN g : \A f \in DOMAIN g[i] : f \notin Ignored => g[i][f].includes = exact[f].includes

LEMMA UnionCollectable ==
  ASSUME NEW g, NEW exact, IsUnion(g, exact)
  PROVE  G!Collectable(<<exact>>)
<1> DEFINE one == <<exact>>
<1>1. /\ DOMAIN exact = G!Files(g) /\ G!Files(one) = G!Files(g) /\ G!Files(g) # {}
      /\ \A f \in G!Files(g) : f \notin Ignored /\ G!Holding(one, f) = {1} /\ one[1][f] = exact[f]
  BY UnionFiles DEF IsUnion, G!Collectable
<1>2. DOMAIN one = {1} /\ one[1] = exact
  OBVIOUS
<1>3. exact # <<>>
  BY <1>1
<1>4. \A f \in DOMAIN exact : ~exact[f].errors
  BY <1>1, UnionNodes DEF NodeOf
<1>5. ASSUME NEW f \in G!Files(g), NEW r \in exact[f].refs PROVE r.at[1] = f
  <2>1. NodeOf(g, exact, f)
    BY UnionNodes
  <2>2. PICK i \in G!Holding(g, f) : r \in g[i][f].refs
    BY <1>5, <2>1 DEF NodeOf
  <2>. QED BY <2>2 DEF IsUnion, G!Collectable, G!Field
<1>6. \A f \in G!Files(one) : \A r \in UNION {one[i][f].refs : i \in G!Holding(one, f)} : r.at[1] = f
  BY <1>1, <1>5
<1> HIDE DEF one
<1>7. \A i \in DOMAIN one : one[i] # <<>> /\ \A f \in DOMAIN one[i] : ~one[i][f].errors
  BY <1>2, <1>3, <1>4
<1>8. \A i \in DOMAIN one : DOMAIN one[i] \cap Ignored = {}
  BY <1>1, <1>2
<1>9. \A f \in G!Files(one) : \A i, j \in G!Holding(one, f) : one[i][f].digest = one[j][f].digest
  BY <1>1
<1>10. G!Collectable(one)
  BY <1>1, <1>6, <1>7, <1>8, <1>9 DEF G!Collectable, G!Field
<1>. QED BY <1>10 DEF one

(* Strict rules admit it when no symbol is of two languages.                *)
LEMMA UnionCompared ==
  ASSUME NEW g, g # <<>>, NEW exact, IsUnion(g, exact),
         \A id \in G!Ids(g) : \A s, t \in G!Records(g, id) : s.lang = t.lang
  PROVE  G!CompareGraphs(g, exact)
<1> DEFINE one == <<exact>>
<1>1. /\ G!Files(one) = G!Files(g) /\ G!Collectable(one) /\ G!RefsIn(one) = G!RefsIn(g)
      /\ G!RelationsIn(one) = G!RelationsIn(g) /\ G!Ids(one) = G!Ids(g)
      /\ \A id : G!Records(one, id) = G!Records(g, id)
      /\ \A f \in G!Files(g) : G!Source(one, f) = G!Source(g, f)
  BY UnionFiles, UnionCollectable, UnionRecords
<1>2. ASSUME NEW id \in G!Ids(g) PROVE G!SymbolPreserved(g, id, G!Records(g, id), G!Records(g, id))
  <2> DEFINE S == G!Records(g, id)
  <2>1. G!Preferred(S) \subseteq S /\ (S # {} => G!Preferred(S) # {})
    BY DEF G!Preferred, G!Defining
  <2>2. \A s, t \in S : s.lang = t.lang
    OBVIOUS
  <2> HIDE DEF S
  <2>3. {s.lang : s \in G!Preferred(S)} = {s.lang : s \in S}
    BY <2>1, <2>2
  <2>4. G!ValidProviders(S, S, g, id)
    BY DEF G!ValidProviders
  <2>5. G!SymbolPreserved(g, id, S, S)
    BY <2>3, <2>4 DEF G!SymbolPreserved
  <2>. QED BY <2>5 DEF S
<1>3. \A id : ~G!Retyped(G!Records(g, id), G!Records(g, id))
  BY DEF G!Retyped
<1> HIDE DEF one
<1>4. /\ g # <<>> /\ G!Collectable(g) /\ G!Collectable(one) /\ G!Files(g) = G!Files(one)
      /\ \A f \in G!Files(one) : G!Source(g, f) = G!Source(one, f)
      /\ \A id \in G!Ids(one) : G!SymbolPreserved(g, id, G!Records(g, id), G!Records(one, id))
      /\ \A id \in G!Ids(one) : ~G!Retyped(G!Records(g, id), G!Records(one, id))
      /\ G!RefsIn(g) \subseteq G!RefsIn(one) /\ G!RefsIn(one) \ G!RefsIn(g) = {}
  BY <1>1, <1>2, <1>3 DEF IsUnion
<1>. QED BY <1>1, <1>4 DEF G!CompareGraphs, one

(* The live rules admit it when the originals agree on includes.            *)
LEMMA UnionSuperset ==
  ASSUME NEW g, g # <<>>, NEW exact, IsUnion(g, exact), Agreed(g, exact)
  PROVE  G!GraphSuperset(g, exact)
<1> DEFINE one == <<exact>>
<1>1. /\ G!Files(one) = G!Files(g) /\ G!Ids(one) = G!Ids(g)
      /\ \A id : G!Records(one, id) = G!Records(g, id)
  BY UnionFiles, UnionRecords
<1> DEFINE present == {g[i] : i \in DOMAIN g} \cup {exact}
<1>2. ASSUME NEW i \in DOMAIN g, NEW f \in DOMAIN g[i] \ Ignored
      PROVE  G!NodeKept(g[i][f], exact[f], G!Ids(one), present)
  <2>1. f \in G!Files(g) /\ i \in G!Holding(g, f)
    BY DEF G!Files, G!Holding
  <2>0. NodeOf(g, exact, f) /\ G!Collectable(g)
    BY <2>1, UnionNodes DEF IsUnion
  <2>2. /\ g[i][f].digest = exact[f].digest /\ (g[i][f].errors <=> exact[f].errors)
        /\ g[i][f].includes = exact[f].includes /\ g[i][f].relations \subseteq exact[f].relations
        /\ g[i][f].refs \subseteq exact[f].refs
    BY <1>2, <2>0, <2>1 DEF NodeOf, Agreed, G!Collectable
  <2>3. \A r \in g[i][f].refs : G!RefKept(r, exact[f].refs, G!Ids(one), present)
    BY <2>2 DEF G!RefKept
  <2>. QED BY <2>2, <2>3 DEF G!NodeKept
<1>3. ASSUME NEW id \in G!Ids(g)
      PROVE  /\ \A o \in G!Records(g, id) : G!StandsFor(o, o)
             /\ G!DeclarationKnown(g, id, G!Records(g, id), G!Records(g, id))
  <2>1. G!Records(g, id) # {}
    BY DEF G!Ids, G!Records
  <2>. QED BY <2>1 DEF G!StandsFor, G!DeclarationKnown
<1>. QED BY <1>1, <1>2, <1>3 DEF G!GraphSuperset

-----------------------------------------------------------------------------
(* A case of the rules is one of Cases, and its verdicts are the rules' own.*)
Given == part = "rules" =>
    /\ case \in Cases
    /\ verdict.given => /\ verdict.strict = G!CompareGraphs(case.originals, case.candidate)
                        /\ verdict.live = G!GraphSuperset(case.originals, case.candidate)

LEMMA GivenInvariant == SpecAll => []Given
<1>1. InitAll => Given
  BY DEF InitAll, Given, G!Init, G!NoVerdict
<1>2. Given /\ [NextAll]_all => Given'
  <2> SUFFICES ASSUME Given, [NextAll]_all PROVE Given'
    OBVIOUS
  <2>1. CASE RulesStep
    BY <2>1 DEF RulesStep, G!Next, G!Judge, Given, G!NoVerdict
  <2>2. CASE UNCHANGED <<part, rules>>
    BY <2>2 DEF rules, Given
  <2>3. CASE QueueStep \/ StrictStep(P!Next) \/ LiveStep(L!Next) \/ ScanStep(R!Next)
             \/ StagesStep(B!Next) \/ IosStep
    BY <2>2, <2>3 DEF QueueStep, StrictStep, LiveStep, ScanStep, StagesStep, IosStep
  <2>4. CASE UNCHANGED all
    BY <2>2, <2>4 DEF all
  <2>. QED BY <2>1, <2>3, <2>4 DEF NextAll
<1>. QED BY <1>1, <1>2, PTL DEF SpecAll

THEOREM AdmissionIsAlwaysOfSets == SpecAll => []AdmissionIsOfSets
<1>1. ASSUME Given, part = "rules", verdict.given PROVE G!AdmissionIsOfSets
  <2> DEFINE g == case.originals
             exact == G!UnionGraph(g)
  <2>1. /\ g \in Seq({g[i] : i \in DOMAIN g}) /\ g # <<>>
        /\ verdict.strict = G!CompareGraphs(g, case.candidate)
        /\ verdict.live = G!GraphSuperset(g, case.candidate)
    BY <1>1, OriginalsAreListed DEF Given
  <2>2. ASSUME NEW h \in G!Orders
        PROVE  /\ G!CompareGraphs(h, case.candidate) = verdict.strict
               /\ G!GraphSuperset(h, case.candidate) = verdict.live
    <3>1. Alike(g, h) /\ Alike(h, g)
      <4>1. h \in {g, G!Reverse(g), g \o <<g[1]>>, <<g[Len(g)]>> \o g}
        BY <2>2 DEF G!Orders
      <4> HIDE DEF g
      <4>. QED BY <2>1, <4>1, OrdersAreAlike
    <3>2. G!CompareGraphs(h, case.candidate) <=> G!CompareGraphs(g, case.candidate)
      BY <3>1, AlikeCompared
    <3>3. G!GraphSuperset(h, case.candidate) <=> G!GraphSuperset(g, case.candidate)
      BY <3>1, AlikeSuperset
    <3>4. /\ G!CompareGraphs(h, case.candidate) \in BOOLEAN
          /\ G!CompareGraphs(g, case.candidate) \in BOOLEAN
          /\ G!GraphSuperset(h, case.candidate) \in BOOLEAN
          /\ G!GraphSuperset(g, case.candidate) \in BOOLEAN
      BY DEF G!CompareGraphs, G!GraphSuperset
    <3>. QED BY <2>1, <3>2, <3>3, <3>4
  <2>3. ASSUME G!Collectable(g), \A id \in G!Ids(g) : \A s, t \in G!Records(g, id) : s.lang = t.lang
        PROVE  G!CompareGraphs(g, exact) /\ (Agreed(g, exact) => G!GraphSuperset(g, exact))
    BY <2>1, <2>3, UnionCompared, UnionSuperset DEF IsUnion
  <2>. QED BY <2>2, <2>3 DEF G!AdmissionIsOfSets, Agreed
<1>2. Given => AdmissionIsOfSets
  BY <1>1 DEF AdmissionIsOfSets, G!AdmissionIsOfSets
<1>. QED BY <1>2, GivenInvariant, PTL

-----------------------------------------------------------------------------
(* The strict qualification (StrictProof).                                 *)
(* A compile of e on some disk had this graph and saw these files present.  *)
Witnessed(e, graph, seen) == \E d :
    P!Compiles(e, d) /\ graph = P!Graph({e}, d) /\ seen = P!Present(d)

(* A record of an admission holds the graph of every original as a compile  *)
(* had it, and the candidate's graph as the files it lists had it.          *)
JudgedWell(r, g) ==
    /\ DOMAIN r.graphs = g /\ DOMAIN r.seen = g
    /\ \A e \in g : Witnessed(e, r.graphs[e], r.seen[e])
    /\ r.cand = P!Graph(g, P!AsDisk(r.files))

(* A record of a group is well judged if an admission wrote it, and accepted*)
(* only where the verdict over its graphs is.                               *)
ReceiptHolds(r, g) == r # P!Nothing =>
    /\ r.reason \in {"compile", "admission"}
    /\ r.reason = "admission" => JudgedWell(r, g)
    /\ r.accepted => /\ r.reason = "admission"
                     /\ P!Verdict(r.policy, g, r.graphs, r.cand, r.swapped) = "accepted"

(* A record of an original's compile is one a compile could have written.   *)
OriginalHolds(o, e) == o # P!Nothing => Witnessed(e, o.graph, o.seen) /\ o.graph.nodes \subseteq o.files

(* Every record in the two caches of the qualification holds.               *)
CachesHold == /\ DOMAIN disk = StrictFiles
              /\ DOMAIN strictReceipts = P!Groups /\ DOMAIN originals = StrictEntries
              /\ \A g \in P!Groups : ReceiptHolds(strictReceipts[g], g)
              /\ \A e \in StrictEntries : OriginalHolds(originals[e], e)

(* With the same files present, and the same bytes of those it read, a      *)
(* compile sees the same.                                                   *)
LEMMA SameCompile ==
  ASSUME NEW e, NEW d, NEW h, P!Present(d) = P!Present(h),
         \A n \in P!Graph({e}, d).nodes : h[n[1]] = n[2]
  PROVE  /\ P!Compiles(e, d) => P!Compiles(e, h)
         /\ P!Graph({e}, d) = P!Graph({e}, h)
<1>1. \A path : P!Found(path, d) = P!Found(path, h)
  BY DEF P!Found
<1> DEFINE read == UNION {P!Found(path, d) : path \in StrictIncludes[e]}
<1>2. read = UNION {P!Found(path, h) : path \in StrictIncludes[e]}
  BY <1>1
<1>3. P!Graph({e}, d) = [nodes |-> {<<f, d[f]>> : f \in read}, edges |-> {<<e, f>> : f \in read}]
  BY DEF P!Graph
<1> DEFINE again == UNION {P!Found(path, h) : path \in StrictIncludes[e]}
<1>a. P!Graph({e}, h) = [nodes |-> {<<f, h[f]>> : f \in again}, edges |-> {<<e, f>> : f \in again}]
  BY DEF P!Graph
<1> HIDE DEF read, again
<1>4. P!Graph({e}, h) = [nodes |-> {<<f, h[f]>> : f \in read}, edges |-> {<<e, f>> : f \in read}]
  BY <1>2, <1>a DEF again
<1>5. \A f \in read : h[f] = d[f]
  <2>1. P!Graph({e}, d).nodes = {<<f, d[f]>> : f \in read}
    BY <1>3
  <2> TAKE f \in read
  <2>2. <<f, d[f]>> \in P!Graph({e}, d).nodes
    BY <2>1
  <2>. QED BY <2>2
<1>6. {<<f, d[f]>> : f \in read} = {<<f, h[f]>> : f \in read}
  BY <1>5
<1>7. P!Compiles(e, d) => P!Compiles(e, h)
  BY <1>1 DEF P!Compiles
<1>. QED BY <1>3, <1>4, <1>6, <1>7

(* Graphs add up.                                                           *)
LEMMA GraphOfAll ==
  ASSUME NEW g, NEW d
  PROVE  /\ UNION {P!Graph({e}, d).nodes : e \in g} = P!Graph(g, d).nodes
         /\ UNION {P!Graph({e}, d).edges : e \in g} = P!Graph(g, d).edges
         /\ P!Graph(g, d) = [nodes |-> P!Graph(g, d).nodes, edges |-> P!Graph(g, d).edges]
<1> DEFINE read(e) == UNION {P!Found(path, d) : path \in StrictIncludes[e]}
           nodes(e) == {<<f, d[f]>> : f \in read(e)}
           edges(e) == {<<e, f>> : f \in read(e)}
<1>1. \A es : P!Graph(es, d) = [nodes |-> UNION {nodes(e) : e \in es}, edges |-> UNION {edges(e) : e \in es}]
  BY DEF P!Graph
<1> HIDE DEF nodes, edges
<1>2. \A e : P!Graph({e}, d).nodes = nodes(e) /\ P!Graph({e}, d).edges = edges(e)
  <2> TAKE e
  <2>1. UNION {nodes(x) : x \in {e}} = nodes(e) /\ UNION {edges(x) : x \in {e}} = edges(e)
    OBVIOUS
  <2>2. P!Graph({e}, d) = [nodes |-> UNION {nodes(x) : x \in {e}}, edges |-> UNION {edges(x) : x \in {e}}]
    BY <1>1
  <2>3. /\ P!Graph({e}, d).nodes = UNION {nodes(x) : x \in {e}}
        /\ P!Graph({e}, d).edges = UNION {edges(x) : x \in {e}}
    <3> DEFINE ns == UNION {nodes(x) : x \in {e}}
               es == UNION {edges(x) : x \in {e}}
    <3>1. P!Graph({e}, d) = [nodes |-> ns, edges |-> es]
      BY <2>2
    <3> HIDE DEF ns, es
    <3>2. P!Graph({e}, d).nodes = ns /\ P!Graph({e}, d).edges = es
      BY <3>1
    <3>. QED BY <3>2 DEF ns, es
  <2>. QED BY <2>1, <2>3
<1>3. {P!Graph({e}, d).nodes : e \in g} = {nodes(e) : e \in g}
  BY <1>2
<1>4. {P!Graph({e}, d).edges : e \in g} = {edges(e) : e \in g}
  BY <1>2
<1>5. P!Graph(g, d).nodes = UNION {nodes(e) : e \in g} /\ P!Graph(g, d).edges = UNION {edges(e) : e \in g}
  BY <1>1
<1>. QED BY <1>1, <1>3, <1>4, <1>5

LEMMA WitnessNow ==
  ASSUME DOMAIN disk = StrictFiles, NEW e, NEW graph, NEW seen, Witnessed(e, graph, seen),
         seen = P!Listing, P!BytesHold(graph.nodes)
  PROVE  P!Compiles(e, disk) /\ graph = P!Graph({e}, disk)
<1> PICK d : P!Compiles(e, d) /\ graph = P!Graph({e}, d) /\ seen = P!Present(d)
  BY DEF Witnessed
<1>1. P!Present(d) = P!Present(disk)
  BY DEF P!Present, P!Listing
<1>2. \A n \in P!Graph({e}, d).nodes : disk[n[1]] = n[2]
  BY DEF P!BytesHold
<1>. QED BY <1>1, <1>2, SameCompile

(* A candidate of bytes that hold read what the disk has.                   *)
LEMMA CopyHolds ==
  ASSUME NEW g, NEW bytesOf, P!BytesHold(bytesOf)
  PROVE  P!BytesHold(P!Graph(g, P!AsDisk(bytesOf)).nodes)
<1> DEFINE copy == P!AsDisk(bytesOf)
<1>1. \A f \in P!FilesOf(bytesOf) : copy[f] = disk[f]
  <2> TAKE f \in P!FilesOf(bytesOf)
  <2>1. \E n \in bytesOf : n[1] = f
    BY DEF P!FilesOf
  <2>2. copy[f] = (CHOOSE n \in bytesOf : n[1] = f)[2]
    BY DEF P!AsDisk
  <2>. QED BY <2>1, <2>2 DEF P!BytesHold
<1>2. \A path : P!Found(path, copy) \subseteq P!FilesOf(bytesOf)
  BY DEF P!Found, P!Present, P!AsDisk
<1> DEFINE read(e) == UNION {P!Found(path, copy) : path \in StrictIncludes[e]}
<1>3. P!Graph(g, copy).nodes = UNION {{<<f, copy[f]>> : f \in read(e)} : e \in g}
  BY DEF P!Graph
<1>4. \A e : read(e) \subseteq P!FilesOf(bytesOf)
  BY <1>2
<1> HIDE DEF copy, read
<1>. QED BY <1>1, <1>3, <1>4 DEF P!BytesHold, copy

LEMMA CachesSaySo == ASSUME CachesHold PROVE CachesDescribeDisk
<1>1. ASSUME NEW g \in P!Groups, strictReceipts[g] # P!Nothing, strictReceipts[g].accepted,
             P!Current(strictReceipts[g]), \A e \in g : strictReceipts[g].seen[e] = strictReceipts[g].listing
      PROVE  /\ \A e \in g : P!Compiles(e, disk) /\ strictReceipts[g].graphs[e] = P!Graph({e}, disk)
             /\ strictReceipts[g].cand = P!Graph(g, disk)
  <2> DEFINE r == strictReceipts[g]
  <2>1. JudgedWell(r, g) /\ P!SourcesAgree(r.graphs, r.cand)
    BY <1>1 DEF CachesHold, ReceiptHolds, P!Verdict
  <2>2. P!BytesHold(r.cand.nodes)
    BY <2>1, <1>1, CopyHolds DEF JudgedWell, P!Current
  <2> DEFINE gs == {r.graphs[e] : e \in g}
  <2>3. r.cand.nodes = UNION {x.nodes : x \in gs} /\ r.cand.edges = UNION {x.edges : x \in gs}
    BY <2>1 DEF JudgedWell, P!SourcesAgree
  <2>4. ASSUME NEW e \in g PROVE P!Compiles(e, disk) /\ r.graphs[e] = P!Graph({e}, disk)
    <3>1. r.graphs[e].nodes \subseteq r.cand.nodes
      BY <2>3
    <3>2. P!BytesHold(r.graphs[e].nodes)
      BY <3>1, <2>2 DEF P!BytesHold
    <3>3. Witnessed(e, r.graphs[e], r.seen[e]) /\ r.seen[e] = P!Listing
      BY <2>1, <1>1 DEF JudgedWell, P!Current
    <3> HIDE DEF r
    <3>. QED BY <3>2, <3>3, WitnessNow DEF CachesHold
  <2>5. r.cand.nodes = P!Graph(g, disk).nodes /\ r.cand.edges = P!Graph(g, disk).edges
    <3>1. {x.nodes : x \in gs} = {P!Graph({e}, disk).nodes : e \in g}
      BY <2>4
    <3>2. {x.edges : x \in gs} = {P!Graph({e}, disk).edges : e \in g}
      BY <2>4
    <3>. QED BY <3>1, <3>2, <2>3, GraphOfAll
  <2>6. r.cand = [nodes |-> r.cand.nodes, edges |-> r.cand.edges]
    BY <2>1, GraphOfAll DEF JudgedWell
  <2>. QED BY <2>4, <2>5, <2>6, GraphOfAll
<1>2. ASSUME NEW e \in StrictEntries, originals[e] # P!Nothing, P!Current(originals[e]),
             originals[e].seen = originals[e].listing
      PROVE  P!Compiles(e, disk) /\ originals[e].graph = P!Graph({e}, disk)
  <2>1. Witnessed(e, originals[e].graph, originals[e].seen) /\ P!BytesHold(originals[e].graph.nodes)
    BY <1>2 DEF CachesHold, OriginalHolds, P!Current, P!BytesHold
  <2>. QED BY <1>2, <2>1, WitnessNow DEF CachesHold, P!Current
<1>. QED BY <1>1, <1>2 DEF CachesDescribeDisk, P!CachesDescribeDisk

(* The fields of a run of the qualification, and of the work at hand in it. *)
JobFields == {"stage", "verify", "policy", "memo", "todo", "pieces", "claimed", "tries", "batches"}
WorkFields == {"group", "stage", "graphs", "seen", "frozen", "cand", "swapped", "replay", "fresh"}

(* A run keeps groups of the listing, and divides them only once it has     *)
(* begun.                                                                   *)
JobOk(j) == /\ DOMAIN j = JobFields /\ j.stage \in {"hints", "chunks"}
            /\ j.todo \subseteq P!Groups /\ j.pieces \subseteq P!Groups
            /\ j.stage = "hints" => j.pieces = {}

(* The work at hand has the graphs of its group as compiles had them, has   *)
(* the candidate's once it was made, and is accepted before its record is   *)
(* reused.                                                                  *)
WorkOk(w, pol) ==
    /\ DOMAIN w = WorkFields /\ w.group \in P!Groups
    /\ w.stage \in {"originals", "candidate", "save", "admit", "revalidate", "after"}
    /\ DOMAIN w.graphs \subseteq w.group /\ DOMAIN w.seen = DOMAIN w.graphs
    /\ w.fresh \subseteq DOMAIN w.graphs
    /\ \A e \in DOMAIN w.graphs : Witnessed(e, w.graphs[e], w.seen[e])
    /\ w.stage # "originals" => DOMAIN w.graphs = w.group
    /\ w.stage \in {"save", "admit", "revalidate", "after"} =>
          w.cand = P!Graph(w.group, P!AsDisk(w.frozen))
    /\ w.stage \in {"revalidate", "after"} =>
          P!Verdict(pol, w.group, w.graphs, w.cand, w.swapped) = "accepted"

(* No entry stands in two of the groups that remain, or in one that is      *)
(* claimed.                                                                 *)
Divided(rest, claimed) == \A g \in rest :
    (\A c \in claimed : g \cap c = {}) /\ \A h \in rest : g = h \/ g \cap h = {}

(* A record bears a claim of the run.                                       *)
Backs(r, j) == r # P!Nothing /\ r.accepted /\ r.policy = j.policy /\ j.memo = {r.listing}

(* Every claim of a run is backed by an accepted record of its policy, all  *)
(* by records of one listing, and what remains to be done meets no claim.   *)
ClaimsOk(j, w, rs) ==
    /\ \A g \in j.claimed : g \in P!Groups /\ Backs(rs[g], j)
    /\ \A l, m \in j.memo : l = m
    /\ j.stage = "chunks" =>
          Divided(j.todo \cup j.pieces \cup (IF w = P!NoWork THEN {} ELSE {w.group}), j.claimed)
    /\ w # P!NoWork => j.stage = "chunks" /\ w.group \notin j.todo \cup j.pieces

(* A run that goes on holds in its own fields, its claims and its work.     *)
RunHolds == strictJob # P!Idle => /\ JobOk(strictJob)
                                  /\ ClaimsOk(strictJob, strictWork, strictReceipts)
                                  /\ strictWork # P!NoWork => WorkOk(strictWork, strictJob.policy)
(* The inductive invariant of the qualification.                            *)
StrictInv == CachesHold /\ RunHolds /\ (strictJob = P!Idle => strictWork = P!NoWork)

LEMMA GroupIsNot == ASSUME NEW g \in P!Groups PROVE g # {}
<1>1. \A s : P!Cardinality(s) = Cardinality(s)
  BY DEF P!Cardinality, Cardinality
<1>2. Cardinality(g) > 1
  BY <1>1 DEF P!Groups
<1>. QED BY <1>2, FS_EmptySet

LEMMA GroupIsOf == ASSUME NEW g \in P!Groups PROVE \E i \in DOMAIN StrictChunk : g \subseteq StrictChunk[i]
BY DEF P!Groups

LEMMA HalvesDivide ==
  ASSUME NEW rest, NEW g, NEW claimed, Divided(rest \cup {g}, claimed), g \notin rest, NEW reason
  PROVE  /\ P!AfterRefusal(g, reason) \subseteq P!Groups
         /\ Divided(rest \cup P!AfterRefusal(g, reason), claimed)
<1> DEFINE lower == {i \in g : P!Cardinality({j \in g : j < i}) < P!Cardinality(g) \div 2}
<1>1. P!AfterRefusal(g, reason) \subseteq {lower, g \ lower} \cap P!Groups
  BY DEF P!AfterRefusal, P!Halves
<1>2. lower \subseteq g
  OBVIOUS
<1> HIDE DEF lower
<1> DEFINE more == P!AfterRefusal(g, reason)
<1>3. \A a \in more : a = lower \/ a = g \ lower
  BY <1>1
<1> HIDE DEF more
<1>4. \A a \in more : a \subseteq g
  BY <1>2, <1>3
<1>5. \A a, b \in more : a = b \/ a \cap b = {}
  BY <1>3
<1>6. \A a \in more, b \in rest : a \cap b = {}
  <2> TAKE a \in more, b \in rest
  <2>1. g \cap b = {}
    BY DEF Divided
  <2>. QED BY <2>1, <1>4
<1>7. \A a \in more, c \in claimed : a \cap c = {}
  <2> TAKE a \in more, c \in claimed
  <2>1. g \cap c = {}
    BY DEF Divided
  <2>. QED BY <2>1, <1>4
<1>8. Divided(rest \cup more, claimed)
  <2>1. ASSUME NEW a \in rest \cup more
        PROVE  (\A c \in claimed : a \cap c = {}) /\ \A h \in rest \cup more : a = h \/ a \cap h = {}
    <3>1. CASE a \in more
      BY <3>1, <1>5, <1>6, <1>7
    <3>2. CASE a \in rest
      BY <3>2, <1>6 DEF Divided
    <3>. QED BY <2>1, <3>1, <3>2
  <2>. QED BY <2>1 DEF Divided
<1>9. more \subseteq P!Groups
  BY <1>1 DEF more
<1>. QED BY <1>8, <1>9 DEF more

LEMMA ClaimDivides ==
  ASSUME NEW rest, NEW g, NEW claimed, Divided(rest \cup {g}, claimed), g \notin rest
  PROVE  Divided(rest, claimed \cup {g})
BY DEF Divided

LEMMA FewerDivide ==
  ASSUME NEW rest, NEW part_, part_ \subseteq rest, NEW claimed, Divided(rest, claimed)
  PROVE  Divided(part_, claimed)
BY DEF Divided

LEMMA StrictInit == P!Init => StrictInv
<1> SUFFICES ASSUME P!Init PROVE StrictInv
  OBVIOUS
<1>1. CachesHold
  BY DEF P!Init, CachesHold, ReceiptHolds, OriginalHolds
<1>2. strictJob = P!Idle /\ strictWork = P!NoWork
  BY DEF P!Init
<1>. QED BY <1>1, <1>2 DEF StrictInv, RunHolds

LEMMA CachesStay ==
  ASSUME CachesHold, UNCHANGED <<strictReceipts, originals>>, DOMAIN disk' = DOMAIN disk
  PROVE  CachesHold'
BY DEF CachesHold

LEMMA EnvironmentHolds ==
  ASSUME StrictInv, \/ \E f \in StrictFiles : P!Edit(f)
                    \/ P!Upgrade \/ P!Crash \/ \E v \in BOOLEAN : P!Start(v)
  PROVE  StrictInv'
<1>1. ASSUME NEW f \in StrictFiles, P!Edit(f) PROVE StrictInv'
  <2>1. DOMAIN disk' = DOMAIN disk /\ UNCHANGED <<strictReceipts, originals, strictJob, strictWork>>
    BY <1>1 DEF P!Edit, P!stores
  <2>. QED BY <2>1, CachesStay DEF StrictInv, RunHolds
<1>2. CASE P!Upgrade
  BY <1>2, CachesStay DEF StrictInv, RunHolds, P!Upgrade, P!stores
<1>3. CASE P!Crash
  BY <1>3, CachesStay DEF StrictInv, RunHolds, P!Crash, P!stores
<1>4. ASSUME NEW v \in BOOLEAN, P!Start(v) PROVE StrictInv'
  <2>1. UNCHANGED <<strictReceipts, originals, strictWork, disk>> /\ strictWork = P!NoWork
    BY <1>4 DEF P!Start, P!environment, P!stores, StrictInv
  <2>2. JobOk(strictJob') /\ strictJob'.claimed = {} /\ strictJob'.memo = {} /\ strictJob'.stage = "hints"
    BY <1>4 DEF P!Start, JobOk, JobFields, P!Eligible
  <2>3. ClaimsOk(strictJob', P!NoWork, strictReceipts)
    BY <2>2 DEF ClaimsOk
  <2>. QED BY <2>1, <2>2, <2>3, CachesStay DEF StrictInv, RunHolds
<1>. QED BY <1>1, <1>2, <1>3, <1>4

LEMMA TurnIs == ASSUME JobOk(strictJob), NEW g \in P!Turn
                PROVE  g \in strictJob.todo \cup strictJob.pieces /\ g \in P!Groups
BY DEF P!Turn, P!Foremost, JobOk

LEMMA ListingIs == ASSUME NEW l \in strictJob.memo, \A x, y \in strictJob.memo : x = y
                   PROVE  strictJob.memo = {P!RunListing}
<1>1. P!RunListing = CHOOSE x \in strictJob.memo : TRUE
  BY DEF P!RunListing
<1>. QED BY <1>1

(* A step between proofs: what was claimed stays backed.                    *)
LEMMA MemoStays ==
  ASSUME NEW rs, \A l, m \in strictJob.memo : l = m, \A c \in strictJob.claimed : Backs(rs[c], strictJob),
         NEW j, j.policy = strictJob.policy, j.memo = strictJob.memo \/ j.memo = {P!RunListing}
  PROVE  /\ \A c \in strictJob.claimed : Backs(rs[c], j)
         /\ \A l, m \in j.memo : l = m
BY ListingIs DEF Backs

LEMMA RunGoesOn ==
  ASSUME StrictInv, CachesHold', JobOk(strictJob'), ClaimsOk(strictJob', strictWork', strictReceipts'),
         strictWork' # P!NoWork => WorkOk(strictWork', strictJob'.policy)
  PROVE  StrictInv'
<1>1. strictJob' # P!Idle
  BY DEF JobOk, P!Idle
<1>. QED BY <1>1 DEF StrictInv, RunHolds

LEMMA HintHolds == ASSUME StrictInv, NEW g \in P!Groups, P!Hint(g) PROVE StrictInv'
<1> DEFINE j == strictJob
           q == strictJob'
           r == strictReceipts[g]
           taken == g \cap UNION j.claimed = {} /\ P!Servable(r)
<1>1. j.stage = "hints" /\ j # P!Idle /\ UNCHANGED <<disk, strictReceipts, originals, strictWork>>
  BY DEF P!Hint, P!Idle, P!environment, P!stores
<1>2. JobOk(j) /\ ClaimsOk(j, strictWork, strictReceipts) /\ strictWork = P!NoWork
  BY <1>1 DEF StrictInv, RunHolds, ClaimsOk
<1>3. q = [j EXCEPT !.todo = @ \ {g},
             !.claimed = IF taken /\ P!Usable(r) THEN @ \cup {g} ELSE @,
             !.memo = IF taken THEN P!Memo(r) ELSE @]
  BY DEF P!Hint
<1>4. /\ DOMAIN q = JobFields /\ q.stage = "hints" /\ q.pieces = j.pieces /\ q.policy = j.policy
      /\ q.todo = j.todo \ {g}
      /\ q.claimed = IF taken /\ P!Usable(r) THEN j.claimed \cup {g} ELSE j.claimed
      /\ q.memo = IF taken THEN P!Memo(r) ELSE j.memo
  BY <1>1, <1>2, <1>3 DEF JobOk, JobFields
<1> HIDE DEF q
<1>5. JobOk(q)
  <2>1. DOMAIN q = JobFields /\ q.stage = "hints" /\ q.pieces = j.pieces /\ q.todo = j.todo \ {g}
    BY <1>4
  <2>. QED BY <1>1, <1>2, <2>1 DEF JobOk
<1>6. q.memo = j.memo \/ q.memo = {P!RunListing}
  BY <1>4 DEF P!Memo
<1>7. (\A c \in j.claimed : Backs(strictReceipts[c], q)) /\ \A l, m \in q.memo : l = m
  BY <1>2, <1>4, <1>6, MemoStays DEF ClaimsOk
<1>8. taken /\ P!Usable(r) => Backs(r, q)
  BY <1>4 DEF Backs, P!Servable, P!Usable, P!Memo
<1>9. ClaimsOk(q, strictWork, strictReceipts)
  BY <1>2, <1>4, <1>7, <1>8 DEF ClaimsOk
<1>. QED BY <1>1, <1>2, <1>5, <1>9, CachesStay, RunGoesOn DEF StrictInv, q

LEMMA PackHolds == ASSUME StrictInv, P!Pack PROVE StrictInv'
<1> DEFINE j == strictJob
           q == strictJob'
<1>1. j.stage = "hints" /\ j # P!Idle /\ UNCHANGED <<disk, strictReceipts, originals, strictWork>>
  BY DEF P!Pack, P!Idle, P!environment, P!stores
<1>2. JobOk(j) /\ ClaimsOk(j, strictWork, strictReceipts) /\ strictWork = P!NoWork
  BY <1>1 DEF StrictInv, RunHolds, ClaimsOk
<1>3. q = [j EXCEPT !.stage = "chunks", !.todo = P!Packed(UNION j.claimed)]
  BY DEF P!Pack
<1>4. /\ DOMAIN q = JobFields /\ q.stage = "chunks" /\ q.pieces = {} /\ q.policy = j.policy
      /\ q.todo = P!Packed(UNION j.claimed) /\ q.claimed = j.claimed /\ q.memo = j.memo
  BY <1>1, <1>2, <1>3 DEF JobOk, JobFields
<1> HIDE DEF q
<1>5. P!Packed(UNION j.claimed) \subseteq P!Groups
  BY DEF P!Packed
<1>6. JobOk(q)
  BY <1>2, <1>4, <1>5 DEF JobOk
<1>7. Divided(P!Packed(UNION j.claimed), j.claimed)
  <2>1. ASSUME NEW a \in P!Packed(UNION j.claimed), NEW c \in j.claimed PROVE a \cap c = {}
    BY <2>1 DEF P!Packed
  <2>2. ASSUME NEW a \in P!Packed(UNION j.claimed), NEW b \in P!Packed(UNION j.claimed), a # b
        PROVE  a \cap b = {}
    <3> PICK i \in DOMAIN StrictChunk : a = StrictChunk[i] \ UNION j.claimed
      BY <2>2 DEF P!Packed
    <3> PICK k \in DOMAIN StrictChunk : b = StrictChunk[k] \ UNION j.claimed
      BY <2>2 DEF P!Packed
    <3>1. StrictChunk[i] \cap StrictChunk[k] = {}
      BY <2>2, ChunksApart
    <3>. QED BY <3>1
  <2>. QED BY <2>1, <2>2 DEF Divided
<1>8. ClaimsOk(q, strictWork, strictReceipts)
  <2>1. \A g \in q.claimed : g \in P!Groups /\ Backs(strictReceipts[g], q)
    BY <1>2, <1>4 DEF ClaimsOk, Backs
  <2>2. q.todo \cup q.pieces \cup (IF strictWork = P!NoWork THEN {} ELSE {strictWork.group})
          = P!Packed(UNION j.claimed)
    BY <1>2, <1>4
  <2>. QED BY <1>2, <1>4, <1>7, <2>1, <2>2 DEF ClaimsOk
<1>. QED BY <1>1, <1>2, <1>6, <1>8, CachesStay, RunGoesOn DEF StrictInv, q

(* Between proofs: what a run has left to do when it takes up group g.      *)
LEMMA TakenUp ==
  ASSUME StrictInv, P!Between, NEW g \in P!Turn
  PROVE  /\ strictJob # P!Idle /\ strictWork = P!NoWork /\ JobOk(strictJob) /\ strictJob.stage = "chunks"
         /\ \A c \in strictJob.claimed : c \in P!Groups /\ Backs(strictReceipts[c], strictJob)
         /\ \A l, m \in strictJob.memo : l = m
         /\ g \in P!Groups /\ g \notin strictJob.claimed
         /\ Divided(strictJob.todo \cup strictJob.pieces, strictJob.claimed)
         /\ Divided(((strictJob.todo \cup strictJob.pieces) \ {g}) \cup {g}, strictJob.claimed)
<1>1. strictJob # P!Idle /\ strictWork = P!NoWork /\ strictJob.stage = "chunks"
  BY DEF P!Between, P!Idle
<1>2. JobOk(strictJob) /\ ClaimsOk(strictJob, strictWork, strictReceipts)
  BY <1>1 DEF StrictInv, RunHolds
<1>3. g \in strictJob.todo \cup strictJob.pieces /\ g \in P!Groups
  BY <1>2, TurnIs
<1>4. Divided(strictJob.todo \cup strictJob.pieces, strictJob.claimed)
  BY <1>1, <1>2 DEF ClaimsOk
<1>5. ((strictJob.todo \cup strictJob.pieces) \ {g}) \cup {g} = strictJob.todo \cup strictJob.pieces
  BY <1>3
<1>6. g \notin strictJob.claimed
  BY <1>3, <1>4, GroupIsNot DEF Divided
<1>. QED BY <1>1, <1>2, <1>3, <1>4, <1>5, <1>6 DEF ClaimsOk

LEMMA ServeHolds == ASSUME StrictInv, NEW g \in P!Groups, P!ServeCached(g) PROVE StrictInv'
<1> DEFINE j == strictJob
           q == strictJob'
           r == strictReceipts[g]
           rest == (j.todo \cup j.pieces) \ {g}
           more == IF r.accepted THEN {} ELSE P!AfterRefusal(g, r.reason)
<1>1. P!Between /\ g \in P!Turn /\ UNCHANGED <<disk, strictReceipts, originals, strictWork>> /\ P!Cached(r)
  BY DEF P!ServeCached, P!environment, P!stores
<1>2. /\ j # P!Idle /\ strictWork = P!NoWork /\ JobOk(j) /\ j.stage = "chunks"
      /\ \A c \in j.claimed : c \in P!Groups /\ Backs(strictReceipts[c], j)
      /\ \A l, m \in j.memo : l = m
      /\ Divided(rest \cup {g}, j.claimed)
  BY <1>1, TakenUp
<1>3. q = [j EXCEPT !.memo = {P!RunListing}, !.todo = @ \ {g},
             !.pieces = (@ \ {g}) \cup more,
             !.claimed = IF r.accepted THEN @ \cup {g} ELSE @]
  BY DEF P!ServeCached
<1>4. /\ DOMAIN q = JobFields /\ q.stage = "chunks" /\ q.policy = j.policy /\ q.memo = {P!RunListing}
      /\ q.todo = j.todo \ {g} /\ q.pieces = (j.pieces \ {g}) \cup more
      /\ q.claimed = IF r.accepted THEN j.claimed \cup {g} ELSE j.claimed
  BY <1>2, <1>3 DEF JobOk, JobFields
<1> HIDE DEF q
<1>5. more \subseteq P!Groups /\ Divided(rest \cup more, q.claimed)
  <2>1. CASE r.accepted
    <3>1. Divided(rest, j.claimed \cup {g})
      BY <1>2, ClaimDivides
    <3>. QED BY <3>1, <2>1, <1>4
  <2>2. CASE ~r.accepted
    <3>1. more = P!AfterRefusal(g, r.reason)
      BY <2>2
    <3> HIDE DEF more
    <3>. QED BY <3>1, <2>2, <1>2, <1>4, HalvesDivide
  <2>. QED BY <2>1, <2>2
<1> HIDE DEF more
<1>6. JobOk(q)
  BY <1>2, <1>4, <1>5 DEF JobOk
<1>7. (\A c \in j.claimed : Backs(strictReceipts[c], q)) /\ \A l, m \in q.memo : l = m
  BY <1>2, <1>4, MemoStays
<1>8. r.accepted => Backs(r, q)
  <2>1. ReceiptHolds(r, g) /\ P!Usable(r)
    BY <1>1 DEF StrictInv, CachesHold, P!Cached
  <2>2. r.accepted => r.policy = j.policy
    BY <1>1, <2>1 DEF P!Cached, ReceiptHolds, P!Usable
  <2>. QED BY <1>4, <2>1, <2>2 DEF Backs, P!Usable
<1>9. q.todo \cup q.pieces \cup (IF strictWork = P!NoWork THEN {} ELSE {strictWork.group}) = rest \cup more
  BY <1>2, <1>4
<1>10. ClaimsOk(q, strictWork, strictReceipts)
  BY <1>2, <1>4, <1>5, <1>7, <1>8, <1>9 DEF ClaimsOk
<1>. QED BY <1>1, <1>2, <1>6, <1>10, CachesStay, RunGoesOn DEF StrictInv, q

LEMMA DeferHolds == ASSUME StrictInv, NEW g \in P!Groups, P!Defer(g) PROVE StrictInv'
<1> DEFINE j == strictJob
           q == strictJob'
           r == strictReceipts[g]
           asked == r # P!Nothing /\ (j.verify \/ r.policy = j.policy)
           rest == (j.todo \cup j.pieces) \ {g}
<1>1. P!Between /\ g \in P!Turn /\ UNCHANGED <<disk, strictReceipts, originals, strictWork>>
  BY DEF P!Defer, P!environment, P!stores
<1>2. /\ j # P!Idle /\ strictWork = P!NoWork /\ JobOk(j) /\ j.stage = "chunks"
      /\ \A c \in j.claimed : c \in P!Groups /\ Backs(strictReceipts[c], j)
      /\ \A l, m \in j.memo : l = m
      /\ Divided(j.todo \cup j.pieces, j.claimed)
  BY <1>1, TakenUp
<1>3. q = [j EXCEPT !.todo = @ \ {g}, !.pieces = @ \ {g}, !.memo = IF asked THEN P!Memo(r) ELSE @]
  BY DEF P!Defer
<1>4. /\ DOMAIN q = JobFields /\ q.stage = "chunks" /\ q.policy = j.policy
      /\ q.memo = IF asked THEN P!Memo(r) ELSE j.memo
      /\ q.todo = j.todo \ {g} /\ q.pieces = j.pieces \ {g} /\ q.claimed = j.claimed
  BY <1>2, <1>3 DEF JobOk, JobFields
<1> HIDE DEF q
<1>5. q.memo = j.memo \/ q.memo = {P!RunListing}
  BY <1>4 DEF P!Memo
<1>6. JobOk(q)
  BY <1>2, <1>4 DEF JobOk
<1>7. (\A c \in j.claimed : Backs(strictReceipts[c], q)) /\ \A l, m \in q.memo : l = m
  BY <1>2, <1>4, <1>5, MemoStays
<1>8. q.todo \cup q.pieces \cup (IF strictWork = P!NoWork THEN {} ELSE {strictWork.group}) = rest
  BY <1>2, <1>4
<1>9. Divided(rest, q.claimed)
  BY <1>2, <1>4, FewerDivide
<1>10. ClaimsOk(q, strictWork, strictReceipts)
  BY <1>2, <1>4, <1>7, <1>8, <1>9 DEF ClaimsOk
<1>. QED BY <1>1, <1>2, <1>6, <1>10, CachesStay, RunGoesOn DEF StrictInv, q

LEMMA BeginHolds == ASSUME StrictInv, NEW g \in P!Groups, P!BeginProof(g) PROVE StrictInv'
<1> DEFINE j == strictJob
           q == strictJob'
           w == strictWork'
           r == strictReceipts[g]
           rest == (j.todo \cup j.pieces) \ {g}
<1>1. P!Between /\ g \in P!Turn /\ UNCHANGED <<disk, strictReceipts, originals>> /\ ~P!Cached(r) /\ j.verify
  BY DEF P!BeginProof, P!environment, P!stores
<1>2. /\ j # P!Idle /\ strictWork = P!NoWork /\ JobOk(j) /\ j.stage = "chunks"
      /\ \A c \in j.claimed : c \in P!Groups /\ Backs(strictReceipts[c], j)
      /\ \A l, m \in j.memo : l = m
      /\ Divided(rest \cup {g}, j.claimed)
  BY <1>1, TakenUp
<1>3. q = [j EXCEPT !.todo = @ \ {g}, !.pieces = @ \ {g}, !.memo = {P!RunListing}, !.tries = @ + 1]
  BY DEF P!BeginProof
<1>4. /\ DOMAIN q = JobFields /\ q.stage = "chunks" /\ q.policy = j.policy /\ q.memo = {P!RunListing}
      /\ q.todo = j.todo \ {g} /\ q.pieces = j.pieces \ {g} /\ q.claimed = j.claimed
  BY <1>2, <1>3 DEF JobOk, JobFields
<1> HIDE DEF q
<1>5. JobOk(q)
  BY <1>2, <1>4 DEF JobOk
<1>6. (\A c \in j.claimed : Backs(strictReceipts[c], q)) /\ \A l, m \in q.memo : l = m
  BY <1>2, <1>4, MemoStays
<1>7. w # P!NoWork /\ w.group = g /\ WorkOk(w, q.policy)
  <2>1. CASE P!Usable(r)
    <3>1. r # P!Nothing /\ r.reason # "compile"
      BY <1>1, <2>1 DEF P!Cached, P!Usable
    <3>2. JudgedWell(r, g)
      BY <3>1 DEF StrictInv, CachesHold, ReceiptHolds
    <3>3. w = [group |-> g, stage |-> "admit", graphs |-> r.graphs, seen |-> r.seen,
               frozen |-> r.files, cand |-> r.cand, swapped |-> r.swapped,
               replay |-> TRUE, fresh |-> {}]
      BY <2>1 DEF P!BeginProof
    <3>4. DOMAIN w = WorkFields
      BY <3>3 DEF WorkFields
    <3>5. /\ w.group = g /\ w.stage = "admit" /\ w.graphs = r.graphs /\ w.seen = r.seen
          /\ w.frozen = r.files /\ w.cand = r.cand /\ w.fresh = {}
      BY <3>3
    <3> HIDE DEF w, r
    <3>6. w # P!NoWork
      BY <3>5 DEF P!NoWork
    <3>. QED BY <3>2, <3>4, <3>5, <3>6 DEF WorkOk, JudgedWell
  <2>2. CASE ~P!Usable(r)
    <3>3. w = [group |-> g, stage |-> "originals", graphs |-> <<>>, seen |-> <<>>,
               frozen |-> {}, cand |-> P!Nothing, swapped |-> FALSE,
               replay |-> FALSE, fresh |-> {}]
      BY <2>2 DEF P!BeginProof
    <3>4. DOMAIN w = WorkFields
      BY <3>3 DEF WorkFields
    <3>5. /\ w.group = g /\ w.stage = "originals" /\ w.graphs = <<>> /\ w.seen = <<>> /\ w.fresh = {}
      BY <3>3
    <3> HIDE DEF w, r
    <3>6. w # P!NoWork
      BY <3>5 DEF P!NoWork
    <3>7. DOMAIN w.graphs = {} /\ DOMAIN w.seen = {}
      BY <3>5
    <3>. QED BY <3>4, <3>5, <3>6, <3>7 DEF WorkOk
  <2>. QED BY <2>1, <2>2
<1> HIDE DEF w
<1>8. q.todo \cup q.pieces \cup (IF w = P!NoWork THEN {} ELSE {w.group}) = rest \cup {g}
  BY <1>4, <1>7
<1>9. w.group \notin q.todo \cup q.pieces
  BY <1>4, <1>7
<1>10. ClaimsOk(q, w, strictReceipts)
  BY <1>2, <1>4, <1>6, <1>8, <1>9 DEF ClaimsOk
<1>. QED BY <1>1, <1>5, <1>7, <1>10, CachesStay, RunGoesOn DEF StrictInv, q, w

(* While a group is proved.                                                 *)
LEMMA AtWork ==
  ASSUME StrictInv, strictWork # P!NoWork
  PROVE  /\ strictJob # P!Idle /\ JobOk(strictJob) /\ WorkOk(strictWork, strictJob.policy)
         /\ ClaimsOk(strictJob, strictWork, strictReceipts) /\ strictJob.stage = "chunks"
         /\ strictWork.group \in P!Groups /\ strictWork.group \notin strictJob.claimed
         /\ strictWork.group \notin strictJob.todo \cup strictJob.pieces
         /\ Divided((strictJob.todo \cup strictJob.pieces) \cup {strictWork.group}, strictJob.claimed)
<1>1. strictJob # P!Idle /\ JobOk(strictJob) /\ WorkOk(strictWork, strictJob.policy)
      /\ ClaimsOk(strictJob, strictWork, strictReceipts)
  BY DEF StrictInv, RunHolds
<1>2. strictJob.stage = "chunks" /\ strictWork.group \notin strictJob.todo \cup strictJob.pieces
  BY <1>1 DEF ClaimsOk
<1>3. Divided((strictJob.todo \cup strictJob.pieces) \cup {strictWork.group}, strictJob.claimed)
  BY <1>1, <1>2 DEF ClaimsOk
<1>4. strictWork.group \in P!Groups
  BY <1>1 DEF WorkOk
<1>5. strictWork.group \notin strictJob.claimed
  BY <1>3, <1>4, GroupIsNot DEF Divided
<1>. QED BY <1>1, <1>2, <1>3, <1>4, <1>5

(* The proof goes on: only what it has of the group changes.                *)
LEMMA WorkGoesOn ==
  ASSUME StrictInv, strictWork # P!NoWork, CachesHold', UNCHANGED <<strictJob, strictReceipts>>,
         WorkOk(strictWork', strictJob.policy), strictWork'.group = strictWork.group
  PROVE  StrictInv'
<1>1. strictWork'.stage \in {"originals", "candidate", "save", "admit", "revalidate", "after"}
  BY DEF WorkOk
<1>2. strictWork' # P!NoWork
  BY <1>1 DEF P!NoWork
<1>3. JobOk(strictJob) /\ ClaimsOk(strictJob, strictWork, strictReceipts)
  BY AtWork
<1>4. ClaimsOk(strictJob, strictWork', strictReceipts)
  BY <1>2, <1>3 DEF ClaimsOk
<1>. QED BY <1>3, <1>4, RunGoesOn

LEMMA RefuseHolds ==
  ASSUME StrictInv, strictWork # P!NoWork, NEW reason, P!Refuse(reason),
         UNCHANGED <<disk, originals>>,
         \/ UNCHANGED strictReceipts
         \/ \E r : P!Keep(r) /\ ReceiptHolds(r, strictWork.group)
  PROVE  StrictInv'
<1> DEFINE j == strictJob
           q == strictJob'
           g == strictWork.group
           rest == j.todo \cup j.pieces
           more == P!AfterRefusal(g, reason)
<1>1. /\ JobOk(j) /\ ClaimsOk(j, strictWork, strictReceipts) /\ j.stage = "chunks"
      /\ g \in P!Groups /\ g \notin j.claimed /\ g \notin rest
      /\ Divided(rest \cup {g}, j.claimed)
  BY AtWork
<1>2. strictWork' = P!NoWork /\ q = [j EXCEPT !.pieces = @ \cup more]
  BY DEF P!Refuse
<1>3. /\ DOMAIN q = JobFields /\ q.stage = "chunks" /\ q.policy = j.policy /\ q.memo = j.memo
      /\ q.todo = j.todo /\ q.pieces = j.pieces \cup more /\ q.claimed = j.claimed
  BY <1>1, <1>2 DEF JobOk, JobFields
<1>4. more \subseteq P!Groups /\ Divided(rest \cup more, j.claimed)
  BY <1>1, HalvesDivide
<1> HIDE DEF q, more
<1>5. JobOk(q)
  BY <1>1, <1>3, <1>4 DEF JobOk
<1>6. /\ CachesHold'
      /\ \A c \in j.claimed : strictReceipts'[c] = strictReceipts[c]
  <2>1. CASE UNCHANGED strictReceipts
    BY <2>1, CachesStay DEF StrictInv
  <2>2. ASSUME NEW r, P!Keep(r), ReceiptHolds(r, g)
        PROVE  CachesHold' /\ \A c \in j.claimed : strictReceipts'[c] = strictReceipts[c]
    <3>1. strictReceipts' = [strictReceipts EXCEPT ![g] = r]
      BY <2>2 DEF P!Keep
    <3>2. CachesHold
      BY DEF StrictInv
    <3>3. DOMAIN strictReceipts' = P!Groups /\ \A h \in P!Groups : ReceiptHolds(strictReceipts'[h], h)
      BY <2>2, <3>1, <3>2 DEF CachesHold
    <3>4. CachesHold'
      BY <3>2, <3>3 DEF CachesHold
    <3>. QED BY <1>1, <3>1, <3>4
  <2>. QED BY <2>1, <2>2
<1>7. \A c \in j.claimed : c \in P!Groups /\ Backs(strictReceipts'[c], q)
  BY <1>1, <1>3, <1>6 DEF ClaimsOk, Backs
<1>8. ClaimsOk(q, P!NoWork, strictReceipts')
  <2>1. q.todo \cup q.pieces \cup (IF P!NoWork = P!NoWork THEN {} ELSE {P!NoWork.group}) = rest \cup more
    BY <1>3
  <2>. QED BY <1>1, <1>3, <1>4, <1>7, <2>1 DEF ClaimsOk
<1>. QED BY <1>2, <1>5, <1>6, <1>8, RunGoesOn DEF q

LEMMA AddHolds ==
  ASSUME StrictInv, strictWork.stage = "originals", NEW e \in P!Left, NEW graph, NEW seen, NEW fresh,
         fresh \subseteq {e}, Witnessed(e, graph, seen), P!Add(e, graph, seen, fresh),
         UNCHANGED <<disk, originals>>
  PROVE  StrictInv'
<1> DEFINE w == strictWork
           v == strictWork'
<1>1. w # P!NoWork
  BY DEF P!NoWork
<1>2. WorkOk(w, strictJob.policy)
  BY <1>1, AtWork
<1>3. v = [w EXCEPT !.graphs = P!Put(@, e, graph), !.seen = P!Put(@, e, seen), !.fresh = @ \cup fresh]
  BY DEF P!Add
<1>4. /\ DOMAIN v = WorkFields /\ v.group = w.group /\ v.stage = "originals"
      /\ v.graphs = P!Put(w.graphs, e, graph) /\ v.seen = P!Put(w.seen, e, seen)
      /\ v.fresh = w.fresh \cup fresh
  BY <1>2, <1>3 DEF WorkOk, WorkFields
<1> HIDE DEF v
<1>5. /\ DOMAIN v.graphs = DOMAIN w.graphs \cup {e} /\ DOMAIN v.seen = DOMAIN w.seen \cup {e}
      /\ v.graphs[e] = graph /\ v.seen[e] = seen
      /\ \A i \in DOMAIN w.graphs \ {e} : v.graphs[i] = w.graphs[i] /\ v.seen[i] = w.seen[i]
  BY <1>2, <1>4 DEF P!Put, WorkOk
<1>6. e \in w.group
  BY DEF P!Left
<1>7. \A i \in DOMAIN v.graphs : Witnessed(i, v.graphs[i], v.seen[i])
  <2> TAKE i \in DOMAIN v.graphs
  <2>1. CASE i = e
    BY <2>1, <1>5
  <2>2. CASE i # e
    <3>1. i \in DOMAIN w.graphs \ {e}
      BY <2>2, <1>5
    <3>. QED BY <3>1, <1>2, <1>5 DEF WorkOk
  <2>. QED BY <2>1, <2>2
<1>8. WorkOk(v, strictJob.policy)
  BY <1>2, <1>4, <1>5, <1>6, <1>7 DEF WorkOk
<1>9. UNCHANGED <<strictJob, strictReceipts>>
  BY DEF P!Add
<1>. QED BY <1>1, <1>4, <1>8, <1>9, CachesStay, WorkGoesOn DEF StrictInv, v

LEMMA FailHolds ==
  ASSUME StrictInv, strictWork # P!NoWork, P!Fail, UNCHANGED <<disk, originals>>
  PROVE  StrictInv'
BY RefuseHolds DEF P!Fail

LEMMA OriginalStepHolds == ASSUME StrictInv, P!IndexOriginal PROVE StrictInv'
<1>1. strictWork.stage = "originals" /\ UNCHANGED <<disk, originals>>
  BY DEF P!IndexOriginal, P!environment
<1>2. strictWork # P!NoWork
  BY <1>1 DEF P!NoWork
<1> PICK e \in P!Left :
         IF P!OriginalUsable(originals[e]) THEN P!Add(e, originals[e].graph, originals[e].seen, {})
         ELSE IF P!Compiles(e, disk) THEN P!Add(e, P!Graph({e}, disk), P!Listing, {e})
         ELSE P!Fail
  BY DEF P!IndexOriginal
<1>3. CASE P!OriginalUsable(originals[e])
  <2>1. originals[e] # P!Nothing
    BY <1>3 DEF P!OriginalUsable, P!Usable
  <2>2. e \in StrictEntries
    <3>1. e \in strictWork.group /\ strictWork.group \in P!Groups
      BY <1>2, AtWork DEF P!Left
    <3>. QED BY <3>1, EntriesChunked, GroupIsOf
  <2>3. Witnessed(e, originals[e].graph, originals[e].seen)
    BY <2>1, <2>2 DEF StrictInv, CachesHold, OriginalHolds
  <2>. QED BY <1>1, <1>3, <2>3, AddHolds
<1>4. CASE ~P!OriginalUsable(originals[e]) /\ P!Compiles(e, disk)
  <2>1. P!Listing = P!Present(disk)
    BY DEF P!Listing, P!Present, StrictInv, CachesHold
  <2>2. Witnessed(e, P!Graph({e}, disk), P!Listing)
    BY <1>4, <2>1 DEF Witnessed
  <2>. QED BY <1>1, <1>4, <2>2, AddHolds
<1>5. CASE ~P!OriginalUsable(originals[e]) /\ ~P!Compiles(e, disk)
  BY <1>1, <1>2, <1>5, FailHolds
<1>. QED BY <1>3, <1>4, <1>5

LEMMA FreezeHolds == ASSUME StrictInv, P!Freeze PROVE StrictInv'
<1> DEFINE w == strictWork
           v == strictWork'
           read == P!FilesOf(UNION {w.graphs[e].nodes : e \in w.group})
<1>1. w.stage = "originals" /\ UNCHANGED <<disk, originals>> /\ P!Left = {}
  BY DEF P!Freeze, P!environment
<1>2. w # P!NoWork
  BY <1>1 DEF P!NoWork
<1>3. WorkOk(w, strictJob.policy)
  BY <1>2, AtWork
<1>4. CASE read \subseteq P!Listing
  <2>1. v = [w EXCEPT !.stage = "candidate", !.frozen = P!Frozen(read)] /\ UNCHANGED <<strictJob, strictReceipts>>
    BY <1>4 DEF P!Freeze
  <2>2. /\ DOMAIN v = WorkFields /\ v.group = w.group /\ v.stage = "candidate"
        /\ v.graphs = w.graphs /\ v.seen = w.seen /\ v.fresh = w.fresh
    BY <1>3, <2>1 DEF WorkOk, WorkFields
  <2>3. DOMAIN w.graphs = w.group
    BY <1>1, <1>3 DEF WorkOk, P!Left
  <2> HIDE DEF v
  <2>4. WorkOk(v, strictJob.policy)
    BY <1>3, <2>2, <2>3 DEF WorkOk
  <2>. QED BY <1>1, <1>2, <2>1, <2>2, <2>4, CachesStay, WorkGoesOn DEF StrictInv, v
<1>5. CASE ~(read \subseteq P!Listing)
  <2>1. P!Fail
    BY <1>5 DEF P!Freeze
  <2>. QED BY <2>1, <1>1, <1>2, FailHolds
<1>. QED BY <1>4, <1>5

LEMMA CandidateHolds == ASSUME StrictInv, P!IndexCandidate PROVE StrictInv'
<1> DEFINE w == strictWork
           v == strictWork'
           copy == P!AsDisk(w.frozen)
           fails == StrictClash[strictJob.policy][w.group] = "compile" \/ \E e \in w.group : ~P!Compiles(e, copy)
<1>1. w.stage = "candidate" /\ UNCHANGED <<disk, originals>>
  BY DEF P!IndexCandidate, P!environment
<1>2. w # P!NoWork
  BY <1>1 DEF P!NoWork
<1>3. WorkOk(w, strictJob.policy)
  BY <1>2, AtWork
<1>4. CASE fails
  <2>1. P!Keep(P!Refused) /\ P!Refuse("compile")
    BY <1>4 DEF P!IndexCandidate
  <2>2. ReceiptHolds(P!Refused, w.group)
    BY DEF ReceiptHolds, P!Refused
  <2>. QED BY <1>1, <1>2, <2>1, <2>2, RefuseHolds
<1>5. CASE ~fails
  <2>1. v = [w EXCEPT !.stage = "save", !.cand = P!Graph(w.group, copy)] /\ UNCHANGED <<strictJob, strictReceipts>>
    BY <1>5 DEF P!IndexCandidate
  <2>2. /\ DOMAIN v = WorkFields /\ v.group = w.group /\ v.stage = "save" /\ v.frozen = w.frozen
        /\ v.graphs = w.graphs /\ v.seen = w.seen /\ v.fresh = w.fresh
        /\ v.cand = P!Graph(w.group, P!AsDisk(w.frozen))
    BY <1>3, <2>1 DEF WorkOk, WorkFields
  <2>3. DOMAIN w.graphs = w.group
    BY <1>1, <1>3 DEF WorkOk
  <2> HIDE DEF v
  <2>4. WorkOk(v, strictJob.policy)
    BY <1>3, <2>2, <2>3 DEF WorkOk
  <2>. QED BY <1>1, <1>2, <2>1, <2>2, <2>4, CachesStay, WorkGoesOn DEF StrictInv, v
<1>. QED BY <1>4, <1>5

LEMMA SaveHolds == ASSUME StrictInv, P!SaveOriginals PROVE StrictInv'
<1> DEFINE w == strictWork
           v == strictWork'
<1>1. w.stage = "save" /\ UNCHANGED <<disk, strictReceipts, strictJob>>
  BY DEF P!SaveOriginals, P!environment
<1>2. w # P!NoWork
  BY <1>1 DEF P!NoWork
<1>3. WorkOk(w, strictJob.policy)
  BY <1>2, AtWork
<1>4. originals' = [e \in StrictEntries |-> IF e \in P!Savable
          THEN [graph |-> w.graphs[e], policy |-> strictJob.policy, files |-> P!Bound(e),
                listing |-> P!RunListing, seen |-> w.seen[e]]
          ELSE originals[e]]
  BY DEF P!SaveOriginals
<1>5. ASSUME NEW e \in StrictEntries PROVE OriginalHolds(originals'[e], e)
  <2>1. CASE e \in P!Savable
    <3>1. e \in DOMAIN w.graphs /\ w.graphs[e].nodes \subseteq w.frozen
      BY <2>1, <1>3 DEF P!Savable, WorkOk
    <3>2. originals'[e].graph = w.graphs[e] /\ originals'[e].seen = w.seen[e] /\ originals'[e].files = P!Bound(e)
      BY <2>1, <1>4, <1>5
    <3>3. w.graphs[e].nodes \subseteq P!Bound(e)
      BY <3>1 DEF P!Bound, P!FilesOf
    <3>. QED BY <3>1, <3>2, <3>3, <1>3 DEF OriginalHolds, WorkOk
  <2>2. CASE e \notin P!Savable
    BY <2>2, <1>4, <1>5 DEF StrictInv, CachesHold
  <2>. QED BY <2>1, <2>2
<1>6. CachesHold'
  BY <1>1, <1>4, <1>5 DEF StrictInv, CachesHold
<1>7. v = [w EXCEPT !.stage = "admit", !.fresh = @ \ P!Savable]
  BY DEF P!SaveOriginals
<1>8. /\ DOMAIN v = WorkFields /\ v.group = w.group /\ v.stage = "admit" /\ v.frozen = w.frozen
      /\ v.graphs = w.graphs /\ v.seen = w.seen /\ v.fresh = w.fresh \ P!Savable /\ v.cand = w.cand
  BY <1>3, <1>7 DEF WorkOk, WorkFields
<1> HIDE DEF v
<1>9. WorkOk(v, strictJob.policy)
  BY <1>1, <1>3, <1>8 DEF WorkOk
<1>. QED BY <1>1, <1>2, <1>6, <1>8, <1>9, WorkGoesOn DEF v

LEMMA JudgedHolds ==
  ASSUME StrictInv, strictWork.stage \in {"admit", "after"}, NEW yes \in BOOLEAN,
         yes => P!Judgement = "accepted"
  PROVE  ReceiptHolds(P!Judged(yes), strictWork.group)
<1> DEFINE w == strictWork
           r == P!Judged(yes)
<1>1. w # P!NoWork
  BY DEF P!NoWork
<1>2. WorkOk(w, strictJob.policy)
  BY <1>1, AtWork
<1>3. /\ r.accepted = yes /\ r.reason = "admission" /\ r.policy = strictJob.policy /\ r.files = w.frozen
      /\ r.graphs = w.graphs /\ r.seen = w.seen /\ r.cand = w.cand /\ r.swapped = w.swapped
  BY DEF P!Judged
<1> HIDE DEF r
<1>4. JudgedWell(r, w.group)
  BY <1>2, <1>3 DEF JudgedWell, WorkOk
<1>. QED BY <1>3, <1>4 DEF ReceiptHolds, P!Judgement, r

LEMMA AdmitHolds == ASSUME StrictInv, P!Admit PROVE StrictInv'
<1> DEFINE w == strictWork
           v == strictWork'
<1>1. w.stage = "admit" /\ UNCHANGED <<disk, originals>>
  BY DEF P!Admit, P!environment
<1>2. w # P!NoWork
  BY <1>1 DEF P!NoWork
<1>3. WorkOk(w, strictJob.policy)
  BY <1>2, AtWork
<1>4. DOMAIN w.graphs = w.group
  BY <1>1, <1>3 DEF WorkOk
<1>5. CASE P!Judgement = "accepted"
  <2>1. v = [w EXCEPT !.stage = "revalidate"] /\ UNCHANGED <<strictJob, strictReceipts>>
    BY <1>5 DEF P!Admit
  <2>2. /\ DOMAIN v = WorkFields /\ v.group = w.group /\ v.stage = "revalidate" /\ v.frozen = w.frozen
        /\ v.graphs = w.graphs /\ v.seen = w.seen /\ v.fresh = w.fresh /\ v.cand = w.cand
        /\ v.swapped = w.swapped
    BY <1>3, <2>1 DEF WorkOk, WorkFields
  <2> HIDE DEF v
  <2>3. WorkOk(v, strictJob.policy)
    BY <1>1, <1>3, <1>4, <1>5, <2>2 DEF WorkOk, P!Judgement
  <2>. QED BY <1>1, <1>2, <2>1, <2>2, <2>3, CachesStay, WorkGoesOn DEF StrictInv, v
<1>6. CASE P!Judgement # "accepted" /\ P!Judgement = "order" /\ ~w.replay
           /\ P!FilesOf(w.frozen) \subseteq P!Listing
  <2>1. /\ v = [w EXCEPT !.stage = "candidate", !.swapped = TRUE, !.frozen = P!Frozen(P!FilesOf(@))]
        /\ UNCHANGED <<strictJob, strictReceipts>>
    BY <1>6 DEF P!Admit
  <2>2. /\ DOMAIN v = WorkFields /\ v.group = w.group /\ v.stage = "candidate"
        /\ v.graphs = w.graphs /\ v.seen = w.seen /\ v.fresh = w.fresh
    BY <1>3, <2>1 DEF WorkOk, WorkFields
  <2> HIDE DEF v
  <2>3. WorkOk(v, strictJob.policy)
    BY <1>3, <1>4, <2>2 DEF WorkOk
  <2>. QED BY <1>1, <1>2, <2>1, <2>2, <2>3, CachesStay, WorkGoesOn DEF StrictInv, v
<1>7. CASE P!Judgement # "accepted" /\ P!Judgement = "order" /\ ~w.replay
           /\ ~(P!FilesOf(w.frozen) \subseteq P!Listing)
  <2>1. P!Fail
    BY <1>7 DEF P!Admit
  <2>. QED BY <2>1, <1>1, <1>2, FailHolds
<1>8. CASE P!Judgement # "accepted" /\ ~(P!Judgement = "order" /\ ~w.replay)
  <2>1. P!Keep(P!Judged(FALSE)) /\ P!Refuse("admission")
    BY <1>8 DEF P!Admit
  <2>2. ReceiptHolds(P!Judged(FALSE), w.group)
    BY <1>1, JudgedHolds
  <2>. QED BY <1>1, <1>2, <2>1, <2>2, RefuseHolds
<1>. QED BY <1>5, <1>6, <1>7, <1>8

LEMMA RevalidateHolds == ASSUME StrictInv, P!Revalidate PROVE StrictInv'
<1> DEFINE w == strictWork
           v == strictWork'
<1>1. w.stage = "revalidate" /\ UNCHANGED <<disk, originals>>
  BY DEF P!Revalidate, P!environment
<1>2. w # P!NoWork
  BY <1>1 DEF P!NoWork
<1>3. WorkOk(w, strictJob.policy)
  BY <1>2, AtWork
<1>4. CASE P!BytesHold(w.frozen)
  <2>1. v = [w EXCEPT !.stage = "after"] /\ UNCHANGED <<strictJob, strictReceipts>>
    BY <1>4 DEF P!Revalidate
  <2>2. /\ DOMAIN v = WorkFields /\ v.group = w.group /\ v.stage = "after" /\ v.frozen = w.frozen
        /\ v.graphs = w.graphs /\ v.seen = w.seen /\ v.fresh = w.fresh /\ v.cand = w.cand
        /\ v.swapped = w.swapped
    BY <1>3, <2>1 DEF WorkOk, WorkFields
  <2> HIDE DEF v
  <2>3. WorkOk(v, strictJob.policy)
    BY <1>1, <1>3, <2>2 DEF WorkOk
  <2>. QED BY <1>1, <1>2, <2>1, <2>2, <2>3, CachesStay, WorkGoesOn DEF StrictInv, v
<1>5. CASE ~P!BytesHold(w.frozen)
  <2>1. P!Fail
    BY <1>5 DEF P!Revalidate
  <2>. QED BY <2>1, <1>1, <1>2, FailHolds
<1>. QED BY <1>4, <1>5

LEMMA AcceptHolds == ASSUME StrictInv, P!Accept PROVE StrictInv'
<1> DEFINE w == strictWork
           j == strictJob
           q == strictJob'
           g == strictWork.group
           rest == j.todo \cup j.pieces
           r == P!Judged(TRUE)
<1>1. w.stage = "after" /\ UNCHANGED <<disk, originals>>
  BY DEF P!Accept, P!environment
<1>2. w # P!NoWork
  BY <1>1 DEF P!NoWork
<1>3. CASE j.memo = {P!Listing}
  <2>1. /\ JobOk(j) /\ WorkOk(w, j.policy) /\ ClaimsOk(j, w, strictReceipts) /\ j.stage = "chunks"
        /\ g \in P!Groups /\ g \notin j.claimed /\ g \notin rest
        /\ Divided(rest \cup {g}, j.claimed)
    BY <1>2, AtWork
  <2>2. strictReceipts' = [strictReceipts EXCEPT ![g] = r]
    BY <1>3 DEF P!Accept, P!Keep
  <2>3. q = [j EXCEPT !.claimed = @ \cup {g}, !.batches = @ + 1] /\ strictWork' = P!NoWork
    BY <1>3 DEF P!Accept
  <2>4. /\ DOMAIN q = JobFields /\ q.stage = "chunks" /\ q.policy = j.policy /\ q.memo = j.memo
        /\ q.todo = j.todo /\ q.pieces = j.pieces /\ q.claimed = j.claimed \cup {g}
    BY <2>1, <2>3 DEF JobOk, JobFields
  <2> HIDE DEF q
  <2>5. JobOk(q)
    BY <2>1, <2>4 DEF JobOk
  <2>6. P!Judgement = "accepted"
    BY <1>1, <2>1 DEF WorkOk, P!Judgement
  <2>7. ReceiptHolds(r, g)
    BY <1>1, <2>6, JudgedHolds
  <2>8. CachesHold
    BY DEF StrictInv
  <2>9. DOMAIN strictReceipts' = P!Groups /\ \A h \in P!Groups : ReceiptHolds(strictReceipts'[h], h)
    BY <2>2, <2>7, <2>8 DEF CachesHold
  <2>10. CachesHold'
    BY <1>1, <2>8, <2>9 DEF CachesHold
  <2>11. P!RunListing = P!Listing
    BY <1>3 DEF P!RunListing
  <2>12. Backs(r, q)
    <3>1. r.accepted /\ r.policy = j.policy /\ r.listing = P!RunListing /\ DOMAIN r # {"kind"}
      BY DEF P!Judged
    <3>2. r # P!Nothing
      BY <3>1 DEF P!Nothing
    <3>. QED BY <1>3, <2>4, <2>11, <3>1, <3>2 DEF Backs
  <2> HIDE DEF r
  <2>13. strictReceipts'[g] = r /\ \A c \in j.claimed : strictReceipts'[c] = strictReceipts[c]
    <3>1. DOMAIN strictReceipts = P!Groups
      BY <2>8 DEF CachesHold
    <3>. QED BY <2>1, <2>2, <3>1
  <2>14. \A c \in q.claimed : c \in P!Groups /\ Backs(strictReceipts'[c], q)
    <3> TAKE c \in q.claimed
    <3>1. CASE c = g
      BY <3>1, <2>1, <2>12, <2>13
    <3>2. CASE c # g
      <4>1. c \in j.claimed
        BY <3>2, <2>4
      <4>2. c \in P!Groups /\ Backs(strictReceipts[c], j)
        BY <4>1, <2>1 DEF ClaimsOk
      <4>. QED BY <4>1, <4>2, <2>4, <2>13 DEF Backs
    <3>. QED BY <3>1, <3>2
  <2>15. Divided(rest, q.claimed)
    BY <2>1, <2>4, ClaimDivides
  <2>16. ClaimsOk(q, P!NoWork, strictReceipts')
    <3>1. q.todo \cup q.pieces \cup (IF P!NoWork = P!NoWork THEN {} ELSE {P!NoWork.group}) = rest
      BY <2>4
    <3>2. \A l, m \in q.memo : l = m
      BY <2>1, <2>4 DEF ClaimsOk
    <3>. QED BY <2>4, <2>14, <2>15, <3>1, <3>2 DEF ClaimsOk
  <2>. QED BY <2>3, <2>5, <2>10, <2>16, RunGoesOn DEF q
<1>4. CASE j.memo # {P!Listing}
  <2>1. P!Fail
    BY <1>4 DEF P!Accept
  <2>. QED BY <2>1, <1>1, <1>2, FailHolds
<1>. QED BY <1>3, <1>4

LEMMA ReturnHolds ==
  ASSUME StrictInv, P!Return
  PROVE  /\ StrictInv'
         /\ \A g \in published' : /\ P!Verdict(strictJob.policy, g, strictReceipts[g].graphs,
                                              strictReceipts[g].cand, strictReceipts[g].swapped) = "accepted"
                                  /\ strictReceipts[g].listing = P!Listing
<1>1. /\ strictJob.stage = "chunks" /\ strictWork = P!NoWork /\ strictJob' = P!Idle
      /\ UNCHANGED <<disk, strictReceipts, originals, strictWork>>
  BY DEF P!Return, P!Between, P!environment
<1>2. StrictInv'
  BY <1>1, CachesStay DEF StrictInv, RunHolds
<1>3. ASSUME NEW g \in published'
      PROVE  /\ P!Verdict(strictJob.policy, g, strictReceipts[g].graphs,
                          strictReceipts[g].cand, strictReceipts[g].swapped) = "accepted"
             /\ strictReceipts[g].listing = P!Listing
  <2>1. strictJob.memo \subseteq {P!Listing} /\ g \in strictJob.claimed
    BY <1>3 DEF P!Return
  <2>2. strictJob # P!Idle
    BY <1>1 DEF P!Idle
  <2>3. g \in P!Groups /\ Backs(strictReceipts[g], strictJob)
    BY <2>1, <2>2 DEF StrictInv, RunHolds, ClaimsOk
  <2>4. ReceiptHolds(strictReceipts[g], g)
    BY <2>3 DEF StrictInv, CachesHold
  <2>. QED BY <2>1, <2>3, <2>4 DEF Backs, ReceiptHolds
<1>. QED BY <1>2, <1>3

LEMMA StrictStepHolds == ASSUME StrictInv, P!Next PROVE StrictInv'
BY EnvironmentHolds, HintHolds, PackHolds, ServeHolds, DeferHolds, BeginHolds, OriginalStepHolds,
   FreezeHolds, CandidateHolds, SaveHolds, AdmitHolds, RevalidateHolds, AcceptHolds, ReturnHolds
   DEF P!Next, P!Prove

LEMMA StrictStays == ASSUME StrictInv, UNCHANGED strict PROVE StrictInv'
BY CachesStay DEF strict, StrictInv, RunHolds

LEMMA StrictAlways == SpecAll => []StrictInv
<1>1. InitAll => StrictInv
  BY StrictInit DEF InitAll
<1>2. ASSUME StrictInv, [NextAll]_all PROVE StrictInv'
  <2>1. CASE StrictStep(P!Next)
    BY <1>2, <2>1, StrictStepHolds DEF StrictStep
  <2>2. CASE UNCHANGED strict
    BY <1>2, <2>2, StrictStays
  <2>3. P!Next \/ UNCHANGED strict
    BY <1>2 DEF NextAll, QueueStep, StrictStep, LiveStep, ScanStep, RulesStep, StagesStep, IosStep, all
  <2>4. CASE P!Next
    BY <1>2, <2>4, StrictStepHolds
  <2>. QED BY <2>2, <2>3, <2>4
<1>. QED BY <1>1, <1>2, PTL DEF SpecAll

THEOREM CachesAlwaysDescribeDisk == SpecAll => []CachesDescribeDisk
<1>1. StrictInv => CachesDescribeDisk
  BY CachesSaySo DEF StrictInv
<1>. QED BY <1>1, StrictAlways, PTL

(* Only the end of a run changes what is published.                         *)
LEMMA PublishedByReturn == ASSUME P!Next, published' # published PROVE P!Return
BY DEF P!Next, P!Prove, P!Edit, P!Upgrade, P!Crash, P!Start, P!Hint, P!Pack, P!ServeCached, P!Defer,
       P!BeginProof, P!IndexOriginal, P!Freeze, P!IndexCandidate, P!SaveOriginals, P!Admit,
       P!Revalidate, P!Accept, P!stores

-----------------------------------------------------------------------------
(* The publication of a database: it is whole (IndexPublication).          *)
PhaseNames == {"current", "hot", "full"}
(* A set of units in which no original command stands twice.                 *)
NoneTwice(units) == \A u, v \in units : u = v \/ u \cap v = {}
(* The original commands of a generation, as far as its phases have ended.   *)
AllCommands(g, arts) == UNION {B!Commands(arts[i]) : i \in B!Present(g, arts)}

(* Each phase has its own place among the artifacts, and its artifact is of  *)
(* the generation it is named after unless it is the full one; the selected  *)
(* one is the latest of its generation.                                      *)
Named(a) == a.phase = "full" \/ a.of = a.gen
InPlace ==
    /\ DOMAIN artifacts = 1..3
    /\ \A i \in 1..3 : artifacts[i] # B!None => artifacts[i].phase = B!Phases[i] /\ Named(artifacts[i])
    /\ selectedStage # B!None => /\ B!Present(selectedStage.gen, artifacts) # {}
                                 /\ selectedStage = B!Selected(selectedStage.gen, artifacts)

(* Ready: nothing is under way, and what is selected is published whole.     *)
ReadyIsWhole == status = "ready" =>
    /\ publishing = B!Idle /\ selectedStage # B!None
    /\ UNION clangdCdb.units = AllCommands(selectedStage.gen, artifacts)

(* What a worker publishes is whole; the database is still as it was when it *)
(* looked, and then is what it has written.                                  *)
JobIsWhole ==
    /\ publishing # B!Idle => "stage" \in DOMAIN publishing
    /\ publishing.stage \notin {"idle", "building"} =>
          /\ {"stage", "built", "base"} \subseteq DOMAIN publishing
          /\ publishing.built # B!None /\ publishing.built.gen = publishing.base
          /\ publishing.built.phase \in PhaseNames /\ Named(publishing.built)
    /\ publishing.stage \in {"merged", "renamed", "ok"} =>
          /\ "pub" \in DOMAIN publishing /\ NoneTwice(publishing.pub.units)
          /\ UNION publishing.pub.units = AllCommands(publishing.built.gen, B!With(publishing.built))
          /\ ~publishing.pub.original \/ publishing.stage # "merged" => clangdCdb.units = publishing.pub.units

(* The inductive invariant of the publication.                              *)
PublicationInv == NoneTwice(clangdCdb.units) /\ InPlace /\ ReadyIsWhole /\ JobIsWhole

(* A record that stands has its fields.                                      *)
Standing == B!Pending(barrier) => {"status", "waits"} \subseteq DOMAIN barrier
(* A barrier that stands can be answered, and nobody waits at one in vain.  *)
WaitInv == Standing /\ B!NobodyWaitsInVain /\ "stage" \in DOMAIN publishing

-----------------------------------------------------------------------------
(* Merging (publish_semantic_cdb).                                          *)

LEMMA AdoptApart ==
  ASSUME NEW owners, NEW a, NoneTwice(owners)
  PROVE  NoneTwice(B!Adopt(owners, a)) /\ UNION B!Adopt(owners, a) \subseteq (UNION owners) \cup B!Commands(a)
<1> DEFINE b == B!Proposal(a)
           overlaps == {o \in owners : o \cap b # {}}
<1>1. B!Adopt(owners, a) \in {owners, (owners \ overlaps) \cup {b}}
  BY DEF B!Adopt
<1>2. b \subseteq B!Commands(a)
  BY DEF B!Proposal
<1>3. \A o \in owners \ overlaps : o \cap b = {}
  OBVIOUS
<1> HIDE DEF b, overlaps
<1>4. NoneTwice((owners \ overlaps) \cup {b})
  BY <1>3 DEF NoneTwice
<1>. QED BY <1>1, <1>2, <1>4

(* A merged database stands for every command once, whatever is adopted.    *)
LEMMA MergedWhole ==
  ASSUME NEW g, NEW arts
  PROVE  NoneTwice(B!Merged(g, arts)) /\ UNION B!Merged(g, arts) = AllCommands(g, arts)
<1> DEFINE first == IF 1 \in B!Present(g, arts) THEN B!Adopt({}, arts[1]) ELSE {}
           second == IF 2 \in B!Present(g, arts) THEN B!Adopt(first, arts[2]) ELSE first
           owners == IF 3 \in B!Present(g, arts) THEN B!Adopt(second, arts[3]) ELSE second
           whole == AllCommands(g, arts)
           rest == {{o} : o \in whole \ UNION owners}
<1>1. B!Merged(g, arts) = owners \cup rest
  BY DEF B!Merged, AllCommands
<1>2. \A i \in B!Present(g, arts) : B!Commands(arts[i]) \subseteq whole
  BY DEF AllCommands
<1> HIDE DEF whole
<1>3. NoneTwice(first) /\ UNION first \subseteq whole
  <2>1. NoneTwice({}) /\ UNION {} = {}
    BY DEF NoneTwice
  <2>2. NoneTwice(B!Adopt({}, arts[1])) /\ UNION B!Adopt({}, arts[1]) \subseteq B!Commands(arts[1])
    BY <2>1, AdoptApart
  <2>. QED BY <1>2, <2>1, <2>2
<1> HIDE DEF first
<1>4. NoneTwice(second) /\ UNION second \subseteq whole
  <2>1. NoneTwice(B!Adopt(first, arts[2])) /\ UNION B!Adopt(first, arts[2]) \subseteq (UNION first) \cup B!Commands(arts[2])
    BY <1>3, AdoptApart
  <2>. QED BY <1>2, <1>3, <2>1
<1> HIDE DEF second
<1>5. NoneTwice(owners) /\ UNION owners \subseteq whole
  <2>1. /\ NoneTwice(B!Adopt(second, arts[3]))
        /\ UNION B!Adopt(second, arts[3]) \subseteq (UNION second) \cup B!Commands(arts[3])
    BY <1>4, AdoptApart
  <2>. QED BY <1>2, <1>4, <2>1
<1> HIDE DEF owners
<1>6. UNION rest = whole \ UNION owners
  OBVIOUS
<1>7. \A u \in owners, v \in rest : u \cap v = {}
  OBVIOUS
<1>8. NoneTwice(rest)
  BY DEF NoneTwice
<1> HIDE DEF rest
<1>9. NoneTwice(owners \cup rest)
  BY <1>5, <1>7, <1>8 DEF NoneTwice
<1>10. UNION (owners \cup rest) = whole
  BY <1>5, <1>6
<1>. QED BY <1>1, <1>9, <1>10 DEF whole

-----------------------------------------------------------------------------
(* Places and selection.                                                    *)

LEMMA Ranks == /\ B!Rank("current") = 1 /\ B!Rank("hot") = 2 /\ B!Rank("full") = 3
               /\ \A i \in 1..3 : B!Phases[i] \in PhaseNames /\ B!Rank(B!Phases[i]) = i
<1>1. B!Phases[1] = "current" /\ B!Phases[2] = "hot" /\ B!Phases[3] = "full"
  BY DEF B!Phases
<1>2. \A i \in 1..3 : i = 1 \/ i = 2 \/ i = 3
  OBVIOUS
<1>3. B!Rank("current") = 1
  BY <1>1, <1>2 DEF B!Rank
<1>4. B!Rank("hot") = 2
  BY <1>1, <1>2 DEF B!Rank
<1>5. B!Rank("full") = 3
  BY <1>1, <1>2 DEF B!Rank
<1>. QED BY <1>1, <1>2, <1>3, <1>4, <1>5 DEF PhaseNames

LEMMA Placed ==
  ASSUME InPlace, NEW built, built # B!None, built.phase \in PhaseNames, Named(built)
  PROVE  LET k == B!Rank(built.phase) IN
         /\ k \in 1..3 /\ B!Phases[k] = built.phase /\ DOMAIN B!With(built) = 1..3
         /\ B!With(built)[k] = built
         /\ \A i \in 1..3 : i # k => B!With(built)[i] = artifacts[i]
         /\ \A i \in 1..3 : B!With(built)[i] # B!None =>
               B!With(built)[i].phase = B!Phases[i] /\ Named(B!With(built)[i])
         /\ k \in B!Present(built.gen, B!With(built))
<1>1. B!Rank(built.phase) \in 1..3 /\ B!Phases[B!Rank(built.phase)] = built.phase
  BY Ranks DEF PhaseNames, B!Phases
<1>. QED BY <1>1 DEF InPlace, B!With, B!Present

(* What is selected is the latest phase of its generation.                  *)
LEMMA Latest ==
  ASSUME NEW arts, NEW g, B!Present(g, arts) # {},
         \A i \in 1..3 : arts[i] # B!None => arts[i].phase = B!Phases[i]
  PROVE  LET chosen == B!Selected(g, arts) IN
         /\ chosen # B!None /\ chosen.gen = g /\ B!Rank(chosen.phase) \in B!Present(g, arts)
         /\ \A i \in B!Present(g, arts) : i <= B!Rank(chosen.phase)
<1> DEFINE places == B!Present(g, arts)
<1>1. places \subseteq 1..3
  BY DEF B!Present
<1>2. \E i \in places : \A k \in places : k <= i
  <2>1. CASE 3 \in places
    BY <1>1, <2>1
  <2>2. CASE 3 \notin places /\ 2 \in places
    BY <1>1, <2>2
  <2>3. CASE 3 \notin places /\ 2 \notin places
    <3>1. places = {1}
      BY <1>1, <2>3
    <3>. QED BY <3>1
  <2>. QED BY <2>1, <2>2, <2>3
<1> DEFINE m == CHOOSE i \in places : \A k \in places : k <= i
<1>3. m \in places /\ \A k \in places : k <= m
  BY <1>2
<1>4. B!Selected(g, arts) = arts[m]
  BY DEF B!Selected
<1>5. arts[m] # B!None /\ arts[m].gen = g /\ arts[m].phase = B!Phases[m] /\ B!Rank(B!Phases[m]) = m
  BY <1>1, <1>3, Ranks DEF B!Present
<1>. QED BY <1>3, <1>4, <1>5

-----------------------------------------------------------------------------
(* Steps.                                                                   *)

LEMMA IdleIs == B!Idle.stage = "idle" /\ DOMAIN B!Idle = {"stage"}
BY DEF B!Idle

(* The database that is written is the one that was merged.                 *)
LEMMA WrittenUnits ==
  ASSUME NEW pub, pub.original \/ clangdCdb.units = pub.units
  PROVE  B!Written(pub).units = pub.units
BY DEF B!Written

LEMMA PublicationWhole ==
  ASSUME NEW g, NEW arts
  PROVE  LET pub == B!Publication(g, arts) IN
         /\ NoneTwice(pub.units) /\ UNION pub.units = AllCommands(g, arts)
         /\ pub.original \/ clangdCdb.units = pub.units
<1>1. B!Publication(g, arts).units = B!Merged(g, arts)
      /\ B!Publication(g, arts).original = (B!Merged(g, arts) # clangdCdb.units)
  BY DEF B!Publication
<1>. QED BY <1>1, MergedWhole

(* Taking what was published.                                               *)
LEMMA DeliverWhole ==
  ASSUME PublicationInv, NEW r, NEW built, NEW pub, NEW stamp, B!Deliver(r, built, pub, stamp),
         built # B!None, built.phase \in PhaseNames, Named(built), built.gen = base,
         NoneTwice(clangdCdb'.units), UNION clangdCdb'.units = AllCommands(built.gen, B!With(built))
  PROVE  PublicationInv' /\ B!ReadyIsPublished
<1> DEFINE k == B!Rank(built.phase)  arts == B!With(built)  g == built.gen
<1>1. artifacts' = arts /\ selectedStage' = B!Selected(g, arts) /\ status' = "ready" /\ publishing' = B!Idle
  BY DEF B!Deliver
<1>2. /\ k \in 1..3 /\ B!Phases[k] = built.phase /\ DOMAIN arts = 1..3 /\ arts[k] = built
      /\ \A i \in 1..3 : i # k => arts[i] = artifacts[i]
      /\ \A i \in 1..3 : arts[i] # B!None => arts[i].phase = B!Phases[i] /\ Named(arts[i])
      /\ k \in B!Present(g, arts)
  BY Placed DEF PublicationInv
<1> HIDE DEF k, arts
<1>3. /\ selectedStage' # B!None /\ selectedStage'.gen = g /\ B!Rank(selectedStage'.phase) \in B!Present(g, arts)
      /\ \A i \in B!Present(g, arts) : i <= B!Rank(selectedStage'.phase)
  BY <1>1, <1>2, Latest
<1>4. InPlace'
  BY <1>1, <1>2, <1>3 DEF InPlace
<1>5. ReadyIsWhole'
  BY <1>1, <1>2, <1>3 DEF ReadyIsWhole, arts
<1>6. JobIsWhole'
  BY <1>1, IdleIs DEF JobIsWhole
<1>7. ASSUME selectedStage # B!None, selectedStage'.gen = selectedStage.gen
      PROVE  /\ B!Rank(selectedStage.phase) <= B!Rank(selectedStage'.phase)
             /\ /\ UNION clangdCdb.units = AllCommands(g, artifacts)
                /\ B!AllOfTheirOwn(g, artifacts) /\ B!AllOfTheirOwn(g, arts)
                => UNION clangdCdb.units \subseteq UNION clangdCdb'.units
  <2>1. B!Present(g, artifacts) # {} /\ selectedStage = B!Selected(g, artifacts)
    BY <1>3, <1>7 DEF PublicationInv, InPlace
  <2>2. \A i \in 1..3 : artifacts[i] # B!None => artifacts[i].phase = B!Phases[i]
    BY DEF PublicationInv, InPlace
  <2>3. B!Rank(selectedStage.phase) \in B!Present(g, artifacts)
    BY <2>1, <2>2, Latest
  <2>4. \A i \in B!Present(g, artifacts) : i \in B!Present(g, arts)
    BY <1>2 DEF B!Present
  <2>5. ASSUME B!AllOfTheirOwn(g, artifacts), B!AllOfTheirOwn(g, arts), NEW i \in B!Present(g, artifacts)
        PROVE  B!Commands(arts[i]) = B!Commands(artifacts[i])
    <3>1. /\ artifacts[i].gen = g /\ arts[i].gen = g
          /\ artifacts[i].phase = B!Phases[i] /\ arts[i].phase = B!Phases[i]
      BY <1>2, <2>2, <2>4, <2>5 DEF B!Present
    <3>. QED BY <2>4, <2>5, <3>1 DEF B!AllOfTheirOwn, B!OfItsOwn
  <2>6. B!AllOfTheirOwn(g, artifacts) /\ B!AllOfTheirOwn(g, arts) =>
           AllCommands(g, artifacts) \subseteq AllCommands(g, arts)
    BY <2>4, <2>5 DEF AllCommands
  <2>7. B!Rank(selectedStage.phase) <= B!Rank(selectedStage'.phase)
    BY <1>3, <2>3, <2>4
  <2>. QED BY <2>6, <2>7 DEF arts
<1>8. UNION clangdCdb'.units = UNION {B!Commands(artifacts'[i]) : i \in B!Present(selectedStage'.gen, artifacts')}
  BY <1>1, <1>3 DEF AllCommands, arts
<1>9. \A i \in B!Present(g, arts) : arts[i].phase # "full" => B!OfItsOwn(arts[i])
  BY <1>2 DEF B!Present, Named, B!OfItsOwn, B!Commands
<1>10. B!ReadyIsPublished
  BY <1>1, <1>3, <1>7, <1>8, <1>9 DEF B!ReadyIsPublished, B!Whole, AllCommands, NoneTwice
<1>. QED BY <1>4, <1>5, <1>6, <1>10 DEF PublicationInv

(* A step that publishes and takes nothing.                                 *)
LEMMA Untouched ==
  ASSUME PublicationInv, UNCHANGED <<clangdCdb, artifacts, selectedStage>>, JobIsWhole',
         \/ status' = status /\ (publishing' = publishing \/ publishing # B!Idle)
         \/ status' # "ready"
  PROVE  PublicationInv' /\ B!ReadyIsPublished
<1>1. CASE status' = "ready"
  <2>1. status = "ready" /\ publishing = B!Idle /\ publishing' = publishing
    BY <1>1 DEF PublicationInv, ReadyIsWhole
  <2>2. /\ B!Present(selectedStage.gen, artifacts) # {} /\ selectedStage = B!Selected(selectedStage.gen, artifacts)
        /\ UNION clangdCdb.units = AllCommands(selectedStage.gen, artifacts)
    BY <2>1 DEF PublicationInv, ReadyIsWhole, InPlace
  <2>3. PublicationInv'
    BY <2>1 DEF PublicationInv, InPlace, ReadyIsWhole
  <2>4. B!Rank(selectedStage.phase) \in 1..3
    <3>1. B!Rank(selectedStage.phase) \in B!Present(selectedStage.gen, artifacts)
      BY <2>2, Latest DEF PublicationInv, InPlace
    <3>. QED BY <3>1 DEF B!Present
  <2>5. \A i \in B!Present(selectedStage.gen, artifacts) : artifacts[i].phase # "full" => B!OfItsOwn(artifacts[i])
    BY DEF PublicationInv, InPlace, B!Present, Named, B!OfItsOwn, B!Commands
  <2>6. B!ReadyIsPublished
    BY <2>2, <2>4, <2>5 DEF PublicationInv, B!ReadyIsPublished, B!Whole, NoneTwice, AllCommands
  <2>. QED BY <2>3, <2>6
<1>2. CASE status' # "ready"
  BY <1>2 DEF PublicationInv, InPlace, ReadyIsWhole, B!ReadyIsPublished
<1>. QED BY <1>1, <1>2

(* A request that moves on without having published.                        *)
LEMMA MovesOn ==
  ASSUME PublicationInv, publishing.stage \notin {"idle", "building"},
         NEW s, s \notin {"merged", "renamed", "ok"},
         \/ publishing' = [publishing EXCEPT !.stage = s]
         \/ publishing' = [publishing EXCEPT !.stage = s, !.defer = FALSE]
  PROVE  JobIsWhole'
<1>1. {"stage", "built", "base"} \subseteq DOMAIN publishing /\ publishing.built # B!None /\ publishing.built.gen = publishing.base
      /\ publishing.built.phase \in PhaseNames /\ Named(publishing.built)
  BY DEF PublicationInv, JobIsWhole
<1>2. publishing'.stage = s /\ publishing'.built = publishing.built /\ publishing'.base = publishing.base /\ DOMAIN publishing' = DOMAIN publishing
  BY <1>1
<1>. QED BY <1>1, <1>2 DEF JobIsWhole

LEMMA JobStays ==
  ASSUME PublicationInv, UNCHANGED <<clangdCdb, artifacts>>, publishing' = publishing
  PROVE  JobIsWhole'
BY DEF PublicationInv, JobIsWhole, B!With

(* Waiters are resumed.                                                     *)
LEMMA Resumed ==
  ASSUME PublicationInv, UNCHANGED <<clangdCdb, B!state>>, publishing' \in {publishing, B!Released}
  PROVE  PublicationInv' /\ B!ReadyIsPublished
<1>1. CASE publishing' = publishing
  BY <1>1, JobStays, Untouched DEF B!state
<1>2. CASE publishing.stage = "waiting" /\ publishing' = [publishing EXCEPT !.stage = "resume"]
  <2>1. publishing # B!Idle
    BY <1>2, IdleIs
  <2>2. JobIsWhole'
    BY <1>2, MovesOn
  <2>. QED BY <2>1, <2>2, Untouched DEF B!state
<1>. QED BY <1>1, <1>2 DEF B!Released

LEMMA BuildEndsWhole ==
  ASSUME PublicationInv, NEW p \in PhaseNames, NEW b, NEW sealed, B!BuildEnds(p, b, sealed)
  PROVE  PublicationInv' /\ B!ReadyIsPublished
<1> DEFINE built == [phase |-> p, gen |-> base, of |-> publishing.of, batch |-> b,
                     at |-> IF b = {} THEN 0 ELSE revision, strict |-> sealed]
           pub == B!Publication(base, B!With(built))
           seen == IF p = "current" THEN barrier ELSE B!Checked
<1>1. built # B!None /\ built.phase \in PhaseNames /\ built.gen = base /\ Named(built)
  <2>1. "phase" \in DOMAIN built /\ "phase" \notin DOMAIN B!None
    BY DEF B!None
  <2>2. p = "full" \/ publishing.of = base
    BY DEF B!BuildEnds, B!Outdated
  <2>. QED BY <2>1, <2>2 DEF Named
<1>2. NoneTwice(pub.units) /\ UNION pub.units = AllCommands(base, B!With(built)) /\ B!Written(pub).units = pub.units
  BY PublicationWhole, WrittenUnits
<1>3. publishing # B!Idle /\ status # "ready"
  BY IdleIs DEF B!BuildEnds, PublicationInv, ReadyIsWhole
<1>4. CASE /\ publishing' = [stage |-> "asked", built |-> built, base |-> base, defer |-> B!Defers(p)]
           /\ UNCHANGED <<B!disk, B!state>>
  <2>1. JobIsWhole'
    BY <1>1, <1>4 DEF JobIsWhole
  <2>. QED BY <1>3, <1>4, <2>1, Untouched DEF B!disk, B!state
<1>5. CASE clangdCdb' = B!Written(pub) /\ B!Deliver(seen, built, pub, clangdCdb'.stamp)
  BY <1>1, <1>2, <1>5, DeliverWhole
<1>6. CASE /\ artifacts' = B!With(built) /\ selectedStage' = B!Selected(base, artifacts') /\ status' = "error"
           /\ clangdCdb' \in {clangdCdb, B!Written(pub)} /\ publishing' = B!Idle
  <2>1. InPlace'
    <3>1. /\ DOMAIN artifacts' = 1..3 /\ B!Present(base, artifacts') # {}
          /\ \A i \in 1..3 : artifacts'[i] # B!None => artifacts'[i].phase = B!Phases[i] /\ Named(artifacts'[i])
      BY <1>1, <1>6, Placed DEF PublicationInv
    <3>2. B!Selected(base, artifacts').gen = base
      BY <3>1, Latest
    <3>. QED BY <1>6, <3>1, <3>2 DEF InPlace
  <2>2. NoneTwice(clangdCdb'.units)
    BY <1>2, <1>6 DEF PublicationInv
  <2>3. JobIsWhole'
    BY <1>6, IdleIs DEF JobIsWhole
  <2>. QED BY <1>6, <2>1, <2>2, <2>3 DEF PublicationInv, ReadyIsWhole, B!ReadyIsPublished
<1>7. \/ /\ publishing' = [stage |-> "asked", built |-> built, base |-> base, defer |-> B!Defers(p)]
         /\ UNCHANGED <<B!disk, B!state>>
      \/ clangdCdb' = B!Written(pub) /\ B!Deliver(seen, built, pub, clangdCdb'.stamp)
      \/ /\ artifacts' = B!With(built) /\ selectedStage' = B!Selected(base, artifacts') /\ status' = "error"
         /\ clangdCdb' \in {clangdCdb, B!Written(pub)} /\ publishing' = B!Idle
  BY DEF B!BuildEnds
<1>. QED BY <1>4, <1>5, <1>6, <1>7

LEMMA BuildStartsWhole ==
  ASSUME PublicationInv, NEW p, B!BuildStarts(p)
  PROVE  PublicationInv' /\ B!ReadyIsPublished
<1>1. /\ publishing' = [stage |-> "building", phase |-> p, of |-> base] /\ status' = "running"
      /\ UNCHANGED <<clangdCdb, artifacts, selectedStage>>
  BY DEF B!BuildStarts, B!disk
<1>2. JobIsWhole'
  BY <1>1 DEF JobIsWhole
<1>. QED BY <1>1, <1>2, Untouched

LEMMA WorkerWhole ==
  ASSUME PublicationInv, B!Worker \/ B!WorkerFails
  PROVE  PublicationInv' /\ B!ReadyIsPublished
<1>1. publishing # B!Idle /\ UNCHANGED <<artifacts, selectedStage, status>>
      /\ publishing.stage \in {"asked", "merged", "renamed"}
  BY IdleIs DEF B!Worker, B!WorkerFails, B!Merge, B!Rename, B!Beside, B!Step, B!WorkerStep, B!Working, B!state
<1>2. /\ {"stage", "built", "base"} \subseteq DOMAIN publishing /\ publishing.built # B!None /\ publishing.built.gen = publishing.base
      /\ publishing.built.phase \in PhaseNames /\ Named(publishing.built)
  BY <1>1 DEF PublicationInv, JobIsWhole
<1>3. ASSUME clangdCdb' = clangdCdb, NEW s \in {"failed", "deferred"}, B!To(s)
      PROVE  PublicationInv' /\ B!ReadyIsPublished
  <2>1. JobIsWhole'
    BY <1>1, <1>3, MovesOn DEF B!To
  <2>. QED BY <1>1, <1>3, <2>1, Untouched
<1>4. CASE B!WorkerFails
  BY <1>3, <1>4 DEF B!WorkerFails, B!disk
<1>5. CASE B!Merge
  <2> DEFINE pub == B!Publication(base, B!With(publishing.built))
  <2>1. clangdCdb' = clangdCdb
    BY <1>5 DEF B!Merge, B!Step, B!Still
  <2>2. CASE B!Current /\ publishing' = [stage |-> "merged", built |-> publishing.built, base |-> base, pub |-> pub]
    <3>1. NoneTwice(pub.units) /\ UNION pub.units = AllCommands(base, B!With(publishing.built))
          /\ (pub.original \/ clangdCdb.units = pub.units) /\ publishing.built.gen = base
      BY <1>2, <2>2, PublicationWhole DEF B!Current
    <3> HIDE DEF pub
    <3>2. /\ publishing'.stage = "merged" /\ publishing'.built = publishing.built /\ publishing'.base = base /\ publishing'.pub = pub
          /\ DOMAIN publishing' = {"stage", "built", "base", "pub"}
      BY <2>2
    <3>3. JobIsWhole'
      BY <1>1, <1>2, <2>1, <3>1, <3>2 DEF JobIsWhole, B!With
    <3>. QED BY <1>1, <2>1, <3>3, Untouched
  <2>3. B!To("failed") \/ B!To("deferred")
           \/ (B!Current /\ publishing' = [stage |-> "merged", built |-> publishing.built, base |-> base, pub |-> pub])
    BY <1>5 DEF B!Merge, B!Step
  <2>. QED BY <1>3, <2>1, <2>2, <2>3
<1>6. CASE B!Rename
  <2>1. /\ "pub" \in DOMAIN publishing /\ NoneTwice(publishing.pub.units)
        /\ UNION publishing.pub.units = AllCommands(publishing.built.gen, B!With(publishing.built))
        /\ publishing.pub.original \/ clangdCdb.units = publishing.pub.units
    BY <1>6 DEF PublicationInv, JobIsWhole, B!Rename, B!Step
  <2>2. clangdCdb'.units = publishing.pub.units
    BY <1>6, <2>1, WrittenUnits DEF B!Rename, B!Step
  <2>3. publishing' = [publishing EXCEPT !.stage = "renamed"]
    BY <1>6 DEF B!Rename, B!Step, B!To
  <2>4. /\ publishing'.stage = "renamed" /\ publishing'.built = publishing.built /\ publishing'.base = publishing.base /\ publishing'.pub = publishing.pub
        /\ DOMAIN publishing' = DOMAIN publishing
    BY <1>2, <2>1, <2>3
  <2>5. JobIsWhole'
    BY <1>1, <1>2, <2>1, <2>2, <2>4 DEF JobIsWhole, B!With
  <2>6. status # "ready"
    BY <1>1 DEF PublicationInv, ReadyIsWhole
  <2>. QED BY <1>1, <2>1, <2>2, <2>5, <2>6 DEF PublicationInv, InPlace, ReadyIsWhole, B!ReadyIsPublished
<1>7. CASE B!Beside
  <2>1. clangdCdb' = clangdCdb
    BY <1>7 DEF B!Beside, B!Step, B!Still
  <2>2. CASE B!To("ok")
    <3>1. /\ "pub" \in DOMAIN publishing /\ NoneTwice(publishing.pub.units)
          /\ UNION publishing.pub.units = AllCommands(publishing.built.gen, B!With(publishing.built))
          /\ clangdCdb.units = publishing.pub.units
      BY <1>7 DEF PublicationInv, JobIsWhole, B!Beside, B!Step
    <3>2. /\ publishing'.stage = "ok" /\ publishing'.built = publishing.built /\ publishing'.base = publishing.base /\ publishing'.pub = publishing.pub
          /\ DOMAIN publishing' = DOMAIN publishing
      BY <1>2, <2>2, <3>1 DEF B!To
    <3>3. JobIsWhole'
      BY <1>1, <1>2, <2>1, <3>1, <3>2 DEF JobIsWhole, B!With
    <3>. QED BY <1>1, <2>1, <3>3, Untouched
  <2>3. B!To("failed") \/ B!To("ok")
    BY <1>7 DEF B!Beside, B!Step
  <2>. QED BY <1>3, <2>1, <2>2, <2>3
<1>. QED BY <1>4, <1>5, <1>6, <1>7 DEF B!Worker

(* A build that is given up.                                                *)
LEMMA FailsWhole ==
  ASSUME PublicationInv, B!Fails, clangdCdb' = clangdCdb
  PROVE  PublicationInv' /\ B!ReadyIsPublished
<1>1. publishing' = B!Idle /\ status' # "ready" /\ UNCHANGED <<artifacts, selectedStage>>
  BY DEF B!Fails
<1>2. JobIsWhole'
  BY <1>1, IdleIs DEF JobIsWhole
<1>. QED BY <1>1, <1>2, Untouched

LEMMA AnswerWhole ==
  ASSUME PublicationInv, B!Answer \/ B!Resume
  PROVE  PublicationInv' /\ B!ReadyIsPublished
<1>1. clangdCdb' = clangdCdb /\ publishing # B!Idle /\ publishing.stage \notin {"idle", "building"}
  BY IdleIs DEF B!Answer, B!Resume, B!disk
<1>2. CASE B!Fails
  BY <1>1, <1>2, FailsWhole
<1>3. CASE publishing.stage = "ok" /\ B!Current /\ B!Deliver(barrier, publishing.built, publishing.pub, clangdCdb.stamp)
  BY <1>1, <1>3, DeliverWhole DEF PublicationInv, JobIsWhole, B!Current
<1>4. CASE /\ UNCHANGED B!state
           /\ \/ publishing' = [publishing EXCEPT !.stage = "waiting"]
              \/ publishing' = [publishing EXCEPT !.stage = "asked", !.defer = FALSE]
  <2>1. JobIsWhole'
    BY <1>1, <1>4, MovesOn
  <2>. QED BY <1>1, <1>4, <2>1, Untouched DEF B!state
<1>. QED BY <1>2, <1>3, <1>4 DEF B!Answer, B!Resume, B!To

LEMMA WholeStep ==
  ASSUME PublicationInv, [B!Next]_stages
  PROVE  PublicationInv' /\ B!ReadyIsPublished
<1>1. CASE \/ B!BaseReplaced \/ B!SourceSaved \/ B!PrepareForced \/ B!Unforce \/ B!Timeout \/ B!Poll
           \/ B!ReaderLoads \/ B!ReaderEnds \/ B!ReaderDies \/ B!ReaderStarts \/ B!Reloads \/ B!SourceRestarts \/ B!AttachTimesOut
           \/ UNCHANGED stages
  <2> DEFINE Quiet == UNCHANGED <<clangdCdb, B!state>> /\ publishing' \in {publishing, B!Released}
  <2>1. B!BaseReplaced \/ B!SourceSaved \/ B!Unforce => Quiet
    BY DEF B!BaseReplaced, B!SourceSaved, B!Unforce, B!disk
  <2>2. B!PrepareForced \/ B!Timeout \/ B!Poll => Quiet
    BY DEF B!PrepareForced, B!Timeout, B!Poll, B!disk
  <2>3. B!ReaderLoads \/ B!ReaderEnds => Quiet
    <3>1. B!ReaderLoads => publishing' = (IF B!Pending(barrier') THEN publishing ELSE B!Released) \/ publishing' = publishing
      BY DEF B!ReaderLoads
    <3>2. B!ReaderEnds => publishing' = IF B!Pending(barrier') THEN publishing ELSE B!Released
      BY DEF B!ReaderEnds
    <3>3. B!ReaderLoads \/ B!ReaderEnds => UNCHANGED <<clangdCdb, B!state>>
      BY DEF B!ReaderLoads, B!ReaderEnds, B!disk
    <3>. QED BY <3>1, <3>2, <3>3
  <2>4. B!ReaderDies \/ B!ReaderStarts \/ B!SourceRestarts \/ B!AttachTimesOut => Quiet
    BY DEF B!ReaderDies, B!ReaderStarts, B!SourceRestarts, B!AttachTimesOut, B!disk
  <2>5. B!Reloads => Quiet
    BY DEF B!Reloads, B!disk
  <2>6. UNCHANGED stages => Quiet
    BY DEF stages, B!state
  <2>7. Quiet
    BY <1>1, <2>1, <2>2, <2>3, <2>4, <2>5, <2>6
  <2>. QED BY <2>7, Resumed
<1>2. CASE \E b \in StageBuilds : B!BuildEnds(b[1], b[2], b[3])
  BY <1>2, BuildEndsWhole, BuildsAreOfPhases DEF PhaseNames
<1>3. CASE \E b \in StageBuilds : B!BuildStarts(b[1])
  BY <1>3, BuildStartsWhole
<1>4. CASE B!BuildFails
  BY <1>4, FailsWhole DEF B!BuildFails, B!disk
<1>. QED BY <1>1, <1>2, <1>3, <1>4, WorkerWhole, AnswerWhole DEF B!Next

LEMMA InitWhole == B!Init => PublicationInv
<1> SUFFICES ASSUME B!Init PROVE PublicationInv
  OBVIOUS
<1>. QED BY IdleIs DEF B!Init, PublicationInv, NoneTwice, InPlace, ReadyIsWhole, JobIsWhole

-----------------------------------------------------------------------------
(* Who waits for a stage hangs on a record that stands.                     *)

LEMMA NoneIs == DOMAIN B!None = {"none"}
BY DEF B!None

LEMMA FinishedEnds ==
  ASSUME NEW r, NEW v, v \notin {"generated", "indexing"}
  PROVE  ~B!Pending(B!Finish(r, v))
BY DEF B!Finish, B!Pending

(* Released leaves nobody waiting.                                          *)
LEMMA ReleasedWaits ==
  ASSUME "stage" \in DOMAIN publishing
  PROVE  B!Released.stage # "waiting" /\ "stage" \in DOMAIN B!Released
<1>1. CASE publishing.stage = "waiting"
  BY <1>1 DEF B!Released
<1>2. CASE publishing.stage # "waiting"
  BY <1>2 DEF B!Released
<1>. QED BY <1>1, <1>2

(* Progress of the reader moves a record on.                                *)
LEMMA Moved ==
  ASSUME NEW r, B!Pending(r), {"status", "waits"} \subseteq DOMAIN r, NEW c, NEW q,
         q = [r EXCEPT !.client = c, !.began = TRUE, !.status = "indexing"]
  PROVE  B!Pending(q) /\ {"status", "waits"} \subseteq DOMAIN q /\ q.waits = r.waits
<1>1. DOMAIN q = DOMAIN r /\ q.status = "indexing" /\ q.waits = r.waits
  OBVIOUS
<1>2. q # B!None
  BY <1>1, NoneIs
<1>. QED BY <1>1, <1>2 DEF B!Pending

(* A record that is let go, kept or renewed stands or has no deadline.      *)
LEMMA CheckedStands ==
  ASSUME Standing
  PROVE  /\ B!Pending(B!Checked) => B!Checked = barrier
         /\ B!Pending(B!Checked) => {"status", "waits"} \subseteq DOMAIN B!Checked
BY FinishedEnds DEF B!Checked, Standing

LEMMA HearsStands ==
  ASSUME Standing, NEW kind
  PROVE  B!Pending(B!Hears(kind)) =>
           /\ {"status", "waits"} \subseteq DOMAIN B!Hears(kind)
           /\ B!Pending(barrier) /\ B!Hears(kind).waits = barrier.waits
<1> DEFINE q == [barrier EXCEPT !.client = reader.id, !.began = TRUE, !.status = "indexing"]
<1>1. \/ B!Hears(kind) = barrier
      \/ B!Hears(kind) \in {B!Finish(barrier, "bypassed"), B!Finish(barrier, "indexed")}
      \/ B!Pending(barrier) /\ B!Hears(kind) = q
  BY DEF B!Hears
<1>2. B!Pending(barrier) => {"status", "waits"} \subseteq DOMAIN q /\ q.waits = barrier.waits
  BY Moved DEF Standing
<1> HIDE DEF q
<1>3. ~B!Pending(B!Finish(barrier, "bypassed")) /\ ~B!Pending(B!Finish(barrier, "indexed"))
  BY FinishedEnds
<1>. QED BY <1>1, <1>2, <1>3 DEF Standing

LEMMA CommittedStands ==
  ASSUME NEW r, B!Pending(r) => {"status", "waits"} \subseteq DOMAIN r,
         NEW p, NEW pub, NEW g, NEW stamp, NEW chosen, B!Pending(B!Committed(r, p, pub, g, stamp, chosen))
  PROVE  {"status", "waits"} \subseteq DOMAIN B!Committed(r, p, pub, g, stamp, chosen)
<1> DEFINE c == B!Committed(r, p, pub, g, stamp, chosen)
<1>1. \/ c = B!None \/ c = r \/ c = B!Finish(r, "bypassed")
      \/ \E old : c = B!Record(pub, g, stamp, old)
  BY DEF B!Committed
<1>2. ~B!Pending(B!None)
  BY DEF B!Pending
<1>3. \A old : {"status", "waits"} \subseteq DOMAIN B!Record(pub, g, stamp, old)
  BY DEF B!Record
<1> HIDE DEF c
<1>4. {"status", "waits"} \subseteq DOMAIN c
  BY <1>1, <1>2, <1>3, FinishedEnds DEF c
<1>. QED BY <1>4 DEF c

LEMMA DeliverStands ==
  ASSUME NEW r, B!Pending(r) => {"status", "waits"} \subseteq DOMAIN r,
         NEW built, NEW pub, NEW stamp, B!Deliver(r, built, pub, stamp)
  PROVE  WaitInv'
<1>1. publishing' = B!Idle
  BY DEF B!Deliver
<1>2. Standing'
  BY CommittedStands DEF B!Deliver, Standing
<1>. QED BY <1>1, <1>2, IdleIs DEF WaitInv, B!NobodyWaitsInVain

(* The record is as it was, and nobody begins to wait.                      *)
LEMMA SameRecord ==
  ASSUME WaitInv, barrier' = barrier, "stage" \in DOMAIN publishing',
         publishing'.stage = "waiting" => publishing.stage = "waiting"
  PROVE  WaitInv'
<1>1. Standing'
  BY DEF WaitInv, Standing, B!Pending
<1>2. B!NobodyWaitsInVain'
  BY DEF WaitInv, B!NobodyWaitsInVain, B!Pending
<1>. QED BY <1>1, <1>2 DEF WaitInv

(* The record has come to its end, and its waiters are resumed.             *)
LEMMA EndedRecord ==
  ASSUME WaitInv, ~B!Pending(barrier'), publishing' = B!Released
  PROVE  WaitInv'
<1>1. publishing'.stage # "waiting" /\ "stage" \in DOMAIN publishing'
  BY ReleasedWaits DEF WaitInv
<1>. QED BY <1>1 DEF WaitInv, Standing, B!NobodyWaitsInVain, B!Pending

LEMMA HeardStands ==
  ASSUME WaitInv, NEW kind, barrier' = B!Hears(kind), publishing' = IF B!Pending(barrier') THEN publishing ELSE B!Released
  PROVE  WaitInv'
<1>1. CASE ~B!Pending(barrier')
  BY <1>1, EndedRecord
<1>2. CASE B!Pending(barrier')
  <2>1. /\ {"status", "waits"} \subseteq DOMAIN barrier' /\ barrier'.waits = barrier.waits
        /\ publishing' = publishing
    BY <1>2, HearsStands DEF WaitInv
  <2>2. Standing' /\ B!NobodyWaitsInVain'
    BY <1>2, <2>1 DEF WaitInv, Standing, B!NobodyWaitsInVain, B!Pending
  <2>. QED BY <2>1, <2>2 DEF WaitInv
<1>. QED BY <1>1, <1>2

LEMMA ReloadStands ==
  ASSUME WaitInv, B!Reloads
  PROVE  WaitInv'
<1>1. publishing' = publishing
  BY DEF B!Reloads
<1>2. CASE barrier' = barrier
  BY <1>1, <1>2, SameRecord DEF WaitInv
<1>3. CASE barrier' # barrier
  <2>1. /\ B!Pending(barrier)
        /\ \E b, c : \E s \in {barrier.status, "indexing"} :
             barrier' = [barrier EXCEPT !.observing = TRUE, !.began = b, !.client = c, !.status = s]
    BY <1>3, Zenon DEF B!Reloads
  <2>2. barrier.status \in {"generated", "indexing"} /\ {"status", "waits"} \subseteq DOMAIN barrier
    BY <2>1 DEF B!Pending, WaitInv, Standing
  <2>3. B!Pending(barrier') /\ {"status", "waits"} \subseteq DOMAIN barrier' /\ barrier'.waits = barrier.waits
    <3>1. PICK b, c, s : /\ s \in {barrier.status, "indexing"}
                         /\ barrier' = [barrier EXCEPT !.observing = TRUE, !.began = b, !.client = c, !.status = s]
      BY <2>1
    <3>2. s \in {"generated", "indexing"}
      BY <2>2, <3>1
    <3>3. DOMAIN barrier' = DOMAIN barrier /\ barrier'.status = s /\ barrier'.waits = barrier.waits
      BY <2>2, <3>1
    <3>4. barrier' # B!None
      BY <2>2, <3>3, NoneIs
    <3>. QED BY <2>2, <3>2, <3>3, <3>4 DEF B!Pending
  <2>4. Standing' /\ B!NobodyWaitsInVain'
    BY <1>1, <2>3 DEF WaitInv, Standing, B!NobodyWaitsInVain, B!Pending
  <2>. QED BY <1>1, <2>4 DEF WaitInv
<1>. QED BY <1>2, <1>3

LEMMA BuildStands ==
  ASSUME WaitInv, NEW p, NEW b, NEW sealed, B!BuildEnds(p, b, sealed)
  PROVE  WaitInv'
<1> DEFINE built == [phase |-> p, gen |-> base, of |-> publishing.of, batch |-> b,
                     at |-> IF b = {} THEN 0 ELSE revision, strict |-> sealed]
           pub == B!Publication(base, B!With(built))
           seen == IF p = "current" THEN barrier ELSE B!Checked
<1>1. \/ barrier' = seen /\ (publishing' = B!Idle \/ publishing' = [stage |-> "asked", built |-> built, base |-> base, defer |-> B!Defers(p)])
      \/ B!Deliver(seen, built, pub, clangdCdb'.stamp)
  BY DEF B!BuildEnds
<1>2. B!Pending(seen) => {"status", "waits"} \subseteq DOMAIN seen
  BY CheckedStands DEF WaitInv, Standing
<1> HIDE DEF built, pub, seen
<1>4. CASE B!Deliver(seen, built, pub, clangdCdb'.stamp)
  BY <1>2, <1>4, DeliverStands
<1>5. CASE barrier' = seen /\ (publishing' = B!Idle \/ publishing' = [stage |-> "asked", built |-> built, base |-> base, defer |-> B!Defers(p)])
  <2>1. "stage" \in DOMAIN publishing' /\ publishing'.stage # "waiting"
    BY <1>5, IdleIs
  <2>2. Standing'
    BY <1>2, <1>5 DEF Standing, B!Pending
  <2>. QED BY <2>1, <2>2 DEF WaitInv, B!NobodyWaitsInVain
<1>. QED BY <1>1, <1>4, <1>5

(* A build starts or fails: nothing is published, and nobody begins to wait. *)
LEMMA BuildQuiet ==
  ASSUME (\E p : B!BuildStarts(p)) \/ B!BuildFails
  PROVE  /\ UNCHANGED <<clangdCdb, frozen, artifacts, selectedStage, barrier, reader, stray>>
         /\ "stage" \in DOMAIN publishing' /\ publishing'.stage \in {"idle", "building"}
<1>1. CASE \E p : B!BuildStarts(p)
  BY <1>1 DEF B!BuildStarts, B!disk, B!clangd
<1>2. CASE B!BuildFails
  BY <1>2, IdleIs DEF B!BuildFails, B!Fails, B!disk, B!clangd
<1>. QED BY <1>1, <1>2

LEMMA WorkerStands ==
  ASSUME WaitInv, B!Worker \/ B!WorkerFails
  PROVE  WaitInv'
<1>1. barrier' = barrier
  BY DEF B!Worker, B!WorkerFails, B!Merge, B!Rename, B!Beside, B!Step, B!WorkerStep
<1>2. \/ \E s \in {"failed", "deferred", "renamed", "ok"} : publishing' = [publishing EXCEPT !.stage = s]
      \/ \E q : publishing' = [stage |-> "merged", built |-> publishing.built, base |-> base, pub |-> q]
  <2>1. B!Merge => \/ \E s \in {"failed", "deferred", "renamed", "ok"} : publishing' = [publishing EXCEPT !.stage = s]
                   \/ \E q : publishing' = [stage |-> "merged", built |-> publishing.built, base |-> base, pub |-> q]
    BY DEF B!Merge, B!Step, B!To
  <2>2. B!Rename \/ B!Beside \/ B!WorkerFails =>
           \E s \in {"failed", "deferred", "renamed", "ok"} : publishing' = [publishing EXCEPT !.stage = s]
    BY DEF B!Rename, B!Beside, B!WorkerFails, B!Step, B!To
  <2>. QED BY <2>1, <2>2 DEF B!Worker
<1>3. "stage" \in DOMAIN publishing' /\ publishing'.stage # "waiting"
  BY <1>2 DEF WaitInv
<1>. QED BY <1>1, <1>3, SameRecord

LEMMA AnswerStands ==
  ASSUME WaitInv, B!Answer \/ B!Resume
  PROVE  WaitInv'
<1>1. CASE barrier' = barrier /\ publishing' = B!Idle
  BY <1>1, IdleIs, SameRecord
<1>2. CASE B!Deliver(barrier, publishing.built, publishing.pub, clangdCdb.stamp)
  BY <1>2, DeliverStands DEF WaitInv, Standing
<1>3. CASE B!Pending(B!Checked) /\ barrier' = [B!Checked EXCEPT !.waits = TRUE] /\ B!To("waiting")
  <2>1. {"status", "waits"} \subseteq DOMAIN B!Checked
    BY <1>3, CheckedStands DEF WaitInv
  <2>2. DOMAIN barrier' = DOMAIN B!Checked /\ barrier'.status = B!Checked.status /\ barrier'.waits
    BY <1>3, <2>1
  <2>3. barrier' # B!None
    BY <2>1, <2>2, NoneIs
  <2>4. B!Pending(barrier')
    BY <1>3, <2>2, <2>3 DEF B!Pending
  <2>5. "stage" \in DOMAIN publishing'
    BY <1>3 DEF B!To, WaitInv
  <2>. QED BY <2>1, <2>2, <2>4, <2>5 DEF WaitInv, Standing, B!NobodyWaitsInVain
<1>4. CASE barrier' \in {barrier, B!Checked} /\ publishing' = [publishing EXCEPT !.stage = "asked", !.defer = FALSE]
  <2>1. "stage" \in DOMAIN publishing' /\ publishing'.stage # "waiting"
    BY <1>4 DEF WaitInv
  <2>2. Standing'
    BY <1>4, CheckedStands DEF WaitInv, Standing, B!Pending
  <2>. QED BY <2>1, <2>2 DEF WaitInv, B!NobodyWaitsInVain
<1>5. B!Answer => \/ barrier' = barrier /\ publishing' = B!Idle
                  \/ B!Deliver(barrier, publishing.built, publishing.pub, clangdCdb.stamp)
                  \/ B!Pending(B!Checked) /\ barrier' = [B!Checked EXCEPT !.waits = TRUE] /\ B!To("waiting")
                  \/ barrier' \in {barrier, B!Checked} /\ publishing' = [publishing EXCEPT !.stage = "asked", !.defer = FALSE]
  BY Zenon DEF B!Answer, B!Fails
<1>6. B!Resume => \/ barrier' = barrier /\ publishing' = B!Idle
                  \/ barrier' = barrier /\ publishing' = [publishing EXCEPT !.stage = "asked", !.defer = FALSE]
  BY Zenon DEF B!Resume, B!Fails
<1>. QED BY <1>1, <1>2, <1>3, <1>4, <1>5, <1>6

LEMMA WaitStep ==
  ASSUME WaitInv, [B!Next]_stages
  PROVE  WaitInv'
<1>1. CASE \/ B!BaseReplaced \/ B!SourceSaved \/ B!Unforce \/ B!ReaderDies \/ B!ReaderStarts
           \/ B!SourceRestarts \/ B!AttachTimesOut \/ UNCHANGED stages
  <2>1. barrier' = barrier /\ publishing' = publishing
    BY <1>1 DEF B!BaseReplaced, B!SourceSaved, B!Unforce, B!ReaderDies, B!ReaderStarts, B!SourceRestarts, B!AttachTimesOut, stages
  <2>. QED BY <2>1, SameRecord DEF WaitInv
<1>2. CASE B!PrepareForced \/ B!Timeout \/ B!Poll
  <2>1. publishing' = B!Released
    BY <1>2 DEF B!PrepareForced, B!Timeout, B!Poll
  <2>2. barrier' = B!None \/ \E v \in {"bypassed", "timeout"} : barrier' = B!Finish(barrier, v)
    BY <1>2 DEF B!PrepareForced, B!Timeout, B!Poll
  <2>3. ~B!Pending(barrier')
    <3>1. ~B!Pending(B!None)
      BY DEF B!Pending
    <3>2. \A v \in {"bypassed", "timeout"} : ~B!Pending(B!Finish(barrier, v))
      BY FinishedEnds
    <3>. QED BY <2>2, <3>1, <3>2
  <2>. QED BY <2>1, <2>3, EndedRecord
<1>3. CASE B!ReaderLoads \/ B!ReaderEnds
  <2>1. \/ barrier' = barrier /\ publishing' = publishing
        \/ /\ \E kind : barrier' = B!Hears(kind)
           /\ publishing' = IF B!Pending(barrier') THEN publishing ELSE B!Released
    BY <1>3 DEF B!ReaderLoads, B!ReaderEnds
  <2>. QED BY <2>1, SameRecord, HeardStands DEF WaitInv
<1>4. CASE \E b \in StageBuilds : B!BuildEnds(b[1], b[2], b[3])
  BY <1>4, BuildStands
<1>5. CASE (\E p : B!BuildStarts(p)) \/ B!BuildFails
  BY <1>5, BuildQuiet, SameRecord
<1>. QED BY <1>1, <1>2, <1>3, <1>4, <1>5, ReloadStands, WorkerStands, AnswerStands DEF B!Next

-----------------------------------------------------------------------------
LEMMA StagesMove == [NextAll]_all => [B!Next]_stages
BY DEF NextAll, QueueStep, StrictStep, LiveStep, ScanStep, RulesStep, StagesStep, IosStep, all

LEMMA PublicationAlways == SpecAll => []PublicationInv /\ [][B!ReadyIsPublished]_all
<1>1. InitAll => PublicationInv
  BY InitWhole DEF InitAll
<1>2. PublicationInv /\ [NextAll]_all => PublicationInv' /\ [B!ReadyIsPublished]_all
  BY WholeStep, StagesMove
<1>. QED BY <1>1, <1>2, PTL DEF SpecAll

-----------------------------------------------------------------------------
(* What is published, by either.                                           *)
(* What a strict run publishes is backed when its step is taken.            *)
LEMMA StrictBacked ==
  ASSUME StrictInv, [NextAll]_all, published' # published, NEW g \in published'
  PROVE  LET r == strictReceipts[g] IN
         /\ P!Verdict(strictJob.policy, g, r.graphs, r.cand, r.swapped) = "accepted"
         /\ r.listing = P!Listing
<1>1. P!Next
  BY DEF NextAll, QueueStep, StrictStep, LiveStep, ScanStep, RulesStep, StagesStep, IosStep, all, strict
<1>. QED BY <1>1, PublishedByReturn, ReturnHolds

(* What is published is backed: strict batches by the directories as they   *)
(* are and by what their policy admits (cdb_verified_batch.py), a ready     *)
(* database by every command that its artifacts hold, once each (finalize,  *)
(* publish_semantic_cdb).                                                   *)
THEOREM PublishedIsAlwaysBacked == SpecAll => PublishedIsBacked
<1>1. StrictInv /\ [B!ReadyIsPublished]_all /\ [NextAll]_all =>
        [/\ part = "strict" /\ published' # published => \A g \in published' :
              LET r == strictReceipts[g] IN
              /\ P!Verdict(strictJob.policy, g, r.graphs, r.cand, r.swapped) = "accepted"
              /\ r.listing = P!Listing
         /\ part = "stages" => B!ReadyIsPublished]_all
  BY StrictBacked
<1>. QED BY <1>1, StrictAlways, PublicationAlways, PTL DEF SpecAll, PublishedIsBacked

-----------------------------------------------------------------------------
(* The stages of a publication come in order (IndexPublication).           *)
(* While the barrier stands, a publication that would go past it is one that *)
(* was asked to wait, or one that has nothing to wait for.                   *)
Deferring == B!Pending(barrier) =>
    /\ publishing.stage # "resume"
    /\ publishing.stage = "asked" /\ publishing.built.phase # "current" => publishing.defer
    /\ publishing.stage = "merged" /\ publishing.built.phase # "current" =>
          \/ ~publishing.pub.append \/ frozen # B!None
          \/ selectedStage = B!None \/ selectedStage.gen # publishing.built.gen

(* A phase of the generation being published is strict.                      *)
Strict(built) == \E i \in B!Present(built.gen, B!With(built)) : B!With(built)[i].strict
(* A publication is an append exactly if no phase is strict and no unit of  *)
(* the present database is taken away.                                      *)
Growing == publishing.stage = "merged" =>
    publishing.pub.append = (~Strict(publishing.built) /\ B!AppendOnly(clangdCdb.units, publishing.pub.units))

(* A record of the barrier that is of the database as it is, and whose       *)
(* reader has begun or is known to have ended the stage before: what that    *)
(* reader does now, it does with this database, or with a leftover.          *)
RecordFields == {"gen", "status", "live", "base", "client", "began", "observing", "completed", "waits"}
Works(b, rd) == (b.began /\ b.client = rd.id) \/ b.completed = rd.id
Earned(b, stamp, rd, left) ==
    /\ DOMAIN b = RecordFields /\ b.live \in 0..stamp
    /\ b.began => b.client # 0
    /\ b.live = stamp /\ rd.busy /\ Works(b, rd) => rd.at = stamp \/ left = stamp
(* A reader of the database has a number of its own.                        *)
IsReader(rd) == DOMAIN rd = {"id", "up", "at", "busy", "retiring"} /\ rd.id \in Nat \ {0}
(* A standing barrier counts only work on the present database, and a       *)
(* publication that writes the database changes it.                         *)
Earning ==
    /\ B!Pending(barrier) => Earned(barrier, clangdCdb.stamp, reader, stray)
    /\ IsReader(reader) /\ clangdCdb.stamp \in Nat
    /\ publishing.stage \in {"merged", "renamed", "ok"} /\ publishing.pub.original => publishing.pub.changed

(* The inductive invariant of the stages.                                   *)
StagesInv == PublicationInv /\ WaitInv /\ Deferring /\ Growing /\ Earning

-----------------------------------------------------------------------------
(* What happens outside a publication.                                      *)
Outside == \/ B!BaseReplaced \/ B!SourceSaved \/ B!PrepareForced \/ B!Unforce \/ B!Timeout \/ B!Poll
           \/ B!ReaderLoads \/ B!ReaderEnds \/ B!ReaderDies \/ B!ReaderStarts \/ B!Reloads
           \/ B!SourceRestarts \/ B!AttachTimesOut \/ UNCHANGED stages

LEMMA OutsideLeaves ==
  ASSUME Outside
  PROVE  UNCHANGED <<clangdCdb, frozen, artifacts, selectedStage, stray>>
BY DEF Outside, B!BaseReplaced, B!SourceSaved, B!PrepareForced, B!Unforce, B!Timeout, B!Poll, B!ReaderLoads,
       B!ReaderEnds, B!ReaderDies, B!ReaderStarts, B!Reloads, B!SourceRestarts, B!AttachTimesOut, B!disk, B!state, stages

LEMMA NothingPending == ~B!Pending(B!None)
BY DEF B!Pending

(* Outside a publication no barrier rises, and who waits for one that stands *)
(* is left alone.                                                            *)
LEMMA NoneRises ==
  ASSUME WaitInv, Outside, B!Pending(barrier')
  PROVE  B!Pending(barrier) /\ publishing' = publishing
<1>1. CASE \/ B!BaseReplaced \/ B!SourceSaved \/ B!Unforce \/ B!ReaderDies \/ B!ReaderStarts
           \/ B!SourceRestarts \/ B!AttachTimesOut \/ UNCHANGED stages
  <2>1. barrier' = barrier /\ publishing' = publishing
    BY <1>1 DEF B!BaseReplaced, B!SourceSaved, B!Unforce, B!ReaderDies, B!ReaderStarts, B!SourceRestarts, B!AttachTimesOut, stages
  <2>. QED BY <2>1
<1>2. CASE B!PrepareForced \/ B!Timeout \/ B!Poll
  <2>1. barrier' = B!None \/ \E v \in {"bypassed", "timeout"} : barrier' = B!Finish(barrier, v)
    BY <1>2 DEF B!PrepareForced, B!Timeout, B!Poll
  <2>2. \A v \in {"bypassed", "timeout"} : ~B!Pending(B!Finish(barrier, v))
    BY FinishedEnds
  <2>. QED BY <2>1, <2>2, NothingPending
<1>3. CASE B!ReaderLoads \/ B!ReaderEnds
  <2>1. \/ barrier' = barrier /\ publishing' = publishing
        \/ /\ \E kind : barrier' = B!Hears(kind)
           /\ publishing' = publishing
    BY <1>3 DEF B!ReaderLoads, B!ReaderEnds
  <2>. QED BY <2>1, HearsStands DEF WaitInv
<1>4. CASE B!Reloads
  <2>1. publishing' = publishing /\ (barrier' = barrier \/ B!Pending(barrier))
    BY <1>4 DEF B!Reloads
  <2>. QED BY <2>1
<1>. QED BY <1>1, <1>2, <1>3, <1>4 DEF Outside

-----------------------------------------------------------------------------
(* No stage overtakes another.                                              *)

LEMMA OutsideDefers ==
  ASSUME WaitInv, Deferring, Growing, Outside
  PROVE  Deferring' /\ Growing' /\ B!NotOvertaken
<1>1. UNCHANGED <<clangdCdb, frozen, artifacts, selectedStage>>
  BY OutsideLeaves
<1>2. Deferring'
  <2>1. B!Pending(barrier') => B!Pending(barrier) /\ publishing' = publishing
    BY NoneRises
  <2>. QED BY <1>1, <2>1 DEF Deferring, B!Pending
<1>3. Growing'
  <2>1. publishing'.stage = "merged" => publishing' = publishing
    <3>1. publishing' \in {publishing, B!Released}
      <4>1. (\/ B!BaseReplaced \/ B!SourceSaved \/ B!Unforce \/ B!ReaderDies \/ B!ReaderStarts
             \/ B!SourceRestarts \/ B!AttachTimesOut \/ B!Reloads \/ UNCHANGED stages) => publishing' = publishing
        BY DEF B!BaseReplaced, B!SourceSaved, B!Unforce, B!ReaderDies, B!ReaderStarts, B!SourceRestarts,
               B!AttachTimesOut, B!Reloads, stages
      <4>2. B!PrepareForced \/ B!Timeout \/ B!Poll => publishing' = B!Released
        BY DEF B!PrepareForced, B!Timeout, B!Poll
      <4>3. B!ReaderLoads => publishing' = (IF B!Pending(barrier') THEN publishing ELSE B!Released) \/ publishing' = publishing
        BY DEF B!ReaderLoads
      <4>4. B!ReaderEnds => publishing' = IF B!Pending(barrier') THEN publishing ELSE B!Released
        BY DEF B!ReaderEnds
      <4>. QED BY <4>1, <4>2, <4>3, <4>4 DEF Outside
    <3>2. publishing.stage = "waiting" => B!Released.stage = "resume"
      BY DEF B!Released, WaitInv
    <3>3. publishing.stage # "waiting" => B!Released = publishing
      BY DEF B!Released
    <3>. QED BY <3>1, <3>2, <3>3
  <2>. QED BY <1>1, <2>1 DEF Growing, Strict, B!With
<1>4. B!NotOvertaken
  BY <1>1 DEF B!NotOvertaken
<1>. QED BY <1>2, <1>3, <1>4

LEMMA CheckedStanding ==
  ASSUME Standing, B!Pending(barrier), ~forced, B!Valid(barrier)
  PROVE  B!Pending(B!Checked)
BY DEF B!Checked

LEMMA DeliverDefers ==
  ASSUME NEW r, NEW built, NEW pub, NEW stamp, B!Deliver(r, built, pub, stamp)
  PROVE  Deferring' /\ Growing'
<1>1. publishing'.stage = "idle"
  BY IdleIs DEF B!Deliver
<1>. QED BY <1>1 DEF Deferring, Growing

LEMMA BuildDefers ==
  ASSUME PublicationInv, WaitInv, NEW p \in PhaseNames, NEW b, NEW sealed, B!BuildEnds(p, b, sealed)
  PROVE  Deferring' /\ Growing' /\ B!NotOvertaken
<1> DEFINE built == [phase |-> p, gen |-> base, of |-> publishing.of, batch |-> b,
                     at |-> IF b = {} THEN 0 ELSE revision, strict |-> sealed]
           pub == B!Publication(base, B!With(built))
           seen == IF p = "current" THEN barrier ELSE B!Checked
<1>1. built # B!None /\ built.phase = p /\ built.gen = base
  <2>1. "phase" \in DOMAIN built /\ "phase" \notin DOMAIN B!None
    BY DEF B!None
  <2>. QED BY <2>1
<1>2. publishing.stage = "building" /\ publishing.phase = p /\ Named(built)
  BY DEF B!BuildEnds, B!Outdated, Named
<1>3. CASE /\ publishing' = [stage |-> "asked", built |-> built, base |-> base, defer |-> B!Defers(p)]
           /\ barrier' = seen /\ UNCHANGED clangdCdb
  <2>1. publishing'.stage = "asked" /\ publishing'.built = built /\ publishing'.defer = B!Defers(p)
    BY <1>3
  <2>2. p # "current" /\ B!Pending(barrier') => B!Defers(p)
    BY <1>3 DEF B!Defers
  <2>3. Deferring'
    BY <1>1, <2>1, <2>2 DEF Deferring, B!Pending
  <2>4. Growing' /\ B!NotOvertaken
    BY <1>3, <2>1 DEF Growing, B!NotOvertaken
  <2>. QED BY <2>3, <2>4
<1>4. CASE ~B!Defers(p) /\ artifacts' = B!With(built)
           /\ (B!Deliver(seen, built, pub, clangdCdb'.stamp) \/ publishing' = B!Idle)
  <2>1. publishing'.stage = "idle"
    BY <1>4, IdleIs DEF B!Deliver
  <2>2. Deferring' /\ Growing'
    BY <2>1 DEF Deferring, Growing
  <2>3. B!Coming = built
    <3>1. artifacts'[B!Rank(p)] = built
      BY <1>1, <1>2, <1>4, Placed DEF PublicationInv
    <3>. QED BY <1>2, <3>1 DEF B!Coming
  <2>4. p # "current" => ~B!Pending(barrier) \/ forced \/ ~B!Valid(barrier)
    BY <1>4, CheckedStanding DEF B!Defers, WaitInv
  <2>5. B!NotOvertaken
    BY <1>1, <2>3, <2>4 DEF B!NotOvertaken
  <2>. QED BY <2>2, <2>5
<1> HIDE DEF built, pub, seen
<1>5. \/ /\ publishing' = [stage |-> "asked", built |-> built, base |-> base, defer |-> B!Defers(p)]
         /\ barrier' = seen /\ UNCHANGED clangdCdb
      \/ /\ ~B!Defers(p) /\ artifacts' = B!With(built)
         /\ (B!Deliver(seen, built, pub, clangdCdb'.stamp) \/ publishing' = B!Idle)
  BY DEF B!BuildEnds, B!Deliver, B!disk, built, pub, seen
<1>. QED BY <1>3, <1>4, <1>5

LEMMA WorkerDefers ==
  ASSUME PublicationInv, WaitInv, Deferring, Growing, B!Worker \/ B!WorkerFails
  PROVE  Deferring' /\ Growing' /\ B!NotOvertaken
<1>0. /\ publishing.stage \in {"asked", "merged", "renamed"}
      /\ publishing.built.gen = publishing.base /\ {"stage", "built", "base"} \subseteq DOMAIN publishing
  <2>1. publishing.stage \in {"asked", "merged", "renamed"}
    BY DEF B!Worker, B!WorkerFails, B!Merge, B!Rename, B!Beside, B!Step, B!Working
  <2>. QED BY <2>1 DEF PublicationInv, JobIsWhole
<1>1. ASSUME NEW s \in {"failed", "deferred", "renamed", "ok"}, publishing' = [publishing EXCEPT !.stage = s]
      PROVE  Deferring' /\ Growing'
  <2>1. publishing'.stage = s
    BY <1>0, <1>1
  <2>. QED BY <2>1 DEF Deferring, Growing
<1>2. CASE B!Merge
  <2> DEFINE g == base
             pub == B!Publication(g, B!With(publishing.built))
             waits == publishing.defer /\ pub.append /\ frozen = B!None /\ selectedStage # B!None /\ selectedStage.gen = g
  <2>1. /\ publishing.stage = "asked" /\ UNCHANGED <<clangdCdb, frozen, artifacts, selectedStage, barrier>>
        /\ \/ publishing' = [publishing EXCEPT !.stage = "failed"]
           \/ publishing' = [publishing EXCEPT !.stage = "deferred"]
           \/ /\ base = publishing.base /\ ~waits
              /\ publishing' = [stage |-> "merged", built |-> publishing.built, base |-> base, pub |-> pub]
    BY <1>2 DEF B!Merge, B!Step, B!Still, B!To, B!WorkerStep, B!state, B!Current
  <2>2. B!NotOvertaken
    BY <2>1 DEF B!NotOvertaken
  <2>3. CASE /\ base = publishing.base /\ ~waits
             /\ publishing' = [stage |-> "merged", built |-> publishing.built, base |-> base, pub |-> pub]
    <3>1. publishing'.stage = "merged" /\ publishing'.built = publishing.built /\ publishing'.pub = pub /\ publishing.built.gen = base
      BY <1>0, <2>3
    <3>2. pub.append = (~Strict(publishing.built) /\ B!AppendOnly(clangdCdb.units, pub.units))
      BY <3>1 DEF B!Publication, Strict
    <3>3. B!Pending(barrier) /\ publishing.built.phase # "current" => ~pub.append \/ frozen # B!None \/ selectedStage = B!None \/ selectedStage.gen # publishing.built.gen
      BY <2>1, <2>3, <3>1 DEF Deferring
    <3> HIDE DEF pub, waits
    <3>4. Deferring'
      BY <2>1, <3>1, <3>3 DEF Deferring, B!Pending
    <3>5. Growing'
      BY <2>1, <3>1, <3>2 DEF Growing, Strict, B!With
    <3>. QED BY <2>2, <3>4, <3>5
  <2>. QED BY <1>1, <2>1, <2>2, <2>3
<1>3. CASE B!Rename
  <2>1. /\ publishing.stage = "merged" /\ publishing' = [publishing EXCEPT !.stage = "renamed"]
        /\ clangdCdb' = B!Written(publishing.pub)
    BY <1>3 DEF B!Rename, B!Step, B!To
  <2>2. SUFFICES ASSUME clangdCdb' # clangdCdb, B!AppendOnly(clangdCdb.units, clangdCdb'.units), selectedStage # B!None,
                        NEW came, came = B!Coming, ~(came.phase = "current" \/ came.gen # selectedStage.gen),
                        ~Strict(came), B!Pending(barrier), B!Valid(barrier)
                 PROVE  FALSE
    BY <1>1, <2>1 DEF B!NotOvertaken, Strict
  <2>3. came = publishing.built
    BY <1>0, <2>2 DEF B!Coming
  <2>4. clangdCdb'.units = publishing.pub.units
    BY <2>1, <2>2 DEF B!Written
  <2>5. publishing.pub.append
    BY <2>1, <2>2, <2>3, <2>4 DEF Growing
  <2>6. frozen # B!None
    BY <2>1, <2>2, <2>3, <2>5 DEF Deferring
  <2>. QED BY <2>2, <2>6 DEF B!Valid
<1>4. CASE B!Beside \/ B!WorkerFails
  <2>1. clangdCdb' = clangdCdb /\ \E s \in {"failed", "ok"} : publishing' = [publishing EXCEPT !.stage = s]
    BY <1>4 DEF B!Beside, B!WorkerFails, B!Step, B!To, B!Still, B!disk
  <2>. QED BY <1>1, <2>1 DEF B!NotOvertaken
<1>. QED BY <1>2, <1>3, <1>4 DEF B!Worker

LEMMA AnswerDefers ==
  ASSUME PublicationInv, WaitInv, Deferring, B!Answer \/ B!Resume
  PROVE  Deferring' /\ Growing' /\ B!NotOvertaken
<1>1. clangdCdb' = clangdCdb
  BY DEF B!Answer, B!Resume, B!disk
<1>2. B!NotOvertaken
  BY <1>1 DEF B!NotOvertaken
<1>3. CASE publishing' = B!Idle
  BY <1>2, <1>3, IdleIs DEF Deferring, Growing
<1>4. CASE publishing.stage = "deferred" /\ B!To("waiting")
  <2>1. publishing'.stage = "waiting"
    BY <1>4 DEF B!To, WaitInv
  <2>. QED BY <1>2, <2>1 DEF Deferring, Growing
<1>5. CASE publishing' = [publishing EXCEPT !.stage = "asked", !.defer = FALSE] /\ ~B!Pending(barrier')
  <2>1. publishing'.stage = "asked"
    BY <1>5 DEF WaitInv
  <2>. QED BY <1>2, <1>5, <2>1 DEF Deferring, Growing, B!Pending
<1>6. B!Answer => \/ publishing' = B!Idle
                  \/ publishing.stage = "deferred" /\ B!To("waiting")
                  \/ publishing' = [publishing EXCEPT !.stage = "asked", !.defer = FALSE] /\ ~B!Pending(barrier')
  BY Zenon DEF B!Answer, B!Fails, B!Deliver
<1>7. B!Resume => \/ publishing' = B!Idle
                  \/ publishing' = [publishing EXCEPT !.stage = "asked", !.defer = FALSE] /\ ~B!Pending(barrier')
  BY Zenon DEF B!Resume, B!Fails, Deferring
<1>. QED BY <1>3, <1>4, <1>5, <1>6, <1>7

LEMMA StagesSplit == [B!Next]_stages =>
    \/ Outside \/ (\E b \in StageBuilds : B!BuildEnds(b[1], b[2], b[3])) \/ B!Worker \/ B!WorkerFails
    \/ (\E p : B!BuildStarts(p)) \/ B!BuildFails \/ B!Answer \/ B!Resume
BY DEF B!Next, Outside

-----------------------------------------------------------------------------
(* What counts as indexed has been.                                         *)

LEMMA EarnedStays ==
  ASSUME NEW b, NEW stamp \in Nat, NEW rd, NEW left, Earned(b, stamp, rd, left),
         NEW rd2, rd2.busy => rd.busy /\ rd2.id = rd.id /\ rd2.at = rd.at
  PROVE  Earned(b, stamp, rd2, left)
BY DEF Earned, Works

(* A record of an earlier database has nothing to answer for.               *)
LEMMA EarnedEarlier ==
  ASSUME NEW b, NEW stamp \in Nat, NEW rd, NEW left, Earned(b, stamp, rd, left), NEW rd2, NEW left2
  PROVE  Earned(b, stamp + 1, rd2, left2)
<1>1. b.live \in 0..(stamp + 1) /\ b.live # stamp + 1
  BY DEF Earned
<1>. QED BY <1>1 DEF Earned

(* What becomes of clangd when it is told to reload, dies or comes back.    *)
LEMMA ReaderRests ==
  ASSUME IsReader(reader),
         \/ reader' \in {reader, B!Stopped, [reader EXCEPT !.retiring = TRUE]}
         \/ reader' = [id |-> reader.id + 1, up |-> TRUE, at |-> 0, busy |-> FALSE, retiring |-> FALSE]
  PROVE  IsReader(reader') /\ (reader'.busy => reader.busy /\ reader'.id = reader.id /\ reader'.at = reader.at)
<1>1. CASE reader' = reader
  BY <1>1
<1>2. CASE reader' = B!Stopped
  <2>1. DOMAIN reader' = DOMAIN reader /\ reader'.id = reader.id /\ reader'.busy = FALSE
    BY <1>2 DEF IsReader, B!Stopped
  <2>. QED BY <2>1 DEF IsReader
<1>3. CASE reader' = [reader EXCEPT !.retiring = TRUE]
  <2>1. /\ DOMAIN reader' = DOMAIN reader /\ reader'.id = reader.id
        /\ reader'.busy = reader.busy /\ reader'.at = reader.at
    BY <1>3 DEF IsReader
  <2>. QED BY <2>1 DEF IsReader
<1>4. CASE reader' = [id |-> reader.id + 1, up |-> TRUE, at |-> 0, busy |-> FALSE, retiring |-> FALSE]
  <2>1. /\ DOMAIN reader' = {"id", "up", "at", "busy", "retiring"} /\ reader'.id = reader.id + 1
        /\ reader'.busy = FALSE
    BY <1>4
  <2>. QED BY <2>1 DEF IsReader
<1>. QED BY <1>1, <1>2, <1>3, <1>4

LEMMA NotPending ==
  ASSUME NEW v, v \in {"bypassed", "timeout", "indexed"}
  PROVE  ~B!Pending(B!Finish(barrier, v)) /\ B!Finish(barrier, v) # B!None /\ B!Finish(barrier, v).status = v
<1>1. "status" \in DOMAIN B!Finish(barrier, v) /\ B!Finish(barrier, v).status = v
  BY DEF B!Finish
<1>. QED BY <1>1, NoneIs, FinishedEnds

(* The same database and requests; the record goes or stays.                *)
LEMMA EarnsStill ==
  ASSUME Earning, UNCHANGED <<clangdCdb, stray>>, IsReader(reader'),
         reader'.busy => reader.busy /\ reader'.id = reader.id /\ reader'.at = reader.at,
         B!Pending(barrier') => barrier' = barrier,
         publishing'.stage \in {"merged", "renamed", "ok"} => publishing' = publishing
  PROVE  Earning'
<1>1. B!Pending(barrier') => Earned(barrier', clangdCdb'.stamp, reader', stray')
  BY EarnedStays DEF Earning
<1>. QED BY <1>1 DEF Earning, B!Pending

LEMMA OutsideJobs ==
  ASSUME WaitInv, Outside, publishing'.stage \in {"merged", "renamed", "ok"}
  PROVE  publishing' = publishing
<1>1. publishing' \in {publishing, B!Released}
  <2>1. (\/ B!BaseReplaced \/ B!SourceSaved \/ B!Unforce \/ B!ReaderDies \/ B!ReaderStarts
         \/ B!SourceRestarts \/ B!AttachTimesOut \/ B!Reloads \/ UNCHANGED stages) => publishing' = publishing
    BY DEF B!BaseReplaced, B!SourceSaved, B!Unforce, B!ReaderDies, B!ReaderStarts, B!SourceRestarts,
           B!AttachTimesOut, B!Reloads, stages
  <2>2. B!PrepareForced \/ B!Timeout \/ B!Poll => publishing' = B!Released
    BY DEF B!PrepareForced, B!Timeout, B!Poll
  <2>3. B!ReaderLoads => publishing' = (IF B!Pending(barrier') THEN publishing ELSE B!Released) \/ publishing' = publishing
    BY DEF B!ReaderLoads
  <2>4. B!ReaderEnds => publishing' = IF B!Pending(barrier') THEN publishing ELSE B!Released
    BY DEF B!ReaderEnds
  <2>. QED BY <2>1, <2>2, <2>3, <2>4 DEF Outside
<1>2. publishing.stage = "waiting" => B!Released.stage = "resume"
  BY DEF B!Released, WaitInv
<1>3. publishing.stage # "waiting" => B!Released = publishing
  BY DEF B!Released
<1>. QED BY <1>1, <1>2, <1>3

LEMMA NothingIndexed ==
  ASSUME barrier' = barrier \/ barrier' = B!None \/ barrier'.status # "indexed"
  PROVE  B!IndexedIsEarned
BY DEF B!IndexedIsEarned

(* Time passes, sources and base change, clangd dies and comes back.        *)
LEMMA QuietEarns ==
  ASSUME WaitInv, Earning,
         \/ B!BaseReplaced \/ B!SourceSaved \/ B!PrepareForced \/ B!Unforce \/ B!Timeout \/ B!Poll
         \/ B!ReaderDies \/ B!ReaderStarts \/ B!SourceRestarts \/ B!AttachTimesOut \/ UNCHANGED stages
  PROVE  Earning' /\ B!IndexedIsEarned
<1>1. Outside
  BY DEF Outside
<1>2. \/ reader' \in {reader, B!Stopped, [reader EXCEPT !.retiring = TRUE]}
      \/ reader' = [id |-> reader.id + 1, up |-> TRUE, at |-> 0, busy |-> FALSE, retiring |-> FALSE]
  <2>1. (\/ B!BaseReplaced \/ B!SourceSaved \/ B!PrepareForced \/ B!Unforce \/ B!Timeout \/ B!Poll
         \/ B!AttachTimesOut \/ UNCHANGED stages) => reader' = reader
    BY DEF B!BaseReplaced, B!SourceSaved, B!PrepareForced, B!Unforce, B!Timeout, B!Poll, B!AttachTimesOut,
           B!clangd, stages
  <2>2. B!ReaderDies \/ B!SourceRestarts => reader' \in {reader, B!Stopped, [reader EXCEPT !.retiring = TRUE]}
    BY DEF B!ReaderDies, B!SourceRestarts
  <2>3. B!ReaderStarts => reader' = [id |-> reader.id + 1, up |-> TRUE, at |-> 0, busy |-> FALSE, retiring |-> FALSE]
    BY DEF B!ReaderStarts
  <2>. QED BY <2>1, <2>2, <2>3
<1>3. barrier' = barrier \/ barrier' = B!None \/ \E v \in {"bypassed", "timeout"} : barrier' = B!Finish(barrier, v)
  BY DEF B!BaseReplaced, B!SourceSaved, B!PrepareForced, B!Unforce, B!Timeout, B!Poll,
         B!ReaderDies, B!ReaderStarts, B!SourceRestarts, B!AttachTimesOut, stages
<1>4. \A v \in {"bypassed", "timeout"} : ~B!Pending(B!Finish(barrier, v)) /\ B!Finish(barrier, v).status # "indexed"
  BY NotPending
<1>5. B!Pending(barrier') => barrier' = barrier
  BY <1>3, <1>4, NothingPending
<1>6. B!IndexedIsEarned
  BY <1>3, <1>4, NothingIndexed
<1>7. Earning'
  BY <1>1, <1>2, <1>5, ReaderRests, OutsideLeaves, OutsideJobs, EarnsStill DEF Earning
<1>. QED BY <1>6, <1>7

LEMMA HearsEarns ==
  ASSUME Earning, NEW kind, NEW rd, rd.id = reader.id,
         rd.busy => rd.at = clangdCdb.stamp, B!Pending(B!Hears(kind))
  PROVE  Earned(B!Hears(kind), clangdCdb.stamp, rd, stray)
<1> DEFINE q == [barrier EXCEPT !.client = reader.id, !.began = TRUE, !.status = "indexing"]
<1>1. \/ B!Hears(kind) = barrier
      \/ B!Hears(kind) \in {B!Finish(barrier, "bypassed"), B!Finish(barrier, "indexed")}
      \/ B!Pending(barrier) /\ B!Hears(kind) = q
  BY DEF B!Hears
<1>2. CASE B!Hears(kind) = barrier
  BY <1>2 DEF Earning, Earned
<1>3. CASE B!Pending(barrier) /\ B!Hears(kind) = q
  <2>1. DOMAIN barrier = RecordFields /\ barrier.live \in 0..clangdCdb.stamp
    BY <1>3 DEF Earning, Earned
  <2>2. DOMAIN q = RecordFields /\ q.live = barrier.live /\ q.client = reader.id
    BY <2>1 DEF RecordFields
  <2> HIDE DEF q
  <2>3. reader.id # 0
    BY DEF Earning, IsReader
  <2>. QED BY <1>3, <2>1, <2>2, <2>3 DEF Earned
<1>. QED BY <1>1, <1>2, <1>3, NotPending

LEMMA LoadsEarns ==
  ASSUME WaitInv, Earning, B!ReaderLoads
  PROVE  Earning' /\ B!IndexedIsEarned
<1>1. reader' = [reader EXCEPT !.at = clangdCdb.stamp, !.busy = TRUE] /\ UNCHANGED <<clangdCdb, stray>>
  BY DEF B!ReaderLoads, B!disk
<1>2. IsReader(reader') /\ reader'.id = reader.id /\ reader'.at = clangdCdb.stamp
  BY <1>1 DEF Earning, IsReader
<1>3. barrier' \in {barrier, B!Hears("begin")}
  BY DEF B!ReaderLoads
<1>4. B!Pending(barrier') => Earned(barrier', clangdCdb.stamp, reader', stray)
  <2>1. CASE barrier' = B!Hears("begin")
    BY <1>2, <2>1, HearsEarns
  <2>2. CASE barrier' = barrier
    BY <1>2, <2>2 DEF Earning, Earned
  <2>. QED BY <1>3, <2>1, <2>2
<1>5. publishing'.stage \in {"merged", "renamed", "ok"} => publishing' = publishing
  BY OutsideJobs DEF Outside
<1>6. Earning'
  BY <1>1, <1>2, <1>4, <1>5 DEF Earning, B!Pending
<1>7. barrier' = barrier \/ barrier'.status # "indexed"
  <2>1. \/ B!Hears("begin") = barrier \/ B!Hears("begin") = B!Finish(barrier, "bypassed")
        \/ B!Pending(barrier) /\ B!Hears("begin") = [barrier EXCEPT !.client = reader.id, !.began = TRUE, !.status = "indexing"]
    BY DEF B!Hears
  <2>2. B!Pending(barrier) =>
           [barrier EXCEPT !.client = reader.id, !.began = TRUE, !.status = "indexing"].status = "indexing"
    BY DEF WaitInv, Standing
  <2>. QED BY <1>3, <2>1, <2>2, NotPending
<1>. QED BY <1>6, <1>7, NothingIndexed

LEMMA EndsEarns ==
  ASSUME WaitInv, Earning, B!ReaderEnds
  PROVE  Earning' /\ B!IndexedIsEarned
<1>1. /\ reader' = [reader EXCEPT !.busy = FALSE] /\ UNCHANGED <<clangdCdb, stray>>
      /\ reader.up /\ reader.busy /\ barrier' = B!Hears("end")
  BY DEF B!ReaderEnds, B!disk
<1>2. IsReader(reader') /\ reader'.id = reader.id /\ reader'.at = reader.at /\ ~reader'.busy /\ reader'.up
  BY <1>1 DEF Earning, IsReader
<1>3. B!Pending(barrier') => Earned(barrier', clangdCdb.stamp, reader', stray)
  BY <1>1, <1>2, HearsEarns
<1>4. publishing'.stage \in {"merged", "renamed", "ok"} => publishing' = publishing
  BY OutsideJobs DEF Outside
<1>5. Earning'
  BY <1>1, <1>2, <1>3, <1>4 DEF Earning, B!Pending
<1>6. CASE barrier' = B!Finish(barrier, "indexed") /\ barrier' # barrier
  <2>1. /\ B!Pending(barrier) /\ barrier.client \in {0, reader.id} /\ B!Valid(barrier) /\ barrier.began
    <3>1. B!Finish(barrier, "bypassed") # B!Finish(barrier, "indexed")
      BY NotPending
    <3>. QED BY <1>1, <1>6, <3>1 DEF B!Hears
  <2>2. /\ barrier.client = reader.id
        /\ reader.at = clangdCdb.stamp \/ stray = clangdCdb.stamp
    BY <1>1, <2>1 DEF Earning, Earned, Works, B!Valid
  <2>3. barrier'.client = reader.id
    BY <1>6, <2>2 DEF B!Finish
  <2>4. reader'.id = barrier'.client /\ (reader'.at = clangdCdb'.stamp \/ stray = clangdCdb.stamp)
    BY <1>1, <1>2, <2>2, <2>3
  <2>. QED BY <1>2, <1>5, <2>4 DEF B!IndexedIsEarned
<1>7. CASE barrier' = barrier \/ barrier' = B!Finish(barrier, "bypassed")
  <2>1. B!Finish(barrier, "bypassed").status # "indexed"
    BY NotPending
  <2>. QED BY <1>5, <1>7, <2>1, NothingIndexed
<1>8. barrier' = barrier \/ barrier' \in {B!Finish(barrier, "bypassed"), B!Finish(barrier, "indexed")}
  BY <1>1 DEF B!Hears
<1>. QED BY <1>5, <1>6, <1>7, <1>8

LEMMA ReloadsEarns ==
  ASSUME WaitInv, Earning, B!Reloads
  PROVE  Earning' /\ B!IndexedIsEarned
<1>1. UNCHANGED <<clangdCdb, stray, reader, publishing>>
  BY DEF B!Reloads, B!disk
<1>2. CASE barrier' = barrier
  BY <1>1, <1>2, NothingIndexed DEF Earning, B!Pending
<1>3. CASE barrier' # barrier
  <2> DEFINE working == barrier.completed = reader.id /\ reader.busy
  <2>1. /\ B!Pending(barrier) /\ barrier.client \in {0, reader.id}
        /\ barrier' = [barrier EXCEPT !.observing = TRUE, !.began = @ \/ working, !.client = reader.id,
                         !.status = IF barrier.began \/ working THEN "indexing" ELSE @]
    BY <1>3 DEF B!Reloads
  <2>2. Earned(barrier, clangdCdb.stamp, reader, stray)
    BY <2>1 DEF Earning
  <2>3. /\ DOMAIN barrier' = RecordFields /\ barrier'.live = barrier.live /\ barrier'.client = reader.id
        /\ barrier'.began = (barrier.began \/ working) /\ barrier'.completed = barrier.completed
        /\ barrier'.status \in {"indexing", barrier.status}
    BY <2>1, <2>2 DEF Earned, RecordFields
  <2>4. barrier.began => barrier.client = reader.id
    BY <2>1, <2>2 DEF Earned
  <2>5. reader.id # 0
    BY DEF Earning, IsReader
  <2>6. Earned(barrier', clangdCdb.stamp, reader, stray)
    <3>1. barrier'.live = clangdCdb.stamp /\ reader.busy /\ Works(barrier', reader) =>
             reader.at = clangdCdb.stamp \/ stray = clangdCdb.stamp
      BY <2>2, <2>3, <2>4 DEF Earned, Works
    <3>. QED BY <2>2, <2>3, <2>5, <3>1 DEF Earned
  <2>7. barrier'.status # "indexed"
    BY <2>1, <2>3 DEF B!Pending
  <2>. QED BY <1>1, <2>6, <2>7, NothingIndexed DEF Earning, B!Pending
<1>. QED BY <1>2, <1>3

LEMMA RestartRests ==
  ASSUME NEW pub, NEW same, NEW g, NEW stamp, B!Restart(pub, same, g, stamp)
  PROVE  reader' \in {reader, B!Stopped, [reader EXCEPT !.retiring = TRUE]}
BY DEF B!Restart

LEMMA RecordEarns ==
  ASSUME Earning, NEW pub, NEW g, NEW stamp \in Nat, NEW old, NEW rd, NEW left,
         rd.busy => reader.busy /\ rd.id = reader.id,
         pub.original \/ left = stamp
  PROVE  Earned(B!Record(pub, g, stamp, old), stamp, rd, left) /\ B!Record(pub, g, stamp, old).status # "indexed"
<1> DEFINE adopted == ~pub.original /\ B!Owns(reader.id) /\ reader.busy
           q == B!Record(pub, g, stamp, old)
<1>1. /\ DOMAIN q = RecordFields /\ q.live = stamp /\ q.began = adopted
      /\ q.client = (IF adopted THEN reader.id ELSE 0) /\ q.completed = B!Completed(old)
      /\ q.status # "indexed"
  BY DEF B!Record, RecordFields
<1>2. reader.busy => B!Completed(old) = 0
  BY DEF B!Completed
<1>3. reader.id # 0
  BY DEF Earning, IsReader
<1> HIDE DEF q
<1>4. rd.busy /\ Works(q, rd) => left = stamp
  BY <1>1, <1>2, <1>3 DEF Works
<1> HIDE DEF adopted
<1>5. (q.began => q.client # 0) /\ q.live \in 0..stamp
  BY <1>1, <1>3
<1>6. Earned(q, stamp, rd, left)
  BY <1>1, <1>4, <1>5 DEF Earned
<1>. QED BY <1>1, <1>6 DEF q

LEMMA CommittedIs ==
  ASSUME NEW r, NEW p, NEW pub, NEW g, NEW stamp, NEW chosen, pub.original => pub.changed,
         NEW c, c = B!Committed(r, p, pub, g, stamp, chosen)
  PROVE  \/ c = B!None \/ c = B!Finish(r, "bypassed")
         \/ c = r /\ ~pub.original
         \/ \E old : c = B!Record(pub, g, stamp, old)
BY DEF B!Committed

LEMMA FinishedAgain ==
  ASSUME NEW r
  PROVE  B!Finish(r, "bypassed").status = "bypassed" /\ ~B!Pending(B!Finish(r, "bypassed"))
BY FinishedEnds DEF B!Finish

LEMMA DeliverEarns ==
  ASSUME Earning, NEW r, r \in {barrier, B!Finish(barrier, "bypassed")}, NEW built, NEW pub,
         B!Deliver(r, built, pub, clangdCdb'.stamp), pub.original => pub.changed,
         clangdCdb'.stamp \in Nat, ~pub.original => clangdCdb' = clangdCdb
  PROVE  Earning' /\ B!IndexedIsEarned
<1> DEFINE stamp == clangdCdb'.stamp
           chosen == B!Selected(built.gen, B!With(built))
           same == selectedStage # B!None /\ selectedStage.gen = chosen.gen
<1>1. /\ barrier' = B!Committed(r, built.phase, pub, built.gen, stamp, chosen)
      /\ publishing' = B!Idle
      /\ stray' = IF pub.original THEN IF stray = stamp THEN 0 ELSE stray
                  ELSE IF B!Pending(barrier') /\ barrier' # r THEN stamp ELSE stray
  BY DEF B!Deliver
<1>2. reader' \in {reader, B!Stopped, [reader EXCEPT !.retiring = TRUE]}
  <2>1. reader' = reader \/ B!Restart(pub, same, built.gen, stamp)
    BY DEF B!Deliver
  <2>. QED BY <2>1, RestartRests
<1>3. IsReader(reader') /\ (reader'.busy => reader.busy /\ reader'.id = reader.id /\ reader'.at = reader.at)
  BY <1>2, ReaderRests DEF Earning
<1> HIDE DEF stamp, chosen, same
<1>4. \/ barrier' = B!None \/ barrier' = B!Finish(r, "bypassed") \/ (barrier' = r /\ ~pub.original)
      \/ \E old : barrier' = B!Record(pub, built.gen, stamp, old)
  BY <1>1, CommittedIs
<1>5. Earning' <=> (B!Pending(barrier') => Earned(barrier', stamp, reader', stray'))
  BY <1>1, <1>3, IdleIs DEF Earning, stamp, B!Pending
<1>6. CASE barrier' = B!None \/ barrier' = B!Finish(r, "bypassed")
  <2>1. ~B!Pending(barrier') /\ (barrier' = B!None \/ barrier'.status # "indexed")
    BY <1>6, FinishedAgain, NothingPending
  <2>. QED BY <1>5, <2>1, NothingIndexed
<1>7. CASE barrier' = r /\ ~pub.original
  <2>1. clangdCdb' = clangdCdb /\ stray' = stray
    BY <1>1, <1>7
  <2>2. B!Pending(r) => r = barrier
    BY FinishedAgain
  <2>3. B!Pending(barrier') => Earned(barrier', stamp, reader', stray')
    BY <1>3, <1>7, <2>1, <2>2, EarnedStays DEF Earning, stamp
  <2>4. barrier' = barrier \/ barrier'.status # "indexed"
    BY <1>7, FinishedAgain
  <2>. QED BY <1>5, <2>3, <2>4, NothingIndexed
<1>8. CASE \E old : barrier' = B!Record(pub, built.gen, stamp, old)
  <2>1. PICK old : barrier' = B!Record(pub, built.gen, stamp, old)
    BY <1>8
  <2>2. CASE barrier' = r /\ ~pub.original
    BY <1>7, <2>2
  <2>3. CASE pub.original \/ barrier' # r
    <3>1. B!Pending(barrier') => pub.original \/ stray' = stamp
      BY <1>1, <2>3
    <3>2. B!Pending(barrier') => Earned(barrier', stamp, reader', stray') /\ barrier'.status # "indexed"
      BY <1>3, <2>1, <3>1, RecordEarns DEF stamp
    <3>3. barrier'.status # "indexed"
      BY <2>1 DEF B!Record
    <3>. QED BY <1>5, <3>2, <3>3, NothingIndexed
  <2>. QED BY <2>2, <2>3
<1>. QED BY <1>4, <1>6, <1>7, <1>8

(* Writing the database without taking it.                                  *)
LEMMA WritesEarn ==
  ASSUME Earning, NEW pub, clangdCdb' \in {clangdCdb, B!Written(pub)},
         stray' = IF clangdCdb' # clangdCdb THEN clangdCdb'.stamp ELSE stray,
         B!Pending(barrier') => barrier' = barrier, UNCHANGED reader,
         publishing'.stage \in {"merged", "renamed", "ok"} /\ publishing'.pub.original => publishing'.pub.changed
  PROVE  Earning'
<1>1. CASE clangdCdb' = clangdCdb
  BY <1>1 DEF Earning, B!Pending
<1>2. CASE clangdCdb' # clangdCdb
  <2>1. clangdCdb'.stamp = clangdCdb.stamp + 1
    BY <1>2 DEF B!Written
  <2>2. B!Pending(barrier') => Earned(barrier', clangdCdb'.stamp, reader', stray')
    BY <2>1, EarnedEarlier DEF Earning
  <2>3. clangdCdb'.stamp \in Nat
    BY <2>1 DEF Earning
  <2>. QED BY <2>2, <2>3 DEF Earning, B!Pending
<1>. QED BY <1>1, <1>2

LEMMA OriginalChanges ==
  ASSUME NEW g, NEW arts
  PROVE  B!Publication(g, arts).original => B!Publication(g, arts).changed
BY DEF B!Publication

LEMMA WrittenStamp ==
  ASSUME Earning, NEW pub
  PROVE  /\ B!Written(pub).stamp \in Nat
         /\ ~pub.original => B!Written(pub) = clangdCdb
BY DEF B!Written, Earning

LEMMA SeenIs == B!Checked \in {barrier, B!Finish(barrier, "bypassed")}
BY DEF B!Checked

LEMMA BuildEarns ==
  ASSUME Earning, NEW p, NEW b, NEW sealed, B!BuildEnds(p, b, sealed)
  PROVE  Earning' /\ B!IndexedIsEarned
<1> DEFINE built == [phase |-> p, gen |-> base, of |-> publishing.of, batch |-> b,
                     at |-> IF b = {} THEN 0 ELSE revision, strict |-> sealed]
           pub == B!Publication(base, B!With(built))
           seen == IF p = "current" THEN barrier ELSE B!Checked
           asked == [stage |-> "asked", built |-> built, base |-> base, defer |-> B!Defers(p)]
<1>2. \/ publishing' = asked /\ barrier' = seen /\ UNCHANGED <<clangdCdb, reader, stray>>
      \/ clangdCdb' = B!Written(pub) /\ B!Deliver(seen, built, pub, clangdCdb'.stamp)
      \/ /\ clangdCdb' \in {clangdCdb, B!Written(pub)} /\ barrier' = seen /\ publishing' = B!Idle /\ UNCHANGED reader
         /\ stray' = IF clangdCdb' # clangdCdb THEN clangdCdb'.stamp ELSE stray
  BY DEF B!BuildEnds, B!disk, B!clangd
<1>3. seen \in {barrier, B!Finish(barrier, "bypassed")}
  BY SeenIs
<1>4. pub.original => pub.changed
  BY OriginalChanges
<1>5. asked.stage = "asked"
  OBVIOUS
<1> HIDE DEF seen, pub, built, asked
<1>6. (B!Pending(seen) => seen = barrier) /\ (seen = barrier \/ seen.status # "indexed")
  BY <1>3, FinishedAgain
<1>7. CASE publishing' = asked /\ barrier' = seen /\ UNCHANGED <<clangdCdb, reader, stray>>
  BY <1>5, <1>6, <1>7, NothingIndexed, EarnsStill DEF Earning
<1>8. CASE clangdCdb' = B!Written(pub) /\ B!Deliver(seen, built, pub, clangdCdb'.stamp)
  BY <1>3, <1>4, <1>8, WrittenStamp, DeliverEarns
<1>9. CASE /\ clangdCdb' \in {clangdCdb, B!Written(pub)} /\ barrier' = seen /\ publishing' = B!Idle /\ UNCHANGED reader
           /\ stray' = IF clangdCdb' # clangdCdb THEN clangdCdb'.stamp ELSE stray
  <2>1. publishing'.stage = "idle"
    BY <1>9, IdleIs
  <2>. QED BY <1>6, <1>9, <2>1, WritesEarn, NothingIndexed
<1>. QED BY <1>2, <1>7, <1>8, <1>9

LEMMA WorkerEarns ==
  ASSUME PublicationInv, WaitInv, Earning, B!Worker \/ B!WorkerFails
  PROVE  Earning' /\ B!IndexedIsEarned
<1>0. barrier' = barrier /\ reader' = reader
  BY DEF B!Worker, B!WorkerFails, B!Merge, B!Rename, B!Beside, B!Step, B!WorkerStep, B!clangd
<1>1. B!IndexedIsEarned
  BY <1>0, NothingIndexed
<1>2. ASSUME NEW s \in {"failed", "deferred"}, publishing' = [publishing EXCEPT !.stage = s],
             UNCHANGED <<clangdCdb, stray>>
      PROVE  Earning'
  <2>1. publishing'.stage = s
    BY <1>2 DEF WaitInv
  <2>. QED BY <1>0, <1>2, <2>1, EarnsStill DEF Earning
<1>3. CASE B!Merge
  <2> DEFINE pub == B!Publication(base, B!With(publishing.built))
  <2>1. /\ UNCHANGED <<clangdCdb, stray>>
        /\ \/ \E s \in {"failed", "deferred"} : publishing' = [publishing EXCEPT !.stage = s]
           \/ publishing' = [stage |-> "merged", built |-> publishing.built, base |-> base, pub |-> pub]
    BY <1>3 DEF B!Merge, B!Step, B!Still, B!To
  <2>2. CASE publishing' = [stage |-> "merged", built |-> publishing.built, base |-> base, pub |-> pub]
    <3>1. publishing'.pub = pub /\ (pub.original => pub.changed)
      BY <2>2, OriginalChanges
    <3> HIDE DEF pub
    <3>2. publishing'.pub.original => publishing'.pub.changed
      BY <3>1
    <3>3. B!Pending(barrier') => Earned(barrier', clangdCdb'.stamp, reader', stray')
      BY <1>0, <2>1 DEF Earning
    <3>. QED BY <1>0, <1>1, <2>1, <3>2, <3>3 DEF Earning, B!Pending
  <2>. QED BY <1>1, <1>2, <2>1, <2>2
<1>4. CASE B!Rename \/ B!Beside
  <2>1. publishing.stage \in {"merged", "renamed"}
    BY <1>4 DEF B!Rename, B!Beside, B!Step
  <2>2. {"stage", "pub"} \subseteq DOMAIN publishing
    BY <2>1 DEF PublicationInv, JobIsWhole, WaitInv
  <2>3. \E s \in {"renamed", "failed", "ok"} : publishing' = [publishing EXCEPT !.stage = s]
    BY <1>4 DEF B!Rename, B!Beside, B!Step, B!To
  <2>4. publishing'.pub = publishing.pub
    BY <2>2, <2>3
  <2>5. publishing.pub.original => publishing.pub.changed
    BY <2>1 DEF Earning
  <2>6. /\ clangdCdb' \in {clangdCdb, B!Written(publishing.pub)}
        /\ stray' = IF clangdCdb' # clangdCdb THEN clangdCdb'.stamp ELSE stray
    BY <1>4 DEF B!Rename, B!Beside, B!Step, B!Still
  <2>. QED BY <1>0, <1>1, <2>4, <2>5, <2>6, WritesEarn
<1>5. CASE B!WorkerFails
  BY <1>1, <1>2, <1>5 DEF B!WorkerFails, B!To, B!disk
<1>. QED BY <1>3, <1>4, <1>5 DEF B!Worker

LEMMA AnswerEarns ==
  ASSUME PublicationInv, WaitInv, Earning, B!Answer \/ B!Resume
  PROVE  Earning' /\ B!IndexedIsEarned
<1>1. clangdCdb' = clangdCdb
  BY DEF B!Answer, B!Resume, B!disk
<1>2. CASE publishing' = B!Idle /\ UNCHANGED <<barrier, reader, stray>>
  <2>1. publishing'.stage = "idle"
    BY <1>2, IdleIs
  <2>. QED BY <1>1, <1>2, <2>1, EarnsStill, NothingIndexed DEF Earning
<1>3. CASE publishing.stage = "ok" /\ B!Deliver(barrier, publishing.built, publishing.pub, clangdCdb.stamp)
  <2>1. publishing.pub.original => publishing.pub.changed
    BY <1>3 DEF Earning
  <2>2. clangdCdb'.stamp \in Nat
    BY <1>1 DEF Earning
  <2>3. B!Deliver(barrier, publishing.built, publishing.pub, clangdCdb'.stamp)
    BY <1>1, <1>3
  <2>. QED BY <1>1, <2>1, <2>2, <2>3, DeliverEarns
<1>4. CASE /\ B!Pending(B!Checked) /\ barrier' = [B!Checked EXCEPT !.waits = TRUE]
           /\ B!To("waiting") /\ UNCHANGED <<reader, stray>>
  <2>1. B!Checked = barrier /\ B!Pending(barrier)
    BY <1>4, SeenIs, FinishedAgain
  <2>2. Earned(barrier, clangdCdb.stamp, reader, stray)
    BY <2>1 DEF Earning
  <2>3. /\ DOMAIN barrier' = RecordFields /\ barrier'.live = barrier.live /\ barrier'.began = barrier.began
        /\ barrier'.client = barrier.client /\ barrier'.completed = barrier.completed
        /\ barrier'.status = barrier.status
    BY <1>4, <2>1, <2>2 DEF Earned, RecordFields
  <2>4. Earned(barrier', clangdCdb.stamp, reader, stray)
    BY <2>2, <2>3 DEF Earned, Works
  <2>5. barrier'.status # "indexed"
    BY <2>1, <2>3 DEF B!Pending
  <2>6. publishing'.stage = "waiting"
    BY <1>4 DEF B!To, WaitInv
  <2>. QED BY <1>1, <1>4, <2>4, <2>5, <2>6, NothingIndexed DEF Earning, B!Pending
<1>5. CASE /\ barrier' \in {barrier, B!Checked} /\ UNCHANGED <<reader, stray>>
           /\ publishing' = [publishing EXCEPT !.stage = "asked", !.defer = FALSE]
  <2>1. publishing'.stage = "asked"
    BY <1>5 DEF WaitInv
  <2>2. (B!Pending(barrier') => barrier' = barrier) /\ (barrier' = barrier \/ barrier'.status # "indexed")
    BY <1>5, SeenIs, FinishedAgain
  <2>. QED BY <1>1, <1>5, <2>1, <2>2, EarnsStill, NothingIndexed DEF Earning
<1>6. B!Answer => \/ publishing' = B!Idle /\ UNCHANGED <<barrier, reader, stray>>
                  \/ publishing.stage = "ok" /\ B!Deliver(barrier, publishing.built, publishing.pub, clangdCdb.stamp)
                  \/ /\ B!Pending(B!Checked) /\ barrier' = [B!Checked EXCEPT !.waits = TRUE]
                     /\ B!To("waiting") /\ UNCHANGED <<reader, stray>>
                  \/ /\ barrier' \in {barrier, B!Checked} /\ UNCHANGED <<reader, stray>>
                     /\ publishing' = [publishing EXCEPT !.stage = "asked", !.defer = FALSE]
  BY Zenon DEF B!Answer, B!Fails, B!clangd
<1>7. B!Resume => \/ publishing' = B!Idle /\ UNCHANGED <<barrier, reader, stray>>
                  \/ /\ barrier' \in {barrier, B!Checked} /\ UNCHANGED <<reader, stray>>
                     /\ publishing' = [publishing EXCEPT !.stage = "asked", !.defer = FALSE]
  BY Zenon DEF B!Resume, B!Fails, B!clangd
<1>. QED BY <1>2, <1>3, <1>4, <1>5, <1>6, <1>7

-----------------------------------------------------------------------------
LEMMA StagesInvStep ==
  ASSUME StagesInv, [B!Next]_stages
  PROVE  StagesInv' /\ B!NotOvertaken /\ B!IndexedIsEarned
<1>1. PublicationInv' /\ WaitInv'
  BY WholeStep, WaitStep DEF StagesInv
<1>2. CASE Outside
  <2>1. Deferring' /\ Growing' /\ B!NotOvertaken
    BY <1>2, OutsideDefers DEF StagesInv
  <2>2. Earning' /\ B!IndexedIsEarned
    BY <1>2, QuietEarns, LoadsEarns, EndsEarns, ReloadsEarns DEF StagesInv, Outside
  <2>. QED BY <1>1, <2>1, <2>2 DEF StagesInv
<1>3. CASE \E b \in StageBuilds : B!BuildEnds(b[1], b[2], b[3])
  <2>1. PICK b \in StageBuilds : B!BuildEnds(b[1], b[2], b[3])
    BY <1>3
  <2>2. b[1] \in PhaseNames
    BY BuildsAreOfPhases DEF PhaseNames
  <2>. QED BY <1>1, <2>1, <2>2, BuildDefers, BuildEarns DEF StagesInv
<1>4. CASE B!Worker \/ B!WorkerFails
  BY <1>1, <1>4, WorkerDefers, WorkerEarns DEF StagesInv
<1>5. CASE B!Answer \/ B!Resume
  BY <1>1, <1>5, AnswerDefers, AnswerEarns DEF StagesInv
<1>6. CASE (\E p : B!BuildStarts(p)) \/ B!BuildFails
  <2>1. /\ UNCHANGED <<clangdCdb, frozen, artifacts, selectedStage, barrier, reader, stray>>
        /\ publishing'.stage \in {"idle", "building"}
    BY <1>6, BuildQuiet
  <2>2. Deferring' /\ Growing' /\ B!NotOvertaken
    BY <2>1 DEF Deferring, Growing, B!NotOvertaken
  <2>3. Earning' /\ B!IndexedIsEarned
    BY <2>1, EarnsStill, NothingIndexed DEF StagesInv, Earning
  <2>. QED BY <1>1, <2>2, <2>3 DEF StagesInv
<1>. QED BY <1>2, <1>3, <1>4, <1>5, <1>6, StagesSplit

LEMMA StagesInit == B!Init => StagesInv
<1> SUFFICES ASSUME B!Init PROVE StagesInv
  OBVIOUS
<1>1. PublicationInv
  BY InitWhole
<1>2. WaitInv
  BY IdleIs DEF B!Init, WaitInv, Standing, B!NobodyWaitsInVain, B!Pending
<1>3. ~B!Pending(barrier) /\ publishing.stage = "idle"
  BY IdleIs, NothingPending DEF B!Init
<1>4. IsReader(reader) /\ clangdCdb.stamp \in Nat
  BY DEF B!Init, IsReader
<1>. QED BY <1>1, <1>2, <1>3, <1>4 DEF StagesInv, Deferring, Growing, Earning

(* Stages reach clangd in order: a database that only grows by a later phase *)
(* waits for the barrier of the stage before; a stage counts as indexed when *)
(* its own reader has worked it off; and who waits has a deadline            *)
(* (_phase_barrier.lua, _publication_async.lua).                             *)
THEOREM StagesAlwaysInOrder == SpecAll => StagesInOrder
<1>1. InitAll => StagesInv
  BY StagesInit DEF InitAll
<1>2. StagesInv /\ [NextAll]_all => StagesInv' /\ [B!NotOvertaken /\ B!IndexedIsEarned /\ B!NobodyWaitsInVain']_all
  <2> SUFFICES ASSUME StagesInv, [NextAll]_all
               PROVE  StagesInv' /\ B!NotOvertaken /\ B!IndexedIsEarned /\ B!NobodyWaitsInVain'
    OBVIOUS
  <2>. QED BY StagesMove, StagesInvStep DEF StagesInv, WaitInv
<1>. QED BY <1>1, <1>2, PTL DEF SpecAll, StagesInOrder

-----------------------------------------------------------------------------
(* The gate that lets debugging on iOS be called working (DapProbe).       *)
(* The gate: what its parts are.                                            *)
RequestNames == {"initialize", "attach", "setBreakpoints", "configurationDone", "threads", "continue",
                 "stackTrace", "disconnect"}
(* A request, a response and an event of the debug adapter.                 *)
Requests == [name : RequestNames, seq : Nat]
Bodies == {"yes", "no", "none"}
Responses == [kind : {"response"}, seq : Nat, ok : BOOLEAN, body : Bodies]
Notices == [kind : {"event"}, name : {"process", "initialized", "output", "stopped"},
            body : Bodies \cup {"entry"} \cup D!Stops]
Messages == Responses \cup Notices
(* The fields of the probe, and of the device.                              *)
ProbeFields == {"pc", "seq", "wait", "attach", "attached", "stops", "deferred", "found", "facts"}
IsProbe(p) == DOMAIN p = ProbeFields /\ DOMAIN p.facts = DOMAIN D!NoFacts /\ p.seq \in Nat
IsDevice(d) == DOMAIN d = {"who", "held", "at", "hit"} /\ d.hit \in {"none", "frames", "top"}
(* The parts of the probe's world have their fields.                        *)
IosParts ==
    /\ DOMAIN adapter = {"up", "todo", "out", "attach"} /\ adapter.todo \in Seq(Requests)
    /\ adapter.out \in Seq(Messages) /\ adapter.attach \in Nat
    /\ DOMAIN inbox = {"answers", "events"} /\ inbox.answers \subseteq Responses
    /\ IsProbe(probe) /\ IsDevice(device)

(* The application, if it is still there, has stopped with the line in one  *)
(* of its frames.                                                           *)
Hit(d) == d.who = "app" => d.hit # "none"

(* Requests and answers carry numbers that were given out; the request that *)
(* a stack is waited for is that for a stack, and its answer is true.       *)
FitRequest(r, p) == r.seq <= p.seq /\ (p.pc = "stackTrace" /\ r.seq = p.wait => r.name = "stackTrace")
(* A response has a number that was given out; the one awaited that shows   *)
(* the frame was sent when the line had been hit, or the application gone.  *)
FitMessage(m, p, d) == m.kind = "response" =>
    m.seq <= p.seq /\ (p.pc = "stackTrace" /\ m.seq = p.wait /\ m.body = "yes" => Hit(d))
(* No request or answer has a number the probe has not given, and the answer*)
(* awaited to a stack trace is that request's.                              *)
Matched ==
    /\ \A i \in DOMAIN adapter.todo : FitRequest(adapter.todo[i], probe)
    /\ \A i \in DOMAIN adapter.out : FitMessage(adapter.out[i], probe, device)
    /\ \A m \in inbox.answers : FitMessage(m, probe, device)
    /\ adapter.attach <= probe.seq
    /\ probe.pc = "stackTrace" => probe.wait = probe.seq

(* What is taken to be seen was there.                                      *)
Seen == /\ D!AtLine(device.at) => Hit(device)
        /\ probe.facts.frame => Hit(device)

(* The steps of the gate, one after the other.                              *)
Driving == DOMAIN D!Listens \cup D!Waits \cup {"goodbye", "close"}
(* The steps after the adapter has gone.                                    *)
Debugging == {"cli", "cliLook", "cliDetach", "cliQuit", "survive"}
(* What the probe has learnt by the time it is at a step.                   *)
StepByStep == LET pc == probe.pc IN
    /\ pc \in Driving \cup Debugging \cup {"start", "identify", "end"}
    /\ pc \notin {"start", "end"} => host.files /\ host.match /\ host.dsym
    /\ pc \in Debugging => ~adapter.up /\ probe.facts.frame
    /\ pc \in {"cliDetach", "cliQuit", "survive"} => host.loaded
    /\ pc \in {"cliQuit", "survive"} => device.held = "none"

(* The inductive invariant of the probe.                                    *)
IosInv == IosParts /\ Matched /\ Seen /\ StepByStep

-----------------------------------------------------------------------------
(* The adapter.                                                             *)

(* A request is taken, and something is said.                               *)
Handled(ms) ==
    /\ DOMAIN adapter' = DOMAIN adapter /\ adapter'.up = adapter.up
    /\ adapter'.attach \in {adapter.attach, adapter.todo[1].seq}
    /\ adapter'.todo = Tail(adapter.todo) /\ adapter'.out = adapter.out \o ms

LEMMA OutHandles ==
  ASSUME IosParts, NEW ms, D!Out(ms)
  PROVE  Handled(ms)
BY DEF D!Out, IosParts, Handled

LEMMA AdapterOut ==
  ASSUME IosParts, adapter.todo # <<>>, NEW ms \in Seq(Messages), Handled(ms)
  PROVE  /\ adapter.todo[1] \in Requests /\ 1 \in DOMAIN adapter.todo
         /\ adapter'.todo \in Seq(Requests) /\ adapter'.out \in Seq(Messages)
         /\ \A i \in DOMAIN adapter'.todo : i + 1 \in DOMAIN adapter.todo /\ adapter'.todo[i] = adapter.todo[i + 1]
         /\ \A i \in DOMAIN adapter'.out : \/ i \in DOMAIN adapter.out /\ adapter'.out[i] = adapter.out[i]
                                           \/ \E k \in DOMAIN ms : adapter'.out[i] = ms[k]
<1>1. adapter'.todo = Tail(adapter.todo) /\ adapter'.out = adapter.out \o ms
  BY DEF Handled
<1> DEFINE todo == adapter.todo  out == adapter.out
<1>2. todo \in Seq(Requests) /\ out \in Seq(Messages) /\ todo # <<>>
  BY DEF IosParts
<1> HIDE DEF todo, out
<1>3. /\ todo[1] \in Requests /\ 1 \in DOMAIN todo /\ Tail(todo) \in Seq(Requests)
      /\ \A i \in DOMAIN Tail(todo) : i + 1 \in DOMAIN todo /\ Tail(todo)[i] = todo[i + 1]
  BY <1>2
<1>4. /\ out \o ms \in Seq(Messages)
      /\ \A i \in DOMAIN (out \o ms) : \/ i \in DOMAIN out /\ (out \o ms)[i] = out[i]
                                       \/ \E k \in DOMAIN ms : (out \o ms)[i] = ms[k]
  <2>1. Len(out \o ms) = Len(out) + Len(ms) /\ out \o ms \in Seq(Messages)
    BY <1>2
  <2>2. ASSUME NEW i \in DOMAIN (out \o ms)
        PROVE  \/ i \in DOMAIN out /\ (out \o ms)[i] = out[i]
               \/ \E k \in DOMAIN ms : (out \o ms)[i] = ms[k]
    <3>1. i \in 1..(Len(out) + Len(ms)) /\ Len(out) \in Nat /\ Len(ms) \in Nat
      BY <1>2, <2>1, <2>2
    <3>2. CASE i <= Len(out)
      BY <1>2, <3>1, <3>2
    <3>3. CASE i > Len(out)
      <4>1. i - Len(out) \in DOMAIN ms /\ (out \o ms)[i] = ms[i - Len(out)]
        BY <1>2, <3>1, <3>3
      <4>. QED BY <4>1
    <3>. QED BY <3>1, <3>2, <3>3
  <2>. QED BY <2>1, <2>2
<1>. QED BY <1>1, <1>3, <1>4 DEF todo, out

(* The device goes on; what was hit stays hit.                              *)
DeviceGoes == /\ IsDevice(device') /\ (Hit(device) => Hit(device'))
              /\ D!AtLine(device'.at) => D!AtLine(device.at) \/ Hit(device')

LEMMA MessagesStay ==
  ASSUME NEW m, NEW p, NEW d, NEW e, FitMessage(m, p, d), Hit(d) => Hit(e)
  PROVE  FitMessage(m, p, e)
BY DEF FitMessage

LEMMA AdapterHandles ==
  ASSUME IosInv, adapter.up, adapter.todo # <<>>, NEW ms \in Seq(Messages), Handled(ms),
         \A k \in DOMAIN ms : FitMessage(ms[k], probe, device),
         DeviceGoes, UNCHANGED <<host, inbox, probe>>
  PROVE  IosInv'
<1>1. /\ adapter.todo[1] \in Requests /\ 1 \in DOMAIN adapter.todo
      /\ adapter'.todo \in Seq(Requests) /\ adapter'.out \in Seq(Messages)
      /\ \A i \in DOMAIN adapter'.todo : i + 1 \in DOMAIN adapter.todo /\ adapter'.todo[i] = adapter.todo[i + 1]
      /\ \A i \in DOMAIN adapter'.out : \/ i \in DOMAIN adapter.out /\ adapter'.out[i] = adapter.out[i]
                                        \/ \E k \in DOMAIN ms : adapter'.out[i] = ms[k]
  BY AdapterOut DEF IosInv
<1>2. adapter.todo[1].seq \in Nat /\ adapter.todo[1].seq <= probe.seq
  BY <1>1 DEF IosInv, Matched, FitRequest, Requests
<1>3. adapter'.attach \in Nat /\ adapter'.attach <= probe.seq
  BY <1>2 DEF Handled, IosInv, IosParts, Matched
<1>4. IosParts'
  <2>1. DOMAIN adapter' = {"up", "todo", "out", "attach"}
    BY DEF Handled, IosInv, IosParts
  <2>. QED BY <1>1, <1>3, <2>1 DEF IosInv, IosParts, DeviceGoes
<1>5. \A i \in DOMAIN adapter'.todo : FitRequest(adapter'.todo[i], probe)
  BY <1>1 DEF IosInv, Matched
<1>6. \A i \in DOMAIN adapter'.out : FitMessage(adapter'.out[i], probe, device')
  <2>1. \A i \in DOMAIN adapter'.out : FitMessage(adapter'.out[i], probe, device)
    BY <1>1 DEF IosInv, Matched
  <2>. QED BY <2>1, MessagesStay DEF DeviceGoes
<1>7. \A m \in inbox.answers : FitMessage(m, probe, device')
  BY MessagesStay DEF IosInv, Matched, DeviceGoes
<1>8. Matched'
  BY <1>3, <1>5, <1>6, <1>7 DEF IosInv, Matched
<1>9. Seen'
  BY DEF IosInv, Seen, DeviceGoes
<1>10. StepByStep'
  <2>1. probe.pc \notin Debugging
    BY DEF IosInv, StepByStep
  <2>. QED BY <2>1 DEF IosInv, StepByStep, Debugging
<1>. QED BY <1>4, <1>8, <1>9, <1>10 DEF IosInv

(* The answers to the requests.                                             *)
LEMMA Kinds ==
  /\ \A seq \in Nat, ok \in BOOLEAN, body \in Bodies :
        /\ D!Answer(seq, ok, body) \in Messages
        /\ D!Answer(seq, ok, body).seq = seq /\ D!Answer(seq, ok, body).body = body
  /\ \A name \in {"process", "initialized", "output", "stopped"}, body \in Bodies \cup {"entry"} \cup D!Stops :
        D!Event(name, body) \in Messages /\ D!Event(name, body).kind = "event"
BY DEF D!Answer, D!Event, Messages, Responses, Notices

LEMMA OneOf ==
  ASSUME NEW m \in Messages
  PROVE  <<m>> \in Seq(Messages) /\ \A k \in DOMAIN <<m>> : <<m>>[k] = m
OBVIOUS

LEMMA CurrentFits ==
  ASSUME IosInv, adapter.todo # <<>>
  PROVE  /\ D!Current \in Requests /\ D!Current = adapter.todo[1]
         /\ FitRequest(D!Current, probe)
<1>1. adapter.todo \in Seq(Requests) /\ adapter.todo # <<>>
  BY DEF IosInv, IosParts
<1>2. 1 \in DOMAIN adapter.todo /\ adapter.todo[1] \in Requests
  BY <1>1
<1>. QED BY <1>2 DEF D!Current, IosInv, Matched

(* One answer, that is not of a stack unless it is that of a stack.         *)
LEMMA OneAnswer ==
  ASSUME IosInv, D!Handles(D!Current.name), NEW ok \in BOOLEAN, NEW body \in Bodies,
         D!Out(<<D!Answer(D!Current.seq, ok, body)>>),
         D!Current.name = "stackTrace" /\ body = "yes" => Hit(device),
         DeviceGoes, UNCHANGED <<host, inbox, probe>>
  PROVE  IosInv'
<1> DEFINE m == D!Answer(D!Current.seq, ok, body)
<1>1. adapter.up /\ adapter.todo # <<>>
  BY DEF D!Handles
<1>2. D!Current \in Requests /\ FitRequest(D!Current, probe)
  BY <1>1, CurrentFits
<1>3. D!Current.seq \in Nat
  BY <1>2 DEF Requests
<1>4. m \in Messages /\ m.seq = D!Current.seq /\ m.body = body
  BY <1>3, Kinds
<1>5. Handled(<<m>>)
  BY OutHandles DEF IosInv
<1> HIDE DEF m
<1>6. FitMessage(m, probe, device)
  BY <1>2, <1>4 DEF FitMessage, FitRequest
<1>7. \A k \in DOMAIN <<m>> : FitMessage(<<m>>[k], probe, device)
  BY <1>4, <1>6, OneOf
<1>8. <<m>> \in Seq(Messages)
  BY <1>4
<1>. QED BY <1>1, <1>5, <1>7, <1>8, AdapterHandles

LEMMA DeviceStays == ASSUME IosInv, device' = device PROVE DeviceGoes
BY DEF IosInv, IosParts, DeviceGoes

LEMMA ReleasedGoes == ASSUME IosInv, device' = D!Released PROVE DeviceGoes
<1>1. CASE D!Released = device
  BY <1>1, DeviceStays
<1>2. CASE D!Released = [device EXCEPT !.held = "none", !.at = "running"]
  <2>1. DOMAIN device' = DOMAIN device /\ device'.who = device.who /\ device'.hit = device.hit /\ device'.at = "running"
    BY <1>2 DEF IosInv, IosParts, IsDevice
  <2>. QED BY <2>1 DEF IosInv, IosParts, IsDevice, DeviceGoes, Hit, D!AtLine, D!AtTop
<1>. QED BY <1>1, <1>2 DEF D!Released

LEMMA SaysIs == \A fact \in BOOLEAN : D!Says(fact) \in Bodies /\ (D!Says(fact) = "yes" <=> fact)
BY DEF D!Says, Bodies

(* What is handled with one answer.                                         *)
LEMMA AnswersHold ==
  ASSUME IosInv, \/ D!Refuse \/ D!Initialize \/ D!SetBreakpoints \/ D!Threads \/ D!Continue
                 \/ D!StackTrace \/ D!Disconnect
  PROVE  IosInv'
<1>1. CASE D!Refuse
  <2>1. D!Handles(D!Current.name) /\ D!Out(<<D!Answer(D!Current.seq, FALSE, "none")>>)
        /\ UNCHANGED <<device, host, inbox, probe>>
    BY <1>1 DEF D!Refuse, D!Handles
  <2>. QED BY <2>1, DeviceStays, OneAnswer DEF Bodies
<1>2. CASE D!Initialize
  <2>1. D!Handles(D!Current.name) /\ D!Out(<<D!Answer(D!Current.seq, TRUE, "none")>>)
        /\ UNCHANGED <<device, host, inbox, probe>>
    BY <1>2 DEF D!Initialize, D!Handles, D!Idle
  <2>. QED BY <2>1, DeviceStays, OneAnswer DEF Bodies
<1>3. CASE D!SetBreakpoints
  <2>1. PICK verified \in BOOLEAN : D!Out(<<D!Answer(D!Current.seq, TRUE, D!Says(verified))>>)
    BY <1>3 DEF D!SetBreakpoints
  <2>2. D!Handles(D!Current.name) /\ D!Current.name # "stackTrace" /\ UNCHANGED <<device, host, inbox, probe>>
    BY <1>3 DEF D!SetBreakpoints, D!Handles, D!Idle
  <2>. QED BY <2>1, <2>2, DeviceStays, SaysIs, OneAnswer
<1>4. CASE D!Threads
  <2>1. /\ D!Handles(D!Current.name) /\ D!Current.name # "stackTrace" /\ UNCHANGED <<device, host, inbox, probe>>
        /\ D!Out(<<D!Answer(D!Current.seq, TRUE, D!Says(D!Holds))>>) /\ D!Holds \in BOOLEAN
    BY <1>4 DEF D!Threads, D!Handles, D!Idle, D!Holds
  <2>. QED BY <2>1, DeviceStays, SaysIs, OneAnswer
<1>5. CASE D!Continue
  <2>1. /\ D!Handles(D!Current.name) /\ UNCHANGED <<host, inbox, probe>>
        /\ D!Out(<<D!Answer(D!Current.seq, D!Holds, "none")>>) /\ D!Holds \in BOOLEAN
    BY <1>5 DEF D!Continue, D!Handles, D!Idle, D!Holds
  <2>2. ASSUME device' = device PROVE DeviceGoes
    BY <2>2, DeviceStays
  <2>3. ASSUME device' = [device EXCEPT !.at = "running"] PROVE DeviceGoes
    <3>1. DOMAIN device' = DOMAIN device /\ device'.who = device.who /\ device'.hit = device.hit /\ device'.at = "running"
      BY <2>3 DEF IosInv, IosParts, IsDevice
    <3>. QED BY <3>1 DEF IosInv, IosParts, IsDevice, DeviceGoes, Hit, D!AtLine, D!AtTop
  <2>4. DeviceGoes
    BY <1>5, <2>2, <2>3 DEF D!Continue
  <2>. QED BY <2>1, <2>4, OneAnswer DEF Bodies
<1>6. CASE D!StackTrace
  <2> DEFINE there == D!AtLine(device.at)
  <2>1. /\ D!Handles(D!Current.name) /\ UNCHANGED <<device, host, inbox, probe>>
        /\ D!Out(<<D!Answer(D!Current.seq, D!Holds /\ device.at # "running", D!Says(there))>>)
        /\ (D!Holds /\ device.at # "running") \in BOOLEAN /\ there \in BOOLEAN
    BY <1>6 DEF D!StackTrace, D!Handles, D!Idle, D!AtLine, D!AtTop, D!Holds
  <2>2. there => Hit(device)
    BY DEF IosInv, Seen
  <2> HIDE DEF there
  <2>. QED BY <2>1, <2>2, DeviceStays, SaysIs, OneAnswer
<1>7. CASE D!Disconnect
  <2>1. D!Handles(D!Current.name) /\ D!Out(<<D!Answer(D!Current.seq, TRUE, "none")>>)
        /\ UNCHANGED <<host, inbox, probe>> /\ device' = D!Released
    BY <1>7 DEF D!Disconnect, D!Handles, D!Idle
  <2>. QED BY <2>1, ReleasedGoes, OneAnswer DEF Bodies
<1>. QED BY <1>1, <1>2, <1>3, <1>4, <1>5, <1>6, <1>7

LEMMA NoticeFits ==
  ASSUME NEW m, m.kind = "event", NEW p, NEW d
  PROVE  FitMessage(m, p, d)
BY DEF FitMessage

LEMMA AttachHolds ==
  ASSUME IosInv, D!Attach
  PROVE  IosInv'
<1>1. /\ D!Handles(D!Current.name) /\ adapter.up /\ adapter.todo # <<>> /\ UNCHANGED <<host, inbox, probe>>
  BY DEF D!Attach, D!Handles, D!Idle
<1>2. CASE D!Out(<<D!Answer(D!Current.seq, FALSE, "none")>>) /\ UNCHANGED device
  BY <1>1, <1>2, DeviceStays, OneAnswer DEF Bodies
<1> DEFINE loaded == D!Says(host.loaded /\ device.who = "app")
           ms == <<D!Event("process", "none"), D!Event("initialized", "none"), D!Event("output", loaded)>>
<1>3. CASE /\ adapter' = [adapter EXCEPT !.todo = Tail(@), !.attach = D!Current.seq, !.out = @ \o ms]
           /\ device' = [device EXCEPT !.held = "dap", !.at = "entry"]
  <2>1. loaded \in Bodies
    BY SaysIs
  <2> HIDE DEF loaded
  <2>2. /\ D!Event("process", "none") \in Messages /\ D!Event("process", "none").kind = "event"
        /\ D!Event("initialized", "none") \in Messages /\ D!Event("initialized", "none").kind = "event"
        /\ D!Event("output", loaded) \in Messages /\ D!Event("output", loaded).kind = "event"
    BY <2>1, Kinds DEF Bodies
  <2>3. ms \in Seq(Messages) /\ \A k \in DOMAIN ms : ms[k].kind = "event"
    BY <2>2
  <2> HIDE DEF ms
  <2>4. \A k \in DOMAIN ms : FitMessage(ms[k], probe, device)
    BY <2>3, NoticeFits
  <2>5. Handled(ms)
    BY <1>3 DEF Handled, IosInv, IosParts, D!Current
  <2>6. DeviceGoes
    <3>1. DOMAIN device' = DOMAIN device /\ device'.who = device.who /\ device'.hit = device.hit /\ device'.at = "entry"
      BY <1>3 DEF IosInv, IosParts, IsDevice
    <3>. QED BY <3>1 DEF IosInv, IosParts, IsDevice, DeviceGoes, Hit, D!AtLine, D!AtTop
  <2>. QED BY <1>1, <2>3, <2>4, <2>5, <2>6, AdapterHandles
<1>. QED BY <1>2, <1>3 DEF D!Attach

LEMMA JoinedFit ==
  ASSUME NEW a \in Seq(Messages), NEW b \in Seq(Messages),
         \A k \in DOMAIN a : FitMessage(a[k], probe, device), \A k \in DOMAIN b : FitMessage(b[k], probe, device)
  PROVE  a \o b \in Seq(Messages) /\ \A k \in DOMAIN (a \o b) : FitMessage((a \o b)[k], probe, device)
<1>1. Len(a \o b) = Len(a) + Len(b) /\ a \o b \in Seq(Messages)
  OBVIOUS
<1>2. ASSUME NEW k \in DOMAIN (a \o b) PROVE FitMessage((a \o b)[k], probe, device)
  <2>1. k \in 1..(Len(a) + Len(b)) /\ Len(a) \in Nat /\ Len(b) \in Nat
    BY <1>1, <1>2
  <2>2. CASE k <= Len(a)
    <3>1. k \in DOMAIN a /\ (a \o b)[k] = a[k]
      BY <2>1, <2>2
    <3>. QED BY <3>1
  <2>3. CASE k > Len(a)
    <3>1. k - Len(a) \in DOMAIN b /\ (a \o b)[k] = b[k - Len(a)]
      BY <2>1, <2>3
    <3>. QED BY <3>1
  <2>. QED BY <2>1, <2>2, <2>3
<1>. QED BY <1>1, <1>2

LEMMA ConfigurationHolds ==
  ASSUME IosInv, D!ConfigurationDone
  PROVE  IosInv'
<1>1. /\ adapter.up /\ adapter.todo # <<>> /\ UNCHANGED <<device, host, inbox, probe>>
      /\ D!Current.name = "configurationDone"
  BY DEF D!ConfigurationDone, D!Handles, D!Idle
<1> DEFINE one == D!Answer(D!Current.seq, TRUE, "none")
           two == D!Answer(adapter.attach, TRUE, "none")
           entry == D!Event("stopped", "entry")
           more == IF D!Holds THEN <<entry>> ELSE <<>>
           ms == <<one, two>> \o more
<1>2. D!Current.seq \in Nat /\ D!Current.seq <= probe.seq /\ adapter.attach \in Nat /\ adapter.attach <= probe.seq
  BY <1>1, CurrentFits DEF FitRequest, Requests, IosInv, IosParts, Matched
<1>3. /\ one \in Messages /\ one.seq = D!Current.seq /\ one.body = "none"
      /\ two \in Messages /\ two.seq = adapter.attach /\ two.body = "none"
  BY <1>2, Kinds DEF Bodies
<1>4. entry \in Messages /\ entry.kind = "event"
  BY Kinds
<1>5. Handled(ms)
  BY OutHandles DEF D!ConfigurationDone, IosInv
<1> HIDE DEF one, two, entry
<1>6. FitMessage(one, probe, device) /\ FitMessage(two, probe, device) /\ FitMessage(entry, probe, device)
  BY <1>2, <1>3, <1>4 DEF FitMessage
<1>7. ms \in Seq(Messages) /\ \A k \in DOMAIN ms : FitMessage(ms[k], probe, device)
  <2>1. <<one, two>> \in Seq(Messages) /\ \A k \in DOMAIN <<one, two>> : FitMessage(<<one, two>>[k], probe, device)
    BY <1>3, <1>6
  <2>2. more \in Seq(Messages) /\ \A k \in DOMAIN more : FitMessage(more[k], probe, device)
    <3>1. <<entry>> \in Seq(Messages) /\ \A k \in DOMAIN <<entry>> : FitMessage(<<entry>>[k], probe, device)
      BY <1>4, <1>6
    <3>2. <<>> \in Seq(Messages) /\ DOMAIN <<>> = {}
      OBVIOUS
    <3>. QED BY <3>1, <3>2
  <2> HIDE DEF more
  <2>. QED BY <2>1, <2>2, JoinedFit
<1> HIDE DEF ms
<1>. QED BY <1>1, <1>5, <1>7, DeviceStays, AdapterHandles

-----------------------------------------------------------------------------
(* What happens by itself.                                                  *)

LEMMA WorldGoes ==
  ASSUME IosInv, DeviceGoes, UNCHANGED <<host, probe>>, IosParts',
         adapter'.up => adapter.up, adapter'.todo = adapter.todo, adapter'.attach = adapter.attach,
         \A i \in DOMAIN adapter'.out : FitMessage(adapter'.out[i], probe, device'),
         \A m \in inbox'.answers : FitMessage(m, probe, device'),
         probe.pc \in {"cliQuit", "survive"} => device'.held = "none"
  PROVE  IosInv'
<1>1. Matched'
  BY DEF IosInv, Matched
<1>2. Seen'
  BY DEF IosInv, Seen, DeviceGoes
<1>3. StepByStep'
  BY DEF IosInv, StepByStep
<1>. QED BY <1>1, <1>2, <1>3 DEF IosInv

LEMMA AppEndsHolds == ASSUME IosInv, D!AppEnds PROVE IosInv'
<1>1. PICK who \in {"gone", "other"} : device' = [device EXCEPT !.who = who, !.held = "none", !.at = "running"]
  BY DEF D!AppEnds
<1>2. /\ DOMAIN device' = DOMAIN device /\ device'.who = who /\ device'.hit = device.hit
      /\ device'.at = "running" /\ device'.held = "none"
  BY <1>1 DEF IosInv, IosParts, IsDevice
<1>3. DeviceGoes
  BY <1>2 DEF IosInv, IosParts, IsDevice, DeviceGoes, Hit, D!AtLine, D!AtTop
<1>4. UNCHANGED <<host, probe, adapter, inbox>>
  BY DEF D!AppEnds
<1>5. IosParts'
  BY <1>3, <1>4 DEF IosInv, IosParts, DeviceGoes
<1>6. /\ \A i \in DOMAIN adapter.out : FitMessage(adapter.out[i], probe, device')
      /\ \A m \in inbox.answers : FitMessage(m, probe, device')
  BY <1>3, MessagesStay DEF IosInv, Matched, DeviceGoes
<1>. QED BY <1>2, <1>3, <1>4, <1>5, <1>6, WorldGoes

LEMMA StopHolds == ASSUME IosInv, D!Stop PROVE IosInv'
<1>1. PICK at \in D!Stops :
        /\ device' = [device EXCEPT !.at = at, !.hit =
              IF device.who # "app" \/ ~D!AtLine(at) THEN @
              ELSE IF D!AtTop(at) \/ @ = "top" THEN "top" ELSE "frames"]
        /\ adapter' = [adapter EXCEPT !.out = Append(@, D!Event("stopped", at))]
  BY DEF D!Stop
<1>2. /\ DOMAIN device' = DOMAIN device /\ device'.who = device.who /\ device'.at = at
      /\ device'.hit = (IF device.who # "app" \/ ~D!AtLine(at) THEN device.hit
                        ELSE IF D!AtTop(at) \/ device.hit = "top" THEN "top" ELSE "frames")
      /\ device'.held = device.held
  BY <1>1 DEF IosInv, IosParts, IsDevice
<1>3. DeviceGoes
  BY <1>2 DEF IosInv, IosParts, IsDevice, DeviceGoes, Hit
<1>4. /\ UNCHANGED <<host, probe, inbox>> /\ adapter.up
  BY DEF D!Stop, D!Idle
<1> DEFINE m == D!Event("stopped", at)
<1>5. m \in Messages /\ m.kind = "event"
  BY Kinds
<1>6. /\ DOMAIN adapter' = DOMAIN adapter /\ adapter'.up = adapter.up /\ adapter'.todo = adapter.todo
      /\ adapter'.attach = adapter.attach /\ adapter'.out = Append(adapter.out, m)
  BY <1>1 DEF IosInv, IosParts
<1> HIDE DEF m
<1>7. /\ adapter'.out \in Seq(Messages)
      /\ \A i \in DOMAIN adapter'.out : \/ i \in DOMAIN adapter.out /\ adapter'.out[i] = adapter.out[i]
                                        \/ adapter'.out[i] = m
  BY <1>5, <1>6 DEF IosInv, IosParts
<1>8. IosParts'
  BY <1>3, <1>4, <1>6, <1>7 DEF IosInv, IosParts, DeviceGoes
<1>9. \A i \in DOMAIN adapter'.out : FitMessage(adapter'.out[i], probe, device')
  BY <1>3, <1>5, <1>7, NoticeFits, MessagesStay DEF IosInv, Matched, DeviceGoes
<1>10. \A k \in inbox.answers : FitMessage(k, probe, device')
  BY <1>3, MessagesStay DEF IosInv, Matched, DeviceGoes
<1>11. probe.pc \notin {"cliQuit", "survive"}
  BY <1>4 DEF IosInv, StepByStep, Debugging
<1>. QED BY <1>3, <1>4, <1>6, <1>8, <1>9, <1>10, <1>11, WorldGoes

LEMMA DieHolds == ASSUME IosInv, D!Die PROVE IosInv'
<1>1. /\ adapter.up /\ adapter' = [adapter EXCEPT !.up = FALSE] /\ UNCHANGED <<host, probe, inbox>>
      /\ device' \in {device, D!Released, [device EXCEPT !.who = "gone", !.held = "none"]}
  BY DEF D!Die
<1>2. DeviceGoes
  <2>1. CASE device' = [device EXCEPT !.who = "gone", !.held = "none"]
    <3>1. DOMAIN device' = DOMAIN device /\ device'.who = "gone" /\ device'.hit = device.hit
      BY <2>1 DEF IosInv, IosParts, IsDevice
    <3>. QED BY <3>1 DEF IosInv, IosParts, IsDevice, DeviceGoes, Hit
  <2>. QED BY <1>1, <2>1, DeviceStays, ReleasedGoes
<1>3. /\ DOMAIN adapter' = DOMAIN adapter /\ adapter'.todo = adapter.todo /\ ~adapter'.up
      /\ adapter'.attach = adapter.attach /\ adapter'.out = adapter.out
  BY <1>1 DEF IosInv, IosParts
<1>4. IosParts'
  BY <1>1, <1>2, <1>3 DEF IosInv, IosParts, DeviceGoes
<1>5. /\ \A i \in DOMAIN adapter.out : FitMessage(adapter.out[i], probe, device')
      /\ \A m \in inbox.answers : FitMessage(m, probe, device')
  BY <1>2, MessagesStay DEF IosInv, Matched, DeviceGoes
<1>6. probe.pc \notin {"cliQuit", "survive"}
  BY <1>1 DEF IosInv, StepByStep, Debugging
<1>. QED BY <1>1, <1>2, <1>3, <1>4, <1>5, <1>6, WorldGoes

LEMMA ReadHolds == ASSUME IosInv, D!ReadMessage PROVE IosInv'
<1> DEFINE m == adapter.out[1]
<1>1. /\ adapter.out # <<>> /\ adapter' = [adapter EXCEPT !.out = Tail(@)]
      /\ inbox' = IF m.kind = "response" THEN [inbox EXCEPT !.answers = @ \cup {m}]
                  ELSE [inbox EXCEPT !.events = Append(@, m)]
      /\ UNCHANGED <<host, device, probe>>
  BY DEF D!ReadMessage, D!world
<1>2. DeviceGoes
  BY <1>1, DeviceStays
<1>3. /\ DOMAIN adapter' = DOMAIN adapter /\ adapter'.todo = adapter.todo /\ adapter'.up = adapter.up
      /\ adapter'.attach = adapter.attach /\ adapter'.out = Tail(adapter.out)
  BY <1>1 DEF IosInv, IosParts
<1>4. /\ m \in Messages /\ 1 \in DOMAIN adapter.out /\ adapter'.out \in Seq(Messages)
      /\ \A i \in DOMAIN adapter'.out : i + 1 \in DOMAIN adapter.out /\ adapter'.out[i] = adapter.out[i + 1]
  BY <1>1, <1>3 DEF IosInv, IosParts
<1>5. FitMessage(m, probe, device)
  BY <1>4 DEF IosInv, Matched
<1>6. m.kind = "response" => m \in Responses
  BY <1>4 DEF Messages, Notices
<1> HIDE DEF m
<1>7. /\ DOMAIN inbox' = DOMAIN inbox
      /\ inbox'.answers \in {inbox.answers, inbox.answers \cup {m}}
      /\ inbox'.answers # inbox.answers => m \in Responses
  BY <1>1, <1>6 DEF IosInv, IosParts
<1>8. IosParts'
  BY <1>1, <1>3, <1>4, <1>7 DEF IosInv, IosParts
<1>9. /\ \A i \in DOMAIN adapter'.out : FitMessage(adapter'.out[i], probe, device')
      /\ \A k \in inbox'.answers : FitMessage(k, probe, device')
  BY <1>1, <1>4, <1>5, <1>7 DEF IosInv, Matched
<1>10. probe.pc \in {"cliQuit", "survive"} => device'.held = "none"
  BY <1>1 DEF IosInv, StepByStep
<1>. QED BY <1>1, <1>2, <1>3, <1>8, <1>9, <1>10, WorldGoes

-----------------------------------------------------------------------------
(* The probe drives the adapter: it takes answers and events, and goes on,  *)
(* with a request or without.                                               *)
Driven == /\ UNCHANGED <<host, device>>
          /\ DOMAIN inbox' = DOMAIN inbox /\ inbox'.answers \subseteq inbox.answers
(* The probe goes to a step, and asks the adapter for something or does not.*)
Goes(pc, sends) ==
    /\ IsProbe(probe') /\ probe'.pc = pc /\ (probe'.facts.frame => Hit(device))
    /\ IF sends
       THEN /\ probe'.seq = probe.seq + 1 /\ probe'.wait = probe.seq + 1
            /\ \E name \in RequestNames :
                  /\ adapter' = [adapter EXCEPT !.todo = Append(@, [name |-> name, seq |-> probe.seq + 1])]
                  /\ pc = "stackTrace" => name = "stackTrace"
       ELSE probe'.seq = probe.seq /\ pc # "stackTrace" /\ adapter' = adapter

LEMMA DrivenHolds ==
  ASSUME IosInv, probe.pc \in Driving, Driven, NEW pc \in Driving, NEW sends \in BOOLEAN, Goes(pc, sends)
  PROVE  IosInv'
<1>1. probe.seq \in Nat /\ probe'.seq \in Nat /\ probe.seq <= probe'.seq
      /\ (probe'.pc = "stackTrace" => probe'.seq = probe.seq + 1 /\ probe'.wait = probe'.seq)
  BY DEF Goes, IosInv, IosParts, IsProbe
<1>2. /\ DOMAIN adapter' = DOMAIN adapter /\ adapter'.out = adapter.out /\ adapter'.attach = adapter.attach
      /\ adapter'.up = adapter.up
  <2>1. CASE adapter' = adapter
    BY <2>1
  <2>2. CASE \E r : adapter' = [adapter EXCEPT !.todo = Append(@, r)]
    BY <2>2 DEF IosInv, IosParts
  <2>. QED BY <2>1, <2>2 DEF Goes
<1>3. /\ adapter'.todo \in Seq(Requests)
      /\ \A i \in DOMAIN adapter'.todo : FitRequest(adapter'.todo[i], probe')
  <2>1. ASSUME NEW r \in Requests, r.seq <= probe.seq PROVE FitRequest(r, probe')
    BY <1>1, <2>1 DEF FitRequest, Requests
  <2>2. \A i \in DOMAIN adapter.todo : adapter.todo[i] \in Requests /\ adapter.todo[i].seq <= probe.seq
    BY DEF IosInv, IosParts, Matched, FitRequest
  <2>3. CASE adapter' = adapter
    BY <2>1, <2>2, <2>3 DEF IosInv, IosParts
  <2>4. CASE \E name \in RequestNames :
                  /\ adapter' = [adapter EXCEPT !.todo = Append(@, [name |-> name, seq |-> probe.seq + 1])]
                  /\ pc = "stackTrace" => name = "stackTrace"
             /\ sends
    <3>1. PICK name \in RequestNames :
                  /\ adapter' = [adapter EXCEPT !.todo = Append(@, [name |-> name, seq |-> probe.seq + 1])]
                  /\ pc = "stackTrace" => name = "stackTrace"
      BY <2>4
    <3> DEFINE r == [name |-> name, seq |-> probe.seq + 1]
    <3>2. r \in Requests /\ r.name = name /\ r.seq = probe.seq + 1
      BY <1>1 DEF Requests
    <3>3. adapter'.todo = Append(adapter.todo, r)
      BY <3>1 DEF IosInv, IosParts
    <3> HIDE DEF r
    <3>4. FitRequest(r, probe')
      <4>1. probe'.pc = pc /\ probe'.seq = probe.seq + 1
        BY <2>4 DEF Goes
      <4>. QED BY <1>1, <3>1, <3>2, <4>1 DEF FitRequest
    <3>5. /\ adapter'.todo \in Seq(Requests)
          /\ \A i \in DOMAIN adapter'.todo : \/ i \in DOMAIN adapter.todo /\ adapter'.todo[i] = adapter.todo[i]
                                             \/ adapter'.todo[i] = r
      BY <3>2, <3>3 DEF IosInv, IosParts
    <3>. QED BY <2>1, <2>2, <3>4, <3>5
  <2>. QED BY <2>3, <2>4 DEF Goes
<1>4. ASSUME NEW m, FitMessage(m, probe, device), m.kind = "response" => m.seq \in Nat
      PROVE  FitMessage(m, probe', device)
  BY <1>1, <1>4 DEF FitMessage
<1>5. \A i \in DOMAIN adapter.out : adapter.out[i].kind = "response" => adapter.out[i].seq \in Nat
  <2>1. \A m \in Messages : m.kind = "response" => m.seq \in Nat
    BY DEF Messages, Responses, Notices
  <2>. QED BY <2>1 DEF IosInv, IosParts
<1>6. \A i \in DOMAIN adapter.out : FitMessage(adapter.out[i], probe', device)
  BY <1>4, <1>5 DEF IosInv, Matched
<1>7. \A m \in inbox.answers : FitMessage(m, probe', device)
  <2>1. \A m \in inbox.answers : m.seq \in Nat
    BY DEF IosInv, IosParts, Responses
  <2>. QED BY <1>4, <2>1 DEF IosInv, Matched
<1>8. adapter.attach <= probe'.seq
  BY <1>1 DEF IosInv, IosParts, Matched
<1>9. Matched'
  BY <1>1, <1>2, <1>3, <1>6, <1>7, <1>8 DEF Matched, Driven
<1>10. IosParts'
  BY <1>2, <1>3 DEF IosInv, IosParts, Driven, Goes
<1>11. Seen'
  BY DEF IosInv, Seen, Driven, Goes
<1>12. StepByStep'
  <2>1. probe.pc \notin {"start", "end"} /\ probe'.pc \in Driving
    BY DEF Driving, D!Listens, D!Waits, Goes
  <2>2. probe'.pc \notin Debugging /\ probe'.pc \notin {"cliDetach", "cliQuit", "survive"}
    BY <2>1 DEF Driving, D!Listens, D!Waits, Debugging
  <2>. QED BY <2>1, <2>2 DEF IosInv, StepByStep, Driven
<1>. QED BY <1>9, <1>10, <1>11, <1>12 DEF IosInv

(* What the probe is while it drives.                                       *)
Fit(p) == IsProbe(p) /\ p.seq = probe.seq /\ (p.facts.frame => Hit(device))

LEMMA SendGoes ==
  ASSUME IosInv, NEW p, Fit(p), NEW name \in RequestNames, NEW pc \in Driving, D!Send(p, name, pc),
         pc = "stackTrace" => name = "stackTrace"
  PROVE  Goes(pc, TRUE)
<1>1. probe' = [p EXCEPT !.pc = pc, !.seq = @ + 1, !.wait = p.seq + 1, !.found = "nothing"]
  BY DEF D!Send, D!Sent
<1>2. /\ DOMAIN probe' = ProbeFields /\ probe'.pc = pc /\ probe'.seq = probe.seq + 1 /\ probe'.wait = probe.seq + 1
      /\ probe'.facts = p.facts
  BY <1>1 DEF Fit, IsProbe, ProbeFields
<1>3. adapter' = [adapter EXCEPT !.todo = Append(@, [name |-> name, seq |-> probe.seq + 1])]
  BY DEF D!Send, Fit
<1>4. probe.seq + 1 \in Nat
  BY DEF IosInv, IosParts, IsProbe
<1>. QED BY <1>2, <1>3, <1>4 DEF Goes, Fit, IsProbe

LEMMA MoveGoes ==
  ASSUME NEW p, Fit(p), NEW pc \in Driving, pc # "stackTrace", UNCHANGED adapter,
         DOMAIN probe' = DOMAIN p, probe'.pc = pc, probe'.seq = p.seq, DOMAIN probe'.facts = DOMAIN p.facts,
         probe'.facts.frame = p.facts.frame
  PROVE  Goes(pc, FALSE)
BY DEF Goes, Fit, IsProbe

(* A step of the probe while the adapter is up.                             *)
Drives == \E pc \in Driving, sends \in BOOLEAN : Goes(pc, sends)

LEMMA AbandonDrives ==
  ASSUME IosInv, NEW p, Fit(p), D!Abandon(p)
  PROVE  Drives
<1>1. CASE D!Send(p, "disconnect", "goodbye")
  BY <1>1, SendGoes DEF Drives, Driving, RequestNames
<1>2. CASE probe' = [p EXCEPT !.pc = "close"] /\ UNCHANGED adapter
  <2>1. /\ DOMAIN probe' = DOMAIN p /\ probe'.pc = "close" /\ probe'.seq = p.seq /\ probe'.facts = p.facts
    BY <1>2 DEF Fit, IsProbe, ProbeFields
  <2>2. "close" \in Driving
    BY DEF Driving
  <2>3. Goes("close", FALSE)
    BY <1>2, <2>1, <2>2, MoveGoes
  <2>. QED BY <2>2, <2>3 DEF Drives
<1>. QED BY <1>1, <1>2 DEF D!Abandon

LEMMA ReasonFits ==
  ASSUME NEW p, Fit(p), NEW stop, NEW q,
         \/ q = [p EXCEPT !.facts.reason = stop]
         \/ q = [p EXCEPT !.stops = @ + 1, !.facts.reason = stop]
         \/ q = [p EXCEPT !.facts.loaded = TRUE]
         \/ q = [p EXCEPT !.facts.verified = stop]
  PROVE  Fit(q) /\ DOMAIN q = DOMAIN p
<1>1. DOMAIN p = ProbeFields /\ DOMAIN p.facts = {"loaded", "verified", "reason", "frame", "ack"}
  BY DEF Fit, IsProbe, D!NoFacts
<1>2. /\ DOMAIN q = DOMAIN p /\ q.seq = p.seq
      /\ \/ q.facts = [p.facts EXCEPT !.reason = stop] \/ q.facts = [p.facts EXCEPT !.loaded = TRUE]
         \/ q.facts = [p.facts EXCEPT !.verified = stop]
  BY <1>1 DEF ProbeFields
<1>3. DOMAIN q.facts = DOMAIN p.facts /\ q.facts.frame = p.facts.frame
  BY <1>1, <1>2
<1>. QED BY <1>2, <1>3 DEF Fit, IsProbe

LEMMA ConsiderDrives ==
  ASSUME IosInv, NEW p, Fit(p), NEW stop, D!Consider(p, stop)
  PROVE  Drives
<1>1. CASE D!Ask([p EXCEPT !.facts.reason = stop], "stackTrace")
  <2>1. Fit([p EXCEPT !.facts.reason = stop])
    BY ReasonFits
  <2>2. "stackTrace" \in Driving /\ "stackTrace" \in RequestNames
    BY DEF Driving, D!Waits, RequestNames
  <2>3. Goes("stackTrace", TRUE)
    BY <1>1, <2>1, <2>2, SendGoes DEF D!Ask
  <2>. QED BY <2>2, <2>3 DEF Drives
<1>2. CASE D!Ask([p EXCEPT !.stops = @ + 1, !.facts.reason = stop], "continue")
  <2>1. Fit([p EXCEPT !.stops = @ + 1, !.facts.reason = stop])
    BY ReasonFits
  <2>2. "continue" \in Driving /\ "continue" \in RequestNames
    BY DEF Driving, D!Waits, RequestNames
  <2>3. Goes("continue", TRUE)
    BY <1>2, <2>1, <2>2, SendGoes DEF D!Ask
  <2>. QED BY <2>2, <2>3 DEF Drives
<1>. QED BY <1>1, <1>2, AbandonDrives DEF D!Consider

(* The answer to a request for a stack tells the truth; others say nothing  *)
(* about it.                                                                *)
LEMMA FollowDrives ==
  ASSUME IosInv, probe.pc \in D!Waits, NEW body, probe.pc = "stackTrace" /\ body = "yes" => Hit(device),
         D!Follow(probe, body)
  PROVE  Drives
<1>1. Fit(probe)
  BY DEF IosInv, IosParts, Seen, Fit
<1>2. DOMAIN probe = ProbeFields /\ DOMAIN probe.facts = {"loaded", "verified", "reason", "frame", "ack"}
  BY DEF IosInv, IosParts, IsProbe, D!NoFacts
<1>3. \A name \in RequestNames : name \in D!Waits \/ name = "attach"
  BY DEF RequestNames, D!Waits
<1>4. CASE probe.pc = "initialize"
  <2> DEFINE q == [probe EXCEPT !.attach = probe.seq + 1]
  <2>1. DOMAIN q = DOMAIN probe /\ q.seq = probe.seq /\ q.facts = probe.facts
    BY <1>2 DEF ProbeFields
  <2>2. Fit(q)
    BY <1>1, <2>1 DEF Fit, IsProbe
  <2>3. D!Send(q, "attach", "initialized")
    BY <1>4 DEF D!Follow
  <2> HIDE DEF q
  <2>4. "initialized" \in Driving /\ "attach" \in RequestNames
    BY DEF Driving, D!Listens, RequestNames
  <2>5. Goes("initialized", TRUE)
    BY <2>2, <2>3, <2>4, SendGoes
  <2>. QED BY <2>4, <2>5 DEF Drives
<1>5. CASE probe.pc = "setBreakpoints"
  <2> DEFINE said == body = "yes"
             q == [probe EXCEPT !.facts.verified = said]
  <2>1. D!Send(q, "configurationDone", "configurationDone")
    BY <1>5 DEF D!Follow, D!Ask
  <2> HIDE DEF said
  <2>2. Fit(q)
    BY <1>1, ReasonFits
  <2> HIDE DEF q
  <2>3. "configurationDone" \in Driving /\ "configurationDone" \in RequestNames
    BY DEF Driving, D!Waits, RequestNames
  <2>4. Goes("configurationDone", TRUE)
    BY <2>1, <2>2, <2>3, SendGoes
  <2>. QED BY <2>3, <2>4 DEF Drives
<1>6. CASE probe.pc = "configurationDone"
  <2>1. probe' = [probe EXCEPT !.pc = "attach", !.wait = probe.attach] /\ UNCHANGED adapter
    BY <1>6 DEF D!Follow
  <2>2. DOMAIN probe' = DOMAIN probe /\ probe'.pc = "attach" /\ probe'.seq = probe.seq /\ probe'.facts = probe.facts
    BY <1>2, <2>1 DEF ProbeFields
  <2>3. "attach" \in Driving
    BY DEF Driving, D!Waits
  <2>4. Goes("attach", FALSE)
    BY <1>1, <2>1, <2>2, <2>3, MoveGoes
  <2>. QED BY <2>3, <2>4 DEF Drives
<1>7. CASE probe.pc = "attach"
  <2>1. probe' = [probe EXCEPT !.pc = "entry"] /\ UNCHANGED adapter
    BY <1>7 DEF D!Follow
  <2>2. DOMAIN probe' = DOMAIN probe /\ probe'.pc = "entry" /\ probe'.seq = probe.seq /\ probe'.facts = probe.facts
    BY <1>2, <2>1 DEF ProbeFields
  <2>3. "entry" \in Driving
    BY DEF Driving, D!Listens
  <2>4. Goes("entry", FALSE)
    BY <1>1, <2>1, <2>2, <2>3, MoveGoes
  <2>. QED BY <2>3, <2>4 DEF Drives
<1>8. CASE probe.pc = "threads"
  <2>1. D!Consider(probe, probe.facts.reason)
    BY <1>8 DEF D!Follow
  <2>. QED BY <1>1, <2>1, ConsiderDrives
<1>9. CASE probe.pc = "continue"
  <2>1. probe' = [probe EXCEPT !.pc = "stopped"] /\ UNCHANGED adapter
    BY <1>9 DEF D!Follow
  <2>2. DOMAIN probe' = DOMAIN probe /\ probe'.pc = "stopped" /\ probe'.seq = probe.seq /\ probe'.facts = probe.facts
    BY <1>2, <2>1 DEF ProbeFields
  <2>3. "stopped" \in Driving
    BY DEF Driving, D!Listens
  <2>4. Goes("stopped", FALSE)
    BY <1>1, <2>1, <2>2, <2>3, MoveGoes
  <2>. QED BY <2>3, <2>4 DEF Drives
<1>10. CASE probe.pc = "stackTrace"
  <2> DEFINE said == body = "yes"
             q == [probe EXCEPT !.facts.frame = said]
  <2>1. D!Send(q, "disconnect", "disconnect")
    BY <1>10 DEF D!Follow, D!Ask
  <2>2. said => Hit(device)
    BY <1>10
  <2> HIDE DEF said
  <2>3. DOMAIN q = DOMAIN probe /\ q.seq = probe.seq /\ q.facts = [probe.facts EXCEPT !.frame = said]
    BY <1>2 DEF ProbeFields
  <2> HIDE DEF q
  <2>4. DOMAIN q.facts = DOMAIN probe.facts /\ q.facts.frame = said
    BY <1>2, <2>3
  <2>5. Fit(q)
    BY <1>1, <2>2, <2>3, <2>4 DEF Fit, IsProbe
  <2>6. "disconnect" \in Driving /\ "disconnect" \in RequestNames
    BY DEF Driving, D!Waits, RequestNames
  <2>7. Goes("disconnect", TRUE)
    BY <2>1, <2>5, <2>6, SendGoes
  <2>. QED BY <2>6, <2>7 DEF Drives
<1>11. CASE probe.pc = "disconnect"
  <2>1. probe' = [probe EXCEPT !.pc = "close", !.facts.ack = TRUE] /\ UNCHANGED adapter
    BY <1>11 DEF D!Follow
  <2>2. /\ DOMAIN probe' = DOMAIN probe /\ probe'.pc = "close" /\ probe'.seq = probe.seq
        /\ probe'.facts = [probe.facts EXCEPT !.ack = TRUE]
    BY <1>2, <2>1 DEF ProbeFields
  <2>3. DOMAIN probe'.facts = DOMAIN probe.facts /\ probe'.facts.frame = probe.facts.frame
    BY <1>2, <2>2
  <2>4. "close" \in Driving
    BY DEF Driving
  <2>5. Goes("close", FALSE)
    BY <1>1, <2>1, <2>2, <2>3, <2>4, MoveGoes
  <2>. QED BY <2>4, <2>5 DEF Drives
<1>. QED BY <1>4, <1>5, <1>6, <1>7, <1>8, <1>9, <1>10, <1>11 DEF D!Waits

LEMMA DrivesHold ==
  ASSUME IosInv, probe.pc \in Driving, Driven, Drives
  PROVE  IosInv'
BY DrivenHolds DEF Drives

LEMMA AnsweredHolds == ASSUME IosInv, D!Answered PROVE IosInv'
<1>1. PICK answer \in D!Replies(probe.wait) :
          /\ inbox' = [inbox EXCEPT !.answers = @ \ {answer}]
          /\ IF answer.ok THEN D!Follow(probe, answer.body) ELSE D!Abandon(probe)
  BY DEF D!Answered
<1>2. Driven /\ probe.pc \in D!Waits /\ probe.pc \in Driving
  BY <1>1 DEF D!Answered, D!world, Driven, Driving, IosInv, IosParts
<1>3. answer \in inbox.answers /\ answer.seq = probe.wait
  BY DEF D!Replies
<1>4. answer.kind = "response" /\ FitMessage(answer, probe, device)
  BY <1>3 DEF IosInv, IosParts, Matched, Responses
<1>5. probe.pc = "stackTrace" /\ answer.body = "yes" => Hit(device)
  BY <1>3, <1>4 DEF FitMessage
<1>6. Drives
  <2>1. Fit(probe)
    BY DEF IosInv, IosParts, Seen, Fit
  <2>. QED BY <1>1, <1>2, <1>5, <2>1, FollowDrives, AbandonDrives
<1>. QED BY <1>2, <1>6, DrivesHold

LEMMA CalmFits ==
  ASSUME IosInv
  PROVE  /\ Fit(D!Calm(probe)) /\ D!Calm(probe).pc = probe.pc /\ DOMAIN D!Calm(probe) = ProbeFields
         /\ D!Calm(probe).facts = probe.facts
<1>1. DOMAIN probe = ProbeFields
  BY DEF IosInv, IosParts, IsProbe
<1>2. /\ DOMAIN D!Calm(probe) = ProbeFields /\ D!Calm(probe).pc = probe.pc /\ D!Calm(probe).seq = probe.seq
      /\ D!Calm(probe).facts = probe.facts
  BY <1>1 DEF D!Calm, ProbeFields
<1>. QED BY <1>2 DEF IosInv, IosParts, IsProbe, Seen, Fit

LEMMA PutBackDrives ==
  ASSUME IosInv, D!PutBack, UNCHANGED D!world
  PROVE  Driven
BY DEF D!PutBack, D!world, Driven, IosInv, IosParts

LEMMA HeardHolds == ASSUME IosInv, D!Heard PROVE IosInv'
<1> DEFINE p == D!Calm(probe)  body == probe.found
           step(pc) == probe' = [p EXCEPT !.pc = pc, !.found = "nothing", !.attached = TRUE] /\ UNCHANGED adapter
<1>1. Driven /\ probe.pc \in DOMAIN D!Listens /\ probe.pc \in Driving
  BY PutBackDrives DEF D!Heard, Driving
<1>2. Fit(p) /\ p.pc = probe.pc /\ DOMAIN p = ProbeFields
  BY CalmFits
<1>3. CASE p.pc = "initialized"
  <2>1. step("marker")
    BY <1>3 DEF D!Heard
  <2> HIDE DEF p
  <2>2. DOMAIN probe' = DOMAIN p /\ probe'.pc = "marker" /\ probe'.seq = p.seq /\ probe'.facts = p.facts
    BY <1>2, <2>1 DEF ProbeFields
  <2>3. "marker" \in Driving
    BY DEF Driving, D!Listens
  <2>4. Goes("marker", FALSE)
    BY <1>2, <2>1, <2>2, <2>3, MoveGoes
  <2>5. Drives
    BY <2>3, <2>4 DEF Drives
  <2>. QED BY <1>1, <2>5, DrivesHold
<1>4. CASE p.pc = "marker"
  <2>1. D!Ask([p EXCEPT !.facts.loaded = TRUE], "setBreakpoints") \/ D!Abandon(p)
    BY <1>4 DEF D!Heard
  <2> HIDE DEF p
  <2>2. Fit([p EXCEPT !.facts.loaded = TRUE])
    BY <1>2, ReasonFits
  <2>3. "setBreakpoints" \in Driving /\ "setBreakpoints" \in RequestNames
    BY DEF Driving, D!Waits, RequestNames
  <2>4. D!Ask([p EXCEPT !.facts.loaded = TRUE], "setBreakpoints") => Goes("setBreakpoints", TRUE)
    BY <2>2, <2>3, SendGoes DEF D!Ask
  <2>5. Drives
    BY <1>2, <2>1, <2>3, <2>4, AbandonDrives DEF Drives
  <2>. QED BY <1>1, <2>5, DrivesHold
<1>5. CASE p.pc = "entry"
  <2>1. D!Ask([p EXCEPT !.facts.reason = body], "threads")
    BY <1>5 DEF D!Heard
  <2> HIDE DEF p, body
  <2>2. Fit([p EXCEPT !.facts.reason = body])
    BY <1>2, ReasonFits
  <2>3. "threads" \in Driving /\ "threads" \in RequestNames
    BY DEF Driving, D!Waits, RequestNames
  <2>4. Goes("threads", TRUE)
    BY <2>1, <2>2, <2>3, SendGoes DEF D!Ask
  <2>5. Drives
    BY <2>3, <2>4 DEF Drives
  <2>. QED BY <1>1, <2>5, DrivesHold
<1>6. CASE p.pc \notin {"initialized", "marker", "entry"}
  <2>1. D!Consider(p, body)
    BY <1>6 DEF D!Heard
  <2> HIDE DEF p, body
  <2>. QED BY <1>1, <1>2, <2>1, ConsiderDrives, DrivesHold
<1>. QED BY <1>3, <1>4, <1>5, <1>6

LEMMA TakeEventHolds == ASSUME IosInv, D!TakeEvent PROVE IosInv'
<1>1. /\ probe.pc \in DOMAIN D!Listens /\ probe.pc \in Driving
      /\ \/ probe' = [probe EXCEPT !.found = inbox.events[1].body]
         \/ probe' = [probe EXCEPT !.deferred = Append(@, inbox.events[1])]
      /\ UNCHANGED adapter /\ inbox' = [inbox EXCEPT !.events = Tail(@)] /\ UNCHANGED <<host, device>>
  BY DEF D!TakeEvent, D!Listening, D!world, Driving
<1>2. Driven
  BY <1>1 DEF Driven, IosInv, IosParts
<1>3. DOMAIN probe' = DOMAIN probe /\ probe'.pc = probe.pc /\ probe'.seq = probe.seq /\ probe'.facts = probe.facts
  <2>1. DOMAIN probe = ProbeFields
    BY DEF IosInv, IosParts, IsProbe
  <2>. QED BY <1>1, <2>1 DEF ProbeFields
<1>4. Fit(probe)
  BY DEF IosInv, IosParts, Seen, Fit
<1>5. probe.pc # "stackTrace"
  BY <1>1 DEF D!Listens
<1>6. Goes(probe.pc, FALSE)
  BY <1>1, <1>3, <1>4, <1>5, MoveGoes
<1>7. Drives
  BY <1>1, <1>6 DEF Drives
<1>. QED BY <1>1, <1>2, <1>7, DrivesHold

LEMMA InterruptedHolds == ASSUME IosInv, D!Interrupted PROVE IosInv'
<1>1. Driven /\ probe.pc \in Driving
  BY PutBackDrives DEF D!Interrupted, D!Listening, Driving
<1>2. Drives
  BY CalmFits, AbandonDrives DEF D!Interrupted
<1>. QED BY <1>1, <1>2, DrivesHold

LEMMA GoodbyeHolds == ASSUME IosInv, D!Goodbye PROVE IosInv'
<1>1. probe.pc \in Driving /\ probe' = [probe EXCEPT !.pc = "close"] /\ UNCHANGED <<host, device, inbox, adapter>>
  BY DEF D!Goodbye, D!world, Driving
<1>2. Driven
  BY <1>1 DEF Driven
<1>3. DOMAIN probe' = DOMAIN probe /\ probe'.pc = "close" /\ probe'.seq = probe.seq /\ probe'.facts = probe.facts
  BY <1>1 DEF IosInv, IosParts, IsProbe, ProbeFields
<1>4. Fit(probe) /\ "close" \in Driving
  BY DEF IosInv, IosParts, Seen, Fit, Driving
<1>5. Goes("close", FALSE)
  BY <1>1, <1>3, <1>4, MoveGoes
<1>6. Drives
  BY <1>4, <1>5 DEF Drives
<1>. QED BY <1>1, <1>2, <1>6, DrivesHold

-----------------------------------------------------------------------------
(* The rest of `attach`, before and after the adapter is driven.            *)

LEMMA Advances ==
  ASSUME IosInv, DeviceGoes, UNCHANGED <<host, inbox>>, NEW pc, pc # "stackTrace",
         probe' = [probe EXCEPT !.pc = pc],
         adapter' = adapter \/ adapter' = [adapter EXCEPT !.up = FALSE],
         pc \in Driving \cup Debugging \cup {"identify", "end"},
         pc # "end" => host.files /\ host.match /\ host.dsym,
         pc \in Debugging => ~adapter'.up /\ probe.facts.frame,
         pc \in {"cliDetach", "cliQuit", "survive"} => host.loaded,
         pc \in {"cliQuit", "survive"} => device'.held = "none"
  PROVE  IosInv'
<1>1. DOMAIN probe' = ProbeFields /\ probe'.pc = pc /\ probe'.seq = probe.seq /\ probe'.facts = probe.facts
  BY DEF IosInv, IosParts, IsProbe, ProbeFields
<1>2. /\ DOMAIN adapter' = DOMAIN adapter /\ adapter'.todo = adapter.todo /\ adapter'.out = adapter.out
      /\ adapter'.attach = adapter.attach
  BY DEF IosInv, IosParts
<1>3. IosParts'
  BY <1>1, <1>2 DEF IosInv, IosParts, IsProbe, DeviceGoes
<1>4. Matched'
  <2>1. \A i \in DOMAIN adapter.todo : FitRequest(adapter.todo[i], probe')
    BY <1>1 DEF IosInv, Matched, FitRequest
  <2>2. \A m : FitMessage(m, probe, device) => FitMessage(m, probe', device')
    BY <1>1 DEF FitMessage
  <2>3. /\ \A i \in DOMAIN adapter.out : FitMessage(adapter.out[i], probe', device')
        /\ \A m \in inbox.answers : FitMessage(m, probe', device')
    BY <2>2 DEF IosInv, Matched
  <2>. QED BY <1>1, <1>2, <2>1, <2>3 DEF IosInv, Matched
<1>5. Seen'
  BY <1>1 DEF IosInv, Seen, DeviceGoes
<1>6. StepByStep'
  BY <1>1 DEF IosInv, StepByStep
<1>. QED BY <1>3, <1>4, <1>5, <1>6 DEF IosInv

LEMMA EndsHolds ==
  ASSUME IosInv, NEW outcome, D!Ends(outcome), DeviceGoes, UNCHANGED <<host, inbox>>,
         adapter' = adapter \/ adapter' = [adapter EXCEPT !.up = FALSE]
  PROVE  IosInv'
<1>1. "end" \notin Debugging /\ probe' = [probe EXCEPT !.pc = "end"]
  BY DEF D!Ends, Debugging
<1>. QED BY <1>1, Advances

LEMMA CloseHolds == ASSUME IosInv, D!Close PROVE IosInv'
<1>1. /\ probe.pc = "close" /\ adapter' = [adapter EXCEPT !.up = FALSE] /\ UNCHANGED <<host, inbox>>
      /\ device' \in {device, D!Released}
  BY DEF D!Close
<1>2. DeviceGoes
  BY <1>1, DeviceStays, ReleasedGoes
<1>3. CASE D!GatePassed(probe.facts) /\ probe' = [probe EXCEPT !.pc = "cli"]
  <2>1. probe.facts.frame
    BY <1>3 DEF D!GatePassed
  <2>2. host.files /\ host.match /\ host.dsym
    BY <1>1 DEF IosInv, StepByStep
  <2>3. ~adapter'.up
    BY <1>1 DEF IosInv, IosParts
  <2>4. "cli" \in Debugging
    BY DEF Debugging
  <2>. QED BY <1>1, <1>2, <1>3, <2>1, <2>2, <2>3, <2>4, Advances
<1>4. CASE D!Ends("failed")
  BY <1>1, <1>2, <1>4, EndsHolds
<1>. QED BY <1>3, <1>4 DEF D!Close

LEMMA IdentifyHolds == ASSUME IosInv, D!Identify PROVE IosInv'
<1>1. probe.pc = "identify" /\ UNCHANGED <<host, device, inbox>>
  BY DEF D!Identify, D!Unproven, D!world
<1>2. CASE D!Ends("failed") /\ UNCHANGED adapter
  BY <1>1, <1>2, DeviceStays, EndsHolds
<1>3. CASE /\ probe' = D!Sent(probe, "initialize")
           /\ adapter' = [adapter EXCEPT !.up = TRUE, !.todo = <<[name |-> "initialize", seq |-> 1]>>]
  <2> DEFINE r == [name |-> "initialize", seq |-> 1]
  <2>1. /\ DOMAIN probe' = ProbeFields /\ probe'.pc = "initialize" /\ probe'.seq = probe.seq + 1
        /\ probe'.facts = probe.facts
    BY <1>3 DEF D!Sent, IosInv, IosParts, IsProbe, ProbeFields
  <2>2. /\ DOMAIN adapter' = DOMAIN adapter /\ adapter'.todo = <<r>> /\ adapter'.out = adapter.out
        /\ adapter'.attach = adapter.attach
    BY <1>3 DEF IosInv, IosParts
  <2>3. r \in Requests /\ r.seq = 1
    BY DEF Requests, RequestNames
  <2> HIDE DEF r
  <2>4. probe.seq \in Nat
    BY DEF IosInv, IosParts, IsProbe
  <2>5. <<r>> \in Seq(Requests) /\ \A i \in DOMAIN <<r>> : <<r>>[i] = r
    BY <2>3
  <2>6. IosParts'
    BY <1>1, <2>1, <2>2, <2>4, <2>5 DEF IosInv, IosParts, IsProbe
  <2>7. Matched'
    <3>1. FitRequest(r, probe')
      BY <2>1, <2>3, <2>4 DEF FitRequest
    <3>2. ASSUME NEW m, FitMessage(m, probe, device), m.kind = "response" => m.seq \in Nat
          PROVE  FitMessage(m, probe', device)
      BY <2>1, <2>4, <3>2 DEF FitMessage
    <3>3. \A i \in DOMAIN adapter.out : adapter.out[i].kind = "response" => adapter.out[i].seq \in Nat
      <4>1. \A m \in Messages : m.kind = "response" => m.seq \in Nat
        BY DEF Messages, Responses, Notices
      <4>. QED BY <4>1 DEF IosInv, IosParts
    <3>4. \A m \in inbox.answers : m.seq \in Nat
      BY DEF IosInv, IosParts, Responses
    <3>5. /\ \A i \in DOMAIN adapter.out : FitMessage(adapter.out[i], probe', device)
          /\ \A m \in inbox.answers : FitMessage(m, probe', device)
      BY <3>2, <3>3, <3>4 DEF IosInv, Matched
    <3>6. adapter.attach <= probe'.seq
      BY <2>1, <2>4 DEF IosInv, IosParts, Matched
    <3>. QED BY <1>1, <2>1, <2>2, <2>5, <3>1, <3>5, <3>6 DEF Matched
  <2>8. Seen'
    BY <1>1, <2>1 DEF IosInv, Seen
  <2>9. StepByStep'
    <3>1. "initialize" \in Driving /\ "initialize" \notin Debugging
      BY DEF Driving, D!Waits, Debugging
    <3>. QED BY <1>1, <2>1, <3>1 DEF IosInv, StepByStep
  <2>. QED BY <2>6, <2>7, <2>8, <2>9 DEF IosInv
<1>. QED BY <1>2, <1>3 DEF D!Identify, D!Unproven, D!world

LEMMA CliHolds ==
  ASSUME IosInv, D!CliAttach \/ D!CliLook \/ D!CliDetach \/ D!CliQuit \/ D!CliFails
  PROVE  IosInv'
<1>1. /\ probe.pc \in Debugging /\ UNCHANGED <<host, inbox, adapter>>
  BY DEF D!CliAttach, D!CliLook, D!CliDetach, D!CliQuit, D!CliFails, D!world, Debugging
<1>2. /\ host.files /\ host.match /\ host.dsym /\ ~adapter.up /\ probe.facts.frame
      /\ probe.pc \in {"cliDetach", "cliQuit", "survive"} => host.loaded
      /\ probe.pc \in {"cliQuit", "survive"} => device.held = "none"
  BY <1>1 DEF IosInv, StepByStep, Debugging
<1>3. ASSUME device' = [device EXCEPT !.held = "none", !.at = "running"]
      PROVE  DeviceGoes /\ device'.held = "none"
  <2>1. /\ DOMAIN device' = DOMAIN device /\ device'.who = device.who /\ device'.hit = device.hit
        /\ device'.at = "running" /\ device'.held = "none"
    BY <1>3 DEF IosInv, IosParts, IsDevice
  <2>. QED BY <2>1 DEF IosInv, IosParts, IsDevice, DeviceGoes, Hit, D!AtLine, D!AtTop
<1>4. CASE D!CliAttach
  <2>1. CASE device' = [device EXCEPT !.held = "cli", !.at = "entry"]
    <3>1. DOMAIN device' = DOMAIN device /\ device'.who = device.who /\ device'.hit = device.hit /\ device'.at = "entry"
      BY <2>1 DEF IosInv, IosParts, IsDevice
    <3>2. DeviceGoes
      BY <3>1 DEF IosInv, IosParts, IsDevice, DeviceGoes, Hit, D!AtLine, D!AtTop
    <3>. QED BY <1>1, <1>2, <1>4, <3>2, Advances DEF D!CliAttach, Debugging
  <2>2. CASE device' = device
    BY <1>1, <1>2, <1>4, <2>2, DeviceStays, Advances DEF D!CliAttach, Debugging
  <2>. QED BY <1>4, <2>1, <2>2 DEF D!CliAttach
<1>5. CASE D!CliLook
  <2>1. host.loaded /\ probe' = [probe EXCEPT !.pc = "cliDetach"] /\ device' = device
    BY <1>5 DEF D!CliLook, D!CliSees, D!world
  <2>. QED BY <1>1, <1>2, <2>1, DeviceStays, Advances DEF Debugging
<1>6. CASE D!CliDetach
  <2>1. /\ probe.pc = "cliDetach" /\ probe' = [probe EXCEPT !.pc = "cliQuit"]
        /\ device' = [device EXCEPT !.held = "none", !.at = "running"]
    BY <1>6 DEF D!CliDetach
  <2>. QED BY <1>1, <1>2, <1>3, <2>1, Advances DEF Debugging
<1>7. CASE D!CliQuit
  <2>1. probe.pc = "cliQuit" /\ probe' = [probe EXCEPT !.pc = "survive"] /\ device' = device
    BY <1>7 DEF D!CliQuit, D!world
  <2>. QED BY <1>1, <1>2, <2>1, DeviceStays, Advances DEF Debugging
<1>8. CASE D!CliFails
  <2>1. device' = device \/ device' = [device EXCEPT !.held = "none", !.at = "running"]
    BY <1>8 DEF D!CliFails
  <2>. QED BY <1>1, <1>3, <1>8, <2>1, DeviceStays, EndsHolds DEF D!CliFails
<1>. QED BY <1>4, <1>5, <1>6, <1>7, <1>8

LEMMA StartHolds ==
  ASSUME IosInv, D!CheckHost \/ D!Preflights
  PROVE  IosInv'
<1>1. UNCHANGED <<host, device, inbox, adapter>>
  BY DEF D!CheckHost, D!Preflights, D!Preflight, D!world
<1>2. DeviceGoes
  BY <1>1, DeviceStays
<1>3. CASE \E outcome : D!Ends(outcome)
  BY <1>1, <1>2, <1>3, EndsHolds
<1>4. CASE D!CheckHost /\ host.files /\ host.match /\ host.dsym
  <2>1. probe' = [probe EXCEPT !.pc = "identify"]
    BY <1>4 DEF D!CheckHost
  <2>2. "identify" \notin Debugging
    BY DEF Debugging
  <2>. QED BY <1>1, <1>2, <1>4, <2>1, <2>2, Advances
<1>. QED BY <1>3, <1>4 DEF D!CheckHost, D!Preflights, D!Preflight

LEMMA SurvivedHolds ==
  ASSUME IosInv, D!Survived
  PROVE  /\ IosInv'
         /\ report' = "passed" => /\ host.files /\ host.match /\ host.dsym /\ host.loaded
                                  /\ device.hit # "none" /\ device.who = "app" /\ device.held = "none"
<1>1. probe.pc = "survive" /\ UNCHANGED <<host, device, inbox, adapter>> /\ \E outcome : D!Ends(outcome)
  BY DEF D!Survived, D!Unproven, D!world
<1>2. IosInv'
  BY <1>1, DeviceStays, EndsHolds
<1>3. ASSUME report' = "passed" PROVE device.who = "app"
  BY <1>3 DEF D!Survived, D!Unproven, D!Ends, D!Survives, D!Proven
<1>4. /\ host.files /\ host.match /\ host.dsym /\ host.loaded /\ device.held = "none" /\ probe.facts.frame
  BY <1>1 DEF IosInv, StepByStep, Debugging
<1>5. device.who = "app" => device.hit # "none"
  BY <1>4 DEF IosInv, Seen, Hit
<1>. QED BY <1>2, <1>3, <1>4, <1>5

(* No other step reports success.                                           *)
LEMMA PassedBySurviving ==
  ASSUME D!Next, report' = "passed", report # "passed"
  PROVE  D!Survived
BY DEF D!Next, D!Probe, D!Adapter, D!AppEnds, D!Refuse, D!Initialize, D!Attach, D!SetBreakpoints, D!Idle,
       D!ConfigurationDone, D!Threads, D!Continue, D!Stop, D!StackTrace, D!Disconnect, D!Die, D!ReadMessage,
       D!TakeEvent, D!Heard, D!Answered, D!Interrupted, D!Goodbye, D!Close, D!CheckHost, D!Identify, D!Unproven,
       D!CliAttach, D!CliLook, D!CliDetach, D!CliQuit, D!CliFails, D!Preflights, D!Preflight, D!Ends

LEMMA IosStepHolds == ASSUME IosInv, D!Next PROVE IosInv'
BY AppEndsHolds, AnswersHold, AttachHolds, ConfigurationHolds, StopHolds, DieHolds, ReadHolds, TakeEventHolds,
   HeardHolds, AnsweredHolds, InterruptedHolds, GoodbyeHolds, CloseHolds, IdentifyHolds, CliHolds, StartHolds,
   SurvivedHolds DEF D!Next, D!Adapter, D!Probe

LEMMA IosStays == ASSUME IosInv, UNCHANGED ios PROVE IosInv'
<1>1. UNCHANGED <<host, device, adapter, inbox, probe>>
  BY DEF ios
<1>. QED BY <1>1 DEF IosInv, IosParts, Matched, Seen, StepByStep

LEMMA IosInit == D!Init => IosInv
<1> SUFFICES ASSUME D!Init PROVE IosInv
  OBVIOUS
<1>1. /\ device = [who |-> "app", held |-> "none", at |-> "running", hit |-> "none"]
      /\ adapter = [up |-> FALSE, todo |-> <<>>, out |-> <<>>, attach |-> 0]
      /\ inbox = [answers |-> {}, events |-> <<>>] /\ probe.pc = "start" /\ probe.seq = 0
      /\ DOMAIN probe = ProbeFields /\ probe.facts = D!NoFacts
  BY DEF D!Init, ProbeFields
<1>2. ~D!NoFacts.frame
  BY DEF D!NoFacts
<1>3. IosParts
  BY <1>1 DEF IosParts, IsProbe, IsDevice
<1>4. Matched /\ Seen
  BY <1>1, <1>2 DEF Matched, Seen, D!AtLine, D!AtTop
<1>5. StepByStep
  BY <1>1 DEF StepByStep, Debugging
<1>. QED BY <1>3, <1>4, <1>5 DEF IosInv

LEMMA IosMoves == [NextAll]_all => D!Next \/ (UNCHANGED ios /\ report' = report)
BY DEF NextAll, QueueStep, StrictStep, LiveStep, ScanStep, RulesStep, StagesStep, IosStep, all, ios

(* A passing report of the gate is earned: files and image agree, the       *)
(* application itself stopped with the line in one of the frames asked for,  *)
(* and it still runs, held by nobody                                         *)
(* (ios_dap_protocol_probe.py, attach).                                      *)
THEOREM PassedIsAlwaysEarned == SpecAll => PassedIsEarned
<1>1. InitAll => IosInv
  BY IosInit DEF InitAll
<1>2. IosInv /\ [NextAll]_all =>
        /\ IosInv'
        /\ [report' = "passed" /\ report # "passed" =>
              /\ host.files /\ host.match /\ host.dsym /\ host.loaded
              /\ device.hit # "none" /\ device.who = "app" /\ device.held = "none"]_all
  <2> SUFFICES ASSUME IosInv, [NextAll]_all
               PROVE  /\ IosInv'
                      /\ report' = "passed" /\ report # "passed" =>
                           /\ host.files /\ host.match /\ host.dsym /\ host.loaded
                           /\ device.hit # "none" /\ device.who = "app" /\ device.held = "none"
    OBVIOUS
  <2>. QED BY IosMoves, IosStepHolds, IosStays, PassedBySurviving, SurvivedHolds
<1>. QED BY <1>1, <1>2, PTL DEF SpecAll, PassedIsEarned
=============================================================================
