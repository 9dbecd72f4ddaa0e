------------------------------ MODULE GraphRules ------------------------------
(***************************************************************************)
(* The rules that admit a batch by its index graph                         *)
(* (src/tools/clangd_batch_admission.py compare_graphs, for strict proofs, *)
(* and src/tools/cdb_tier_merge.py graph_superset, for live cross-module   *)
(* groups): the candidate's graph against those of its originals.          *)
(*                                                                         *)
(* A graph maps files to [digest, errors, includes, symbols, refs,         *)
(* relations].  A symbol is [id, ident, targs, lang, texts, flags,         *)
(* headers, def, decl]: `ident` its name, scope and kind, `texts` the      *)
(* nonempty completion fields as <<field, text>>, `headers` a set of       *)
(* <<header, directives>>, a location a <<file, place>> or Nowhere.  A ref *)
(* is [at, roles, id], the roles among "decl", "def" and "use".            *)
(***************************************************************************)
EXTENDS Naturals, FiniteSets, Sequences, SequencesExt, FiniteSetsExt

CONSTANTS Cases,       \* pairs [originals, candidate] to judge
          Ignored,     \* files of the wrappers
          FileHeaders, \* headers named by a file URI, not as an include is spelled
          HeaderFiles, \* those of them that may provide a symbol no original named them for
          DefineAt,    \* the #define lines of Definitions files, by location
          Proven(_, _),\* (ref, originals that hold its file): the binding proof
          TypesProven  \* ids whose template arguments the compiler proves equal

VARIABLES case, verdict
vars == <<case, verdict>>

Nowhere == <<>>
Located(l) == l # Nowhere
Files(graphs) == UNION {DOMAIN graphs[i] \ Ignored : i \in DOMAIN graphs}
Holding(graphs, f) == {i \in DOMAIN graphs : f \in DOMAIN graphs[i]}
Field(graphs, f, Of(_)) == {Of(graphs[i][f]) : i \in Holding(graphs, f)}
All(graphs, Of(_)) == UNION {UNION Field(graphs, f, Of) : f \in Files(graphs)}

SymbolsIn(graphs) == All(graphs, LAMBDA n : n.symbols)
RefsIn(graphs) == All(graphs, LAMBDA n : n.refs)
RelationsIn(graphs) == All(graphs, LAMBDA n : n.relations)
Records(graphs, id) == {s \in SymbolsIn(graphs) : s.id = id}
Ids(graphs) == {s.id : s \in SymbolsIn(graphs)}

-----------------------------------------------------------------------------
(* compare_graphs.                                                          *)

(* _collect refuses an empty graph, compile errors, a nonempty wrapper, two *)
(* contents of one file, and a reference stored under another file.         *)
Collectable(graphs) ==
    /\ Files(graphs) # {}
    /\ \A i \in DOMAIN graphs : graphs[i] # <<>> /\ \A f \in DOMAIN graphs[i] : ~graphs[i][f].errors
    /\ \A i \in DOMAIN graphs : \A f \in DOMAIN graphs[i] \cap Ignored :
          LET n == graphs[i][f] IN n.symbols = {} /\ n.refs = {} /\ n.relations = {}
    /\ \A f \in Files(graphs) : \A i, j \in Holding(graphs, f) : graphs[i][f].digest = graphs[j][f].digest
    /\ \A f \in Files(graphs) : \A r \in UNION Field(graphs, f, LAMBDA n : n.refs) : r.at[1] = f

\* Fault seed: the includes of the first original that holds the file.
SourceOfFirst(graphs, f) ==
    [digest |-> Field(graphs, f, LAMBDA n : n.digest),
     includes |-> graphs[Min(Holding(graphs, f))][f].includes]
Source(graphs, f) == [digest |-> Field(graphs, f, LAMBDA n : n.digest),
                      includes |-> UNION Field(graphs, f, LAMBDA n : n.includes)]

Defining(symbols) == {s \in symbols : Located(s.def)}
Preferred(symbols) == IF Defining(symbols) # {} THEN Defining(symbols) ELSE symbols

(* Header suggestions of the defining records; others only add directives.  *)
Headers(symbols) ==
    LET named == {h[1] : h \in UNION {s.headers : s \in Preferred(symbols)}}
        directives(name) == UNION {h[2] : h \in {k \in UNION {s.headers : s \in symbols} : k[1] = name}}
    IN  {<<name, directives(name)>> : name \in named}
Names(headers) == {h[1] : h \in headers}

Reaches(graph, f) ==
    LET within[n \in Nat] == IF n = 0 THEN {f} ELSE within[n - 1] \cup
          UNION {graph[g].includes : g \in within[n - 1] \cap DOMAIN graph}
    IN  within[Cardinality(DOMAIN graph)] \cap DOMAIN graph

(* Where one original declares (or, with body, defines) the symbol.         *)
Places(graph, id, body) ==
    LET nodes == {graph[f] : f \in DOMAIN graph}
        mine == {s \in UNION {n.symbols : n \in nodes} : s.id = id}
        refs == {r \in UNION {n.refs : n \in nodes} : r.id = id}
        defs == {s.def[1] : s \in Defining(mine)} \cup {r.at[1] : r \in {q \in refs : "def" \in q.roles}}
        decls == {s.decl[1] : s \in {t \in mine : Located(t.decl)}}
                   \cup {r.at[1] : r \in {q \in refs : q.roles \cap {"decl", "def"} # {}}}
    IN  IF body THEN defs ELSE decls \cup defs

Exposes(graphs, i, header, id, body) ==
    header \in DOMAIN graphs[i] /\ Reaches(graphs[i], header) \cap Places(graphs[i], id, body) # {}

ValidProviders(old, new, graphs, id) ==
    LET before == Headers(old)
        after == Headers(new)
        body == \E h \in Names(before), i \in DOMAIN graphs : Exposes(graphs, i, h, id, TRUE)
    IN  \/ before = after
        \/ /\ after # {} /\ {h[2] : h \in before} = {h[2] : h \in after}
           /\ Names(before) \subseteq FileHeaders
           /\ \A h \in after : IF h[1] \in Names(before) THEN h \in before
                ELSE /\ h[1] \in HeaderFiles
                     /\ \E i \in DOMAIN graphs : Exposes(graphs, i, h[1], id, body)

(* Locations a candidate may use: those the originals recorded, or referred *)
(* to in the same role.                                                     *)
Defs(symbols) == {s.def : s \in Defining(symbols)}
Decls(symbols) == {s.decl : s \in {t \in symbols : Located(t.decl)}}
RefPlaces(graphs, id, roles) ==
    {r.at : r \in {q \in RefsIn(graphs) : q.id = id /\ q.roles \cap roles # {}}}

SymbolPreserved(graphs, id, old, new) ==
    /\ {s.ident : s \in old} = {s.ident : s \in new}
    /\ {s.lang : s \in Preferred(old)} = {s.lang : s \in new}
    /\ UNION {s.texts : s \in old} = UNION {s.texts : s \in new}
    /\ UNION {s.flags : s \in old} = UNION {s.flags : s \in new}
    /\ ValidProviders(old, new, graphs, id)
    /\ Defs(old) \subseteq Defs(new)
    /\ Defs(new) \subseteq Defs(old) \cup RefPlaces(graphs, id, {"def"})
    /\ Decls(old) # {} => Decls(new) # {}
    /\ Decls(new) \subseteq Decls(old) \cup RefPlaces(graphs, id, {"decl", "def"})

Retyped(old, new) == {s.targs : s \in old} # {s.targs : s \in new}

CompareGraphs(graphs, candidate) ==
    LET one == <<candidate>> IN
    /\ graphs # <<>> /\ Collectable(graphs) /\ Collectable(one)
    /\ Files(graphs) = Files(one)
    /\ \A f \in Files(one) : Source(graphs, f) = Source(one, f)
    /\ Ids(graphs) = Ids(one)
    /\ \A id \in Ids(one) : SymbolPreserved(graphs, id, Records(graphs, id), Records(one, id))
    /\ RelationsIn(graphs) = RelationsIn(one)
    /\ RefsIn(graphs) \subseteq RefsIn(one)
    /\ \A id \in Ids(one) : Retyped(Records(graphs, id), Records(one, id)) => id \in TypesProven
    /\ \A r \in RefsIn(one) \ RefsIn(graphs) :
          Proven(r, {graphs[i] : i \in Holding(graphs, r.at[1])})

-----------------------------------------------------------------------------
(* graph_superset.                                                          *)

Signature(s) == {t \in s.texts : t[1] = "signature"}

(* A candidate record stands for an original one.                           *)
StandsFor(new, old) ==
    /\ new.ident = old.ident /\ Signature(new) = Signature(old)
    /\ Located(old.def) => new.def = old.def

DeclarationKnown(graphs, id, old, new) ==
    \E o \in old, n \in new : n.decl = o.decl \/ n.decl \in RefPlaces(graphs, id, {"decl"})

(* The #define lines of Definitions files at which a graph refers to id.    *)
MacroSites(graphs, id) ==
    LET refs == UNION {UNION {g[f].refs : f \in DOMAIN g} : g \in graphs}
    IN  {DefineAt[r.at] : r \in {q \in refs : q.id = id /\ q.at \in DOMAIN DefineAt}}

(* Two macros defined by one and the same line.                             *)
SameMacro(graphs, id, other) ==
    LET sites == MacroSites(graphs, id)
    IN  MacroSites(graphs, other) = sites /\ \E line \in sites : sites = {line}

(* The reference's place and roles are still there, for the same symbol,    *)
(* one the candidate knows, or the same macro under another id.             *)
RefKept(r, refs, ids, graphs) ==
    \E q \in refs : /\ q.at = r.at /\ q.roles = r.roles
                    /\ q.id = r.id \/ q.id \in ids \/ SameMacro(graphs, r.id, q.id)

NodeKept(old, new, ids, graphs) ==
    /\ old.digest = new.digest /\ (old.errors <=> new.errors) /\ old.includes = new.includes
    /\ \A r \in old.refs : RefKept(r, new.refs, ids, graphs)
    /\ old.relations \subseteq new.relations

GraphSuperset(graphs, candidate) ==
    LET one == <<candidate>>
        present == {graphs[i] : i \in DOMAIN graphs} \cup {candidate}
    IN
    /\ graphs # <<>> /\ Files(graphs) = Files(one)
    /\ \A id \in Ids(graphs) :
          LET old == Records(graphs, id)
              new == Records(one, id)
          IN  /\ \A o \in old : \E n \in new : StandsFor(n, o)
              /\ DeclarationKnown(graphs, id, old, new)
    /\ \A i \in DOMAIN graphs : \A f \in DOMAIN graphs[i] \ Ignored :
          NodeKept(graphs[i][f], candidate[f], Ids(one), present)

-----------------------------------------------------------------------------
NoVerdict == [strict |-> FALSE, live |-> FALSE, given |-> FALSE]
Init == case \in Cases /\ verdict = NoVerdict
Judge == /\ verdict = NoVerdict
         /\ verdict' = [strict |-> CompareGraphs(case.originals, case.candidate),
                        live |-> GraphSuperset(case.originals, case.candidate), given |-> TRUE]
         /\ UNCHANGED case
Next == Judge
Spec == Init /\ [][Next]_vars

(* The exact union of some graphs.                                          *)
UnionGraph(graphs) == [f \in Files(graphs) |->
    [digest |-> CHOOSE d \in Field(graphs, f, LAMBDA n : n.digest) : TRUE, errors |-> FALSE,
     includes |-> UNION Field(graphs, f, LAMBDA n : n.includes),
     symbols |-> UNION Field(graphs, f, LAMBDA n : n.symbols),
     refs |-> UNION Field(graphs, f, LAMBDA n : n.refs),
     relations |-> UNION Field(graphs, f, LAMBDA n : n.relations)]]

(* A verdict depends on which graphs the originals have, not on their order *)
(* or how often one occurs: replays and re-packings present the same        *)
(* originals again.  And a batch that indexes to exactly the union of       *)
(* consistent originals is admitted: by the strict rules always, by the     *)
(* live ones when no file includes differently in two of them.              *)
Orders == LET g == case.originals IN {g, Reverse(g), g \o <<g[1]>>, <<g[Len(g)]>> \o g}
AdmissionIsOfSets == verdict.given =>
    /\ \A graphs \in Orders :
          /\ CompareGraphs(graphs, case.candidate) = verdict.strict
          /\ GraphSuperset(graphs, case.candidate) = verdict.live
    /\ LET graphs == case.originals
           exact == UnionGraph(graphs)
           agreed == \A i \in DOMAIN graphs : \A f \in DOMAIN graphs[i] :
                        f \notin Ignored => graphs[i][f].includes = exact[f].includes
           same(id) == \A s, t \in Records(graphs, id) : s.lang = t.lang
       IN  Collectable(graphs) /\ (\A id \in Ids(graphs) : same(id)) =>
             /\ CompareGraphs(graphs, exact)
             /\ agreed => GraphSuperset(graphs, exact)
=============================================================================
