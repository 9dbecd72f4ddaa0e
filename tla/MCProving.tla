------------------------------- MODULE MCProving -------------------------------
(* Instances for TLC of the parts that decide which batches are proved:      *)
(* the queue, the strict and live qualifications, the residual scan and the  *)
(* graph rules; of the publication of a database in stages; and of the gate  *)
(* that decides whether debugging on iOS works.                              *)
(* A behaviour runs one of them, which `part` names; the others keep their   *)
(* initial state.                                                            *)
EXTENDS Proving

-----------------------------------------------------------------------------
(* The queue: two ordinary chunks that a large group joins, a chunk of an    *)
(* older input, a cross-module chunk and a strict pair, over six entries.    *)
QueueOrder == <<"left", "old", "pair", "right", "strict", "two">>
QueueOwn == [two |-> {4, 5, 6}, left |-> {1, 2}, right |-> {3, 4}, pair |-> {1, 2, 3, 4},
             old |-> {5, 6}, strict |-> {2, 3}]
QueueKind == [two |-> "cross", left |-> "ordinary", right |-> "ordinary", old |-> "ordinary",
              pair |-> "large", strict |-> "strict"]
QueueAdmits == [two |-> <<{{4, 5, 6}}, {{5, 6}}>>, left |-> <<{{1, 2}}, {{1, 2}}>>,
                right |-> <<{{3, 4}}, {}>>, old |-> <<{{5, 6}}, {{5, 6}}>>,
                pair |-> <<{{1, 2, 3, 4}}, {}>>, strict |-> <<{{2, 3}}, {}>>]
QueueKnown == <<{"two", "left", "right", "pair", "strict"}, {"left", "old", "strict"}>>
QueueRoot == {"left"}
QueueVersions == {1, 2}

(* Strict proofs: a chunk of two and one of three, with a header that may    *)
(* come to stand before another on the search path.                          *)
FiveEntries == 1..5
TwoHeaders == {"lo", "hi"}
OnePath == [e \in FiveEntries |-> {<<"hi", "lo">>}]
HeaderValues == [f \in TwoHeaders |-> IF f = "lo" THEN {1, 2} ELSE {0, 1}]
TwoChunks == <<{1, 2}, {3, 4, 5}>>
ClashOf(pol, g) == IF {3, 4} \subseteq g \/ (pol = 2 /\ {1, 2} \subseteq g) THEN "symbols"
                   ELSE IF g = {4, 5} THEN IF pol = 1 THEN "compile" ELSE "order" ELSE "none"
SomeClashes == [pol \in {1, 2} |->
    [g \in {g \in SUBSET FiveEntries : Cardinality(g) > 1} |-> ClashOf(pol, g)]]

(* Live tiers: two modules that a cross-module group joins; the first mixes  *)
(* written and generated members.                                            *)
TwoModules == <<"a", "a", "a", "a", "b", "b">>
TwoClasses == <<"src", "src", "gen", "gen", "src", "src">>
JoinedModules == {{"a", "b"}}
LiveChunks == {{1, 2, 3, 4}, {5, 6}}
SomeFinds(tier, g, m, h) ==
    IF tier = 2 THEN IF m = 2 THEN "include" ELSE IF h = 2 THEN "graph" ELSE "ok"
    ELSE IF {2, 3} \subseteq g THEN IF m = 1 THEN "ok" ELSE IF h = 1 THEN "compile" ELSE "shards"
    ELSE IF {5, 6} = g /\ h = 2 THEN "shards" ELSE "ok"

(* The residual scan: one pair of four per session, one of them not packable.*)
SomeVerdicts == <<[p \in 0..3 |-> IF p = 1 THEN "rejected" ELSE "accepted"],
                 [p \in 0..3 |-> IF p \in {0, 3} THEN "rejected" ELSE "accepted"]>>

(* Graph rules: a header that two originals see with other contents,         *)
(* includes, providers or definitions; and a macro that a unit knows by      *)
(* another id, or by several lines.                                          *)
Decl == <<"h", 1>>
Body == <<"g", 1>>
Named(hs) == [id |-> "s", ident |-> "n", targs |-> "t", lang |-> "C++",
              texts |-> {<<"signature", "sig">>}, flags |-> {},
              headers |-> {<<h, {"inc"}>> : h \in hs}, def |-> <<>>, decl |-> Decl]
Node(digest, includes, symbols, refs) ==
    [digest |-> digest, errors |-> FALSE, includes |-> includes, symbols |-> symbols,
     refs |-> refs, relations |-> {}]
Ref(at, role, id) == [at |-> at, roles |-> {role}, id |-> id]
Macros == <<"Definitions.a.h", 1>> :> "#define A 1" @@ <<"Definitions.a.h", 2>> :> "#define B 1"
GraphOf(digest, includes, hs, bodied, used) ==
    ("h" :> Node(digest, includes, {Named(hs)}, {Ref(Decl, "decl", "s")}))
    @@ ("g" :> Node(1, {}, {}, IF bodied THEN {Ref(Body, "def", "s")} ELSE {}))
    @@ ("Definitions.a.h" :> Node(1, {}, {}, {Ref(<<"Definitions.a.h", u[1]>>, "use", u[2]) : u \in used}))
    @@ ("w" :> Node(1, {}, {}, {}))
SomeGraphs == {GraphOf(d, i, hs, b, {}) : d \in {1, 2}, i \in {{}, {"g"}}, b \in BOOLEAN,
                                          hs \in {{"h"}, {"g"}, {"<v>"}}}
MacroGraphs == {GraphOf(1, {}, {"h"}, FALSE, used) :
                   used \in {{}, {<<1, "s">>}, {<<1, "m">>}, {<<1, "n">>}, {<<1, "m">>, <<2, "m">>}}}
SomeCases == {[originals |-> <<a, b>>, candidate |-> c] :
                 a \in SomeGraphs, b \in SomeGraphs, c \in SomeGraphs}
             \cup {[originals |-> <<a, b>>, candidate |-> c] :
                 a \in MacroGraphs, b \in MacroGraphs, c \in MacroGraphs}
Always(ref, graphs) == TRUE

(* A current database of one command, a hot one that batches two, a full one *)
(* whose batch overlaps that, and a full one with strict receipts; the base  *)
(* may be replaced by one that compiles a source otherwise.                  *)
StageCommands(sources, g) == {<<x, IF x = "b" /\ g > 1 THEN 2 ELSE 1>> : x \in sources}
ThreeStages == [current |-> [g \in 1..4 |-> StageCommands({"a"}, g)],
                  hot |-> [g \in 1..4 |-> StageCommands({"a", "b"}, g)],
                  full |-> [g \in 1..4 |-> StageCommands({"a", "b", "c"}, g)]]
SomeBuilds == {<<"current", {}, FALSE>>, <<"hot", {"a", "b"}, FALSE>>,
               <<"full", {"b", "c"}, FALSE>>, <<"full", {}, TRUE>>}

=============================================================================
