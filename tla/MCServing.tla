------------------------------- MODULE MCServing -------------------------------
(* Instances for TLC of the parts of Serving.                                *)
EXTENDS Serving

(* A database with one batch of two commands; with a command in two batches; *)
(* with a command missing.                                                   *)
SomeFrozen == {<<{1, 2}, {3}>>, <<{1, 2}, {2, 3}>>, <<{1, 2}>>}

(* Two groups of one member each, that both read one header.                 *)
TwoGroups == ("a" :> 1) @@ ("b" :> 2)
OneHeader == ("a" :> {"h"}) @@ ("b" :> {"h"}) @@ ("h" :> {})

(* Two mains that share a header, one with a header of its own, and a source *)
(* that is not indexed yet.                                                  *)
SomeIncludes == ("m" :> {"h", "g"}) @@ ("n" :> {"h"}) @@ ("h" :> {}) @@ ("g" :> {})

(* Databases of four entries out of three modules and all member classes:    *)
(* one of another command, one of a key of its own across modules, one       *)
(* single source, one of a module that failed whole.                         *)
Entry(module, class, size, stem) ==
    [module |-> module, context |-> 1, cross |-> 1, class |-> class, size |-> size, sources |-> 1,
     src |-> IF class = "src" THEN {stem} ELSE {}, gen |-> IF class = "gen" THEN {stem} ELSE {},
     closure |-> {<<module, size>>}, names |-> IF size = 2 THEN {stem} ELSE {},
     exact |-> FALSE, failed |-> FALSE]
SomeEntries == {Entry("M", "src", s, "x") : s \in 0..2} \cup {Entry("M", "gen", s, "x") : s \in 1..2}
               \cup {Entry("N", "src", s, "x") : s \in 1..2}
               \cup {Entry("M", "c", 1, "y"),
                      [Entry("P", "src", 1, "y") EXCEPT !.context = 2],
                      [Entry("M", "mixed", 1, "x") EXCEPT !.src = {"y"}, !.gen = {"x"}],
                      [Entry("M", "src", 1, "y") EXCEPT !.exact = TRUE],
                      [Entry("N", "src", 1, "y") EXCEPT !.cross = 2],
                      [Entry("P", "gen", 1, "y") EXCEPT !.failed = TRUE]}
SomePackings == [1..4 -> SomeEntries]
SomeBudgets == {[bytes |-> 3, unities |-> 3, sources |-> 3, closure |-> 3, exact |-> TRUE]}

(* Three generated sources and one of a module; unity files for one source   *)
(* or two, of which one has a receipt; a build that writes response files,   *)
(* or none.                                                                  *)
Command(f, c) == [file |-> f, context |-> c]
SomeDatabases == {<<Command("a", 1), Command("b", c), Command("x", 1)>> : c \in {1, 2}}
                 \cup {<<Command("a", 1), Command("b", 1), Command("a", 1)>>}
SomeUnities == {<<>>, <<"a">>, <<"b">>, <<"a", "b">>, <<"x">>}
SomeBuilds == [manifest : [{"u1", "u2", "u3"} -> SomeUnities],
               response : {"u1" :> {} @@ "u2" :> {} @@ "u3" :> {},
                           "u1" :> {2} @@ "u2" :> {1} @@ "u3" :> {}}]
SomeHome == ("a" :> "gen") @@ ("b" :> "gen") @@ ("c" :> "gen") @@ ("x" :> "mod")
ThreeUnities == <<"u1", "u2", "u3">>
OneFolder == [u \in {"u1", "u2", "u3"} |-> "d"]

(* A header in scope, and one outside that a command names by an alias.      *)
SomeUnder == ("a" :> "in") @@ ("b" :> "out")

(* Two drivers: one whose answer changes and comes back as its bytes go on,  *)
(* and one that gives the same answer at first.                              *)
SomeGives == ("d" :> <<1, 2, 1>>) @@ ("e" :> <<1, 3, 3>>)
SomeSupported == {<<"clangd", 0>>, <<"clangd", 1>>, <<"d", 0>>, <<"d", 1>>, <<"d", 2>>,
                  <<"e", 0>>, <<"e", 1>>}
=============================================================================
