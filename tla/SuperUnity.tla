------------------------------- MODULE SuperUnity -------------------------------
(***************************************************************************)
(* How the translation units of the background index are made larger        *)
(* (tools/build_hot_super_unity_cdb.py, tools/build_super_unity_cdb.py).    *)
(* main finds the unity files of the build and wraps the sources that one   *)
(* of them includes, if the build's evidence says that they were compiled   *)
(* with the commands at hand; what is left stays as it is.                  *)
(* build_generated_batches then puts wrappers of generated sources together *)
(* under one more: it reads them back from disk, where anybody may have     *)
(* changed them, and must not compile a source twice.  A batch includes the *)
(* wrapper files by name, and nobody reads them again.                      *)
(*                                                                         *)
(* Abstracted: a context is the command without its source and outputs, and *)
(* equal keys are equal contexts; paths resolve by name; which wrappers are *)
(* packed together, within one module and context, is UnityChunks'.  main   *)
(* is one step.                                                             *)
(***************************************************************************)
EXTENDS Naturals, FiniteSets, Sequences, SequencesExt, FiniteSetsExt

CONSTANTS Generated,   \* sources that are generated
          Home,        \* [source -> module directory it lies in]
          Unities,     \* unity files, in the order they are looked at
          Folder,      \* [unity -> directory of the build]
          Databases,   \* per-file databases: sequences of [file, context]
          Builds,      \* [manifest: unity -> what it includes, a sequence,
                       \*  response: unity -> contexts, {} without any response file]
          Apple,       \* contexts of a platform that writes no response files
          Vouched,   \* unity files with a receipt, for what they include
          MaxOriginals,
          MaxEdits

VARIABLES cdb, build, \* the per-file database; the build's unity and response files
          wrappers,  \* [names of wrapper files -> what is in them]
          overlay,   \* version of the overlay that every command names; odd ones are not ours
          units,     \* the database of wrappers and single sources
          job,       \* build_generated_batches
          edits
vars == <<cdb, build, wrappers, overlay, units, job, edits>>
inputs == <<cdb, build>>

None == <<>>
File(kind, context, parts) == <<kind, context, parts>>
Source(s) == File("source", 0, <<s>>)
NoUnits == [done |-> FALSE, entries |-> <<>>]
Idle == [pc |-> "idle"]
Init == /\ cdb \in Databases /\ build \in Builds
        /\ wrappers = [n \in {} |-> None] /\ overlay = 0
        /\ units = NoUnits /\ job = Idle /\ edits = 0

(* Positions, in ascending order.                                           *)
Ordered(positions) == [n \in 1..Cardinality(positions) |->
    CHOOSE i \in positions : Cardinality({j \in positions : j <= i}) = n]

-----------------------------------------------------------------------------
(* compiler_authored_unity_groups: each include must name one command of    *)
(* the database that no group has taken, and the members one context.       *)
Resolve(source) == {i \in DOMAIN cdb : cdb[i].file = source}
Resolves(u) == build.manifest[u] # <<>> /\ \A source \in ToSet(build.manifest[u]) : Cardinality(Resolve(source)) = 1
Members(u) == [k \in DOMAIN build.manifest[u] |-> CHOOSE i \in Resolve(build.manifest[u][k]) : TRUE]
OneContext(u) == \A i, j \in ToSet(Members(u)) : cdb[i].context = cdb[j].context
Context(u) == cdb[Members(u)[1]].context

(* A response file speaks for the members if its context is theirs; where   *)
(* there is none at all, the platform has to be one that writes none.       *)
Kind(u) == IF u \in Vouched THEN "exact"
           ELSE IF Context(u) \in build.response[u] THEN "rsp"
           ELSE IF build.response[u] = {} /\ Context(u) \in Apple THEN "exact" ELSE "none"
Claimed(groups) == UNION {ToSet(groups[k].members) : k \in DOMAIN groups}
AddGroup(groups, u) ==
    IF /\ Resolves(u) /\ IsInjective(Members(u)) /\ ToSet(Members(u)) \cap Claimed(groups) = {}
       /\ OneContext(u) /\ Kind(u) # "none"
    THEN Append(groups, [unity |-> u, members |-> Members(u), kind |-> Kind(u)])
    ELSE groups
Groups == LET groups == ToSet(FoldLeft(AddGroup, <<>>, Unities))
              first(g) == Min(ToSet(g.members))
              order == Ordered({first(g) : g \in groups})
          IN  [n \in DOMAIN order |-> CHOOSE g \in groups : first(g) = order[n]]

(* Generated sources go to the module whose own sources the same directory  *)
(* and context have, if that is one module.                                 *)
Sources(g) == [k \in DOMAIN g.members |-> cdb[g.members[k]].file]
ModuleRoot(groups, g) ==
    LET owner(h) == <<Folder[h.unity], cdb[h.members[1]].context>>
        homes == {Home[s] : s \in UNION {ToSet(Sources(h)) \ Generated :
                                            h \in {h \in ToSet(groups) : owner(h) = owner(g)}}}
    IN  IF Cardinality(homes) = 1 THEN CHOOSE m \in homes : TRUE ELSE Home[Sources(g)[1]]

(* main: wrappers are named by their content and the evidence; old ones     *)
(* stay for the databases that still use them.                              *)
WrapperName(g) == File(g.kind, cdb[g.members[1]].context, Sources(g))
Plain(sources) == [includes |-> sources, pure |-> TRUE]
Wrapper(groups, g) == [file |-> WrapperName(g), context |-> cdb[g.members[1]].context,
                       members |-> Sources(g), root |-> ModuleRoot(groups, g), originals |-> None]
Single(i) == [file |-> Source(cdb[i].file), context |-> cdb[i].context, members |-> <<cdb[i].file>>,
              root |-> Home[cdb[i].file], originals |-> None]
Wrap ==
    /\ job = Idle /\ ~units.done
    /\ LET groups == Groups
           names == {WrapperName(g) : g \in ToSet(groups)}
           left == Ordered(DOMAIN cdb \ Claimed(groups))
       IN /\ units' = [done |-> TRUE,
                       entries |-> [k \in DOMAIN groups |-> Wrapper(groups, groups[k])]
                                   \o [k \in DOMAIN left |-> Single(left[k])]]
          /\ wrappers' = [n \in DOMAIN wrappers \cup names |->
                            IF n \in names THEN Plain(n[3]) ELSE wrappers[n]]
    /\ UNCHANGED <<inputs, overlay, job, edits>>

-----------------------------------------------------------------------------
(* The world: somebody rewrites a wrapper or the overlay, takes away what   *)
(* an entry says of its members, or adds a command to the database.         *)
Rewrites(content) == {Plain(content.includes \o <<s>>) : s \in DOMAIN Home}
                     \cup {[content EXCEPT !.pure = FALSE]}
Edit == /\ units.done /\ edits < MaxEdits /\ edits' = edits + 1 /\ UNCHANGED <<inputs, job>>
        /\ \/ /\ \E n \in DOMAIN wrappers : \E c \in Rewrites(wrappers[n]) :
                    wrappers' = [wrappers EXCEPT ![n] = c]
              /\ UNCHANGED <<overlay, units>>
           \/ overlay' = overlay + 1 /\ UNCHANGED <<wrappers, units>>
           \/ /\ job = Idle /\ UNCHANGED <<wrappers, overlay>>
              /\ \/ \E k \in DOMAIN units.entries : units' = [units EXCEPT !.entries[k].members = None]
                 \/ \E i \in DOMAIN cdb : units' = [units EXCEPT !.entries = Append(@, Single(i))]

-----------------------------------------------------------------------------
(* build_generated_batches: the wrappers are read one after the other.  An  *)
(* overlay is validated when it is first met.                               *)
Given == units.entries
IsWrapper(e) == e.file \in DOMAIN wrappers
Begin == /\ units.done /\ job = Idle /\ UNCHANGED <<inputs, wrappers, overlay, units, edits>>
         /\ job' = [pc |-> "collect", at |-> 1, read |-> [k \in DOMAIN Given |-> None],
                    verified |-> {}, digest |-> None, result |-> <<>>]
Owned(version) == version % 2 = 0

(* The literal includes count even where the wrapper is refused.            *)
Described(e, content) == /\ content.pure /\ content.includes # <<>> /\ e.members = content.includes
                         /\ IsInjective(content.includes)
                         /\ ToSet(content.includes) \subseteq Generated /\ e.originals = None
Collect ==
    /\ job # Idle /\ job.pc = "collect" /\ UNCHANGED <<inputs, wrappers, overlay, units, edits>>
    /\ IF job.at > Len(Given) THEN job' = [job EXCEPT !.pc = "plan"]
       ELSE LET e == Given[job.at] IN
            IF ~IsWrapper(e) THEN job' = [job EXCEPT !.at = @ + 1]
            ELSE LET content == wrappers[e.file]
                     fits == Described(e, content)
                     digest == IF fits /\ job.digest = None THEN <<overlay>> ELSE job.digest
                 IN job' = [job EXCEPT !.at = @ + 1, !.read[job.at] = content.includes,
                              !.digest = digest,
                              !.verified = @ \cup {k \in {job.at} : fits /\ Owned(digest[1])}]

(* Who compiles a source, by its own command or by an include that was      *)
(* read; and who says so.                                                   *)
Count(seq, s) == Cardinality({k \in DOMAIN seq : seq[k] = s})
Alone(file) == Cardinality({k \in DOMAIN Given : Given[k].file = file})
\* Fault seed: what a refused wrapper includes does not count.
ClaimsVerified(read, s) == Alone(Source(s)) + SumFunction([k \in job.verified |-> Count(read[k], s)])
Claims(read, s) == Alone(Source(s)) + SumFunction([k \in DOMAIN read |-> Count(read[k], s)])
MetadataClaims(s) == SumFunction([k \in DOMAIN Given |-> Count(Given[k].members, s)])
Eligible(k) == /\ Alone(Given[k].file) = 1
               /\ \A s \in ToSet(job.read[k]) : Claims(job.read, s) = 1 /\ MetadataClaims(s) = 1
Packable == IF job.digest = <<overlay>> THEN {k \in job.verified : Eligible(k)} ELSE {}

(* Any grouping of eligible wrappers of one module and context.             *)
Chunk(c) == /\ Cardinality(c) \in 2..MaxOriginals
            /\ \A k, l \in c : Given[k].root = Given[l].root /\ Given[k].context = Given[l].context
Plans == {p \in SUBSET {c \in SUBSET Packable : Chunk(c)} : \A c, d \in p : c = d \/ c \cap d = {}}
Originals(c) == LET order == Ordered(c) IN [n \in DOMAIN order |-> Given[order[n]]]
Batch(c) == LET es == Originals(c) IN
    [file |-> File("batch", es[1].context, [n \in DOMAIN es |-> es[n].file]),
     context |-> es[1].context, members |-> FoldLeft(\o, <<>>, [n \in DOMAIN es |-> es[n].members]),
     root |-> es[1].root, originals |-> es]
Finish ==
    /\ job # Idle /\ job.pc = "plan" /\ UNCHANGED <<inputs, wrappers, overlay, units, edits>>
    /\ \E plan \in Plans :
          LET first == {Min(c) : c \in plan}
              kept == Ordered({k \in DOMAIN Given : k \in first \/ k \notin UNION plan})
              chunk(k) == CHOOSE c \in plan : k \in c
          IN job' = [job EXCEPT !.pc = "done",
                       !.result = [n \in DOMAIN kept |->
                            IF kept[n] \in first THEN Batch(chunk(kept[n])) ELSE Given[kept[n]]]]

-----------------------------------------------------------------------------
Next == Wrap \/ Edit \/ Begin \/ Collect \/ Finish
Spec == Init /\ [][Next]_vars

-----------------------------------------------------------------------------
(* Every command is in one wrapper of its own context, or stays.            *)
WrappedOnce ==
    units.done /\ edits = 0 => \A i \in DOMAIN cdb :
        LET there == {k \in DOMAIN Given : Given[k].context = cdb[i].context}
        IN  SumFunction([k \in there |-> Count(Given[k].members, cdb[i].file)])
            = Cardinality({j \in DOMAIN cdb : cdb[j] = cdb[i]})

(* No entry is lost in the batches.  A source of a batch is there once, and *)
(* neither a wrapper as it was read, the refused ones included, nor a       *)
(* command, nor what an entry says of its members names it elsewhere.       *)
Batches == {b \in ToSet(job.result) : b.originals # None}
Touches(k, s) == \/ Given[k].file = Source(s) \/ s \in ToSet(job.read[k]) \/ s \in ToSet(Given[k].members)
ClaimedOnce ==
    job # Idle /\ job.pc = "done" =>
        /\ \A e \in ToSet(Given) : e \in ToSet(job.result) \cup UNION {ToSet(b.originals) : b \in Batches}
        /\ \A b \in Batches, s \in DOMAIN Home :
              /\ Count(b.members, s) <= 1
              /\ Count(b.members, s) = 1 =>
                    /\ s \in Generated
                    /\ Cardinality({k \in DOMAIN Given : Touches(k, s)}) = 1

(* A batch includes the wrapper files themselves.  As long as they all hold *)
(* what was read of them, it compiles the members it names, and no source   *)
(* it compiles is compiled by anybody else.  Nothing reads them again: of a *)
(* wrapper that is rewritten after its turn nothing is said, and whoever    *)
(* takes the batches is to qualify them.                                    *)
Contents(e) == wrappers[e.file].includes
AsRead == \A k \in DOMAIN Given : IsWrapper(Given[k]) => Contents(Given[k]) = job.read[k]
Compiles(k, s) == Given[k].file = Source(s) \/ (IsWrapper(Given[k]) /\ s \in ToSet(Contents(Given[k])))
CompiledOnce ==
    job # Idle /\ job.pc = "done" /\ AsRead =>
        \A b \in Batches :
            /\ b.members = FoldLeft(\o, <<>>, [n \in DOMAIN b.originals |-> Contents(b.originals[n])])
            /\ \A e \in ToSet(b.originals) : \A s \in ToSet(Contents(e)) :
                  Cardinality({k \in DOMAIN Given : Compiles(k, s)}) = 1
EveryCommandOnce == WrappedOnce /\ ClaimedOnce /\ CompiledOnce
=============================================================================
