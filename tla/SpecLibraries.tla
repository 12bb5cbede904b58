--------------------------- MODULE SpecLibraries ----------------------------
(***************************************************************************)
(* Libraries of the expression language: the files a case includes, the    *)
(* files those import, and the symbols the case gets of them               *)
(* (spec_lang_libraries.py, virtual_paths.py, external_refs.py).           *)
(* A tree maps a path to its document: [imports, cases], a case being      *)
(* [public, private] and each of these a sequence of [name, expr].         *)
(***************************************************************************)
EXTENDS SpecLang

(* A reference is [parts |-> ...], a path of the contract tree, or         *)
(* [provider |-> ...], an external one.                                    *)
Escapes == Err("escapes")
(* Slip: as for the files of a case, a step above the root is no step. *)
StaysAtRoot(parts) ==
    FoldLeft(LAMBDA out, part :
        CASE part \in {"", "."} -> out
          [] part = ".." -> [path |-> IF out.path = <<>> THEN <<>> ELSE Front(out.path)]
          [] OTHER -> [path |-> Append(out.path, part)], [path |-> <<>>], parts)
NormalizeContractPath(parts) ==
    FoldLeft(LAMBDA out, part :
        CASE Failed(out) \/ part \in {"", "."} -> out
          [] part = ".." -> IF out.path = <<>> THEN Escapes ELSE [path |-> Front(out.path)]
          [] OTHER -> [path |-> Append(out.path, part)], [path |-> <<>>], parts)

(* An external reference needs the mode, the capability and the provider   *)
(* to be allowed; no resolver is registered for any.                       *)
ExternalAllowed(ref, policy) ==
    policy.mode = "allow" /\ "external.ref.v1" \in policy.caps /\ ref.provider \in policy.providers
ResolveExternal(ref, policy) ==
    IF ExternalAllowed(ref, policy) THEN Err("no resolver") ELSE Err("denied")

ResolveLibrary(tree, ref, policy) ==
    IF Is("provider", ref) THEN ResolveExternal(ref, policy)
    ELSE LET to == NormalizeContractPath(ref.parts)
         IN  IF Failed(to) \/ to.path \in DOMAIN tree THEN to ELSE Err("no file")

-----------------------------------------------------------------------------
NamesOf(scope) == [i \in 1 .. Len(scope) |-> scope[i].name]

(* The definitions of a case, the public ones first; then those of the     *)
(* file, where a repetition must be the same.                              *)
CaseBindings(case) == case.public \o case.private
CaseOk(case) ==
    /\ CaseBindings(case) # <<>>
    /\ ~Repeats(NamesOf(CaseBindings(case)))
AddBinding(out, b) == IF Contains(out, b) THEN out ELSE Append(out, b)
FileBindings(doc) ==
    FoldLeft(LAMBDA out, case : FoldLeft(AddBinding, out, CaseBindings(case)), <<>>, doc.cases)
FileOk(doc) ==
    /\ \A i \in 1 .. Len(doc.cases) : CaseOk(doc.cases[i])
    /\ FileBindings(doc) # <<>>
    /\ ~Repeats(NamesOf(FileBindings(doc)))
FileExports(doc) == UNION {ToSet(NamesOf(doc.cases[i].public)) : i \in 1 .. Len(doc.cases)}

(* The export of one case to a chain: its own definitions alone, and the   *)
(* names of the public ones.                                               *)
CasePublicSymbols(case, s) ==
    IF ~CaseOk(case) THEN Fail("definitions", s)
    ELSE LET all == CaseBindings(case)
             r == CompileSymbols(NamesOf(all), [i \in 1 .. Len(all) |-> all[i].expr], s)
         IN  IF Failed(r.v) THEN r
             ELSE Ok(Dict(Keyed(r.s.heap[Len(s.heap) + 1].vars, ToSet(NamesOf(case.public)))), r.s)

-----------------------------------------------------------------------------
(* The files in the order in which they are complete: a depth first walk   *)
(* that leaves a file after everything it imports.                         *)
NoWalk == [visiting |-> {}, ordered |-> <<>>, err |-> "none"]
Stop(walk, why) == [walk EXCEPT !.err = why]

RECURSIVE Visit(_, _, _, _), VisitImport(_, _, _, _)
(* Slip: a file is done with when the walk enters it. *)
RECURSIVE VisitEarly(_, _, _, _)
VisitEarly(tree, policy, path, walk) ==
    CASE walk.err # "none" \/ Contains(walk.ordered, path) -> walk
      [] ~FileOk(tree[path]) -> Stop(walk, "definitions")
      [] OTHER -> FoldLeft(LAMBDA w, ref : VisitImport(tree, policy, ref, w),
                           [walk EXCEPT !.ordered = Append(@, path)], tree[path].imports)
Visit(tree, policy, path, walk) ==
    CASE walk.err # "none" \/ Contains(walk.ordered, path) -> walk
      [] path \in walk.visiting -> Stop(walk, "cycle")
      [] ~FileOk(tree[path]) -> Stop(walk, "definitions")
      [] OTHER ->
            LET below == FoldLeft(LAMBDA w, ref : VisitImport(tree, policy, ref, w),
                                  [walk EXCEPT !.visiting = @ \cup {path}], tree[path].imports)
            IN  IF below.err # "none" THEN below
                ELSE [below EXCEPT !.visiting = @ \ {path}, !.ordered = Append(@, path)]
VisitImport(tree, policy, ref, walk) ==
    IF walk.err # "none" THEN walk
    ELSE LET to == ResolveLibrary(tree, ref, policy)
         IN  IF Failed(to) THEN Stop(walk, to.err) ELSE Visit(tree, policy, to.path, walk)

Walk(tree, policy, refs) ==
    FoldLeft(LAMBDA w, ref : VisitImport(tree, policy, ref, w), NoWalk, refs)

(* What a case gets: all symbols are compiled together, in the order of    *)
(* the files; it is given those it asks for, or those the files export.    *)
LoadSymbols(tree, policy, includes, exports, s) ==
    LET walk == Walk(tree, policy, includes)
        files == [i \in 1 .. Len(walk.ordered) |-> tree[walk.ordered[i]]]
        all == FlattenSeq([i \in 1 .. Len(files) |-> FileBindings(files[i])])
        allowed == IF exports # {} THEN exports
                   ELSE UNION {FileExports(files[i]) : i \in 1 .. Len(files)}
        r == CompileSymbols(NamesOf(all), [i \in 1 .. Len(all) |-> all[i].expr], s)
        compiled == r.s.heap[Len(s.heap) + 1].vars
    IN  CASE includes = <<>> -> Ok(Dict(<<>>), s)
          [] walk.err # "none" -> Fail(walk.err, s)
          [] Repeats(NamesOf(all)) -> Fail("duplicate", s)
          [] ~allowed \subseteq ToSet(NamesOf(all)) -> Fail("unknown export", s)
          [] Failed(r.v) -> r
          [] OTHER -> Ok(Dict(IF allowed = {} THEN compiled ELSE Keyed(compiled, allowed)), r.s)

-----------------------------------------------------------------------------
(* What a case may rely on of the libraries it includes. *)

(* A contract path is refused exactly when one of its steps leaves the     *)
(* root, wherever the later ones lead; else it is as deep as its names     *)
(* less its climbs.                                                        *)
ContractPathStaysInside(parts) ==
    LET Depth(n) == Cardinality({i \in 1 .. n : parts[i] \notin {"", ".", ".."}})
                    - Cardinality({i \in 1 .. n : parts[i] = ".."})
        to == NormalizeContractPath(parts)
    IN  IF \E n \in 1 .. Len(parts) : Depth(n) < 0 THEN Failed(to)
        ELSE ~Failed(to) /\ Len(to.path) = Depth(Len(parts))

-----------------------------------------------------------------------------
ImportsOf(tree, path) ==
    {NormalizeContractPath(tree[path].imports[i].parts).path : i \in 1 .. Len(tree[path].imports)}
RECURSIVE Below(_, _)
Below(tree, paths) ==
    LET more == paths \cup UNION {ImportsOf(tree, p) : p \in paths}
    IN  IF more = paths THEN paths ELSE Below(tree, more)
Starts(includes) == {NormalizeContractPath(includes[i].parts).path : i \in 1 .. Len(includes)}
Needed(tree, includes) == Below(tree, Starts(includes))
Cyclic(tree, includes) == \E p \in Needed(tree, includes) : p \in Below(tree, ImportsOf(tree, p))

(* Every file a case needs, and no other, is loaded once, after all files  *)
(* it imports, in whatever order and however often they are named; a       *)
(* cycle, and only a cycle, among the files needed is reported.            *)
LoadedOnceAfterImports(tree, policy, includes) ==
    LET walk == Walk(tree, policy, includes)
        at == [p \in Needed(tree, includes) |-> CHOOSE i \in 1 .. Len(walk.ordered) : walk.ordered[i] = p]
    IN  IF Cyclic(tree, includes) THEN walk.err = "cycle"
        ELSE /\ walk.err = "none"
             /\ ToSet(walk.ordered) = Needed(tree, includes)
             /\ Len(walk.ordered) = Cardinality(ToSet(walk.ordered))
             /\ \A p \in DOMAIN at : \A q \in ImportsOf(tree, p) : at[q] < at[p]

Symbols(tree, policy, includes, exports) ==
    LoadSymbols(tree, policy, includes, exports, Start(Plain(Lit(Null))))
Answers(r, names) == [n \in names |-> ApplyTo(r.v.dict[n], <<Num(1)>>, r.s).v]

(* When a file reads only what it imports, the order of the includes       *)
(* changes neither the symbols a case gets nor what they compute.          *)
OrderOfIncludesIrrelevant(tree, policy, includes) ==
    LET r == Symbols(tree, policy, includes, {})
        q == Symbols(tree, policy, Reverse(includes), {})
    IN  IF Failed(r.v) THEN Failed(q.v)
        ELSE /\ ~Failed(q.v)
             /\ DOMAIN r.v.dict = DOMAIN q.v.dict
             /\ Answers(r, DOMAIN r.v.dict) = Answers(q, DOMAIN r.v.dict)

(* Without a list of its own a case gets public symbols alone; with one it *)
(* gets those of the list, computing what they compute without it.         *)
PrivateOnlyOnRequest(tree, policy, includes, exports) ==
    LET all == Symbols(tree, policy, includes, {})
        some == Symbols(tree, policy, includes, exports)
        public == UNION {FileExports(tree[p]) : p \in Needed(tree, includes)}
    IN  /\ ~Failed(all.v) => DOMAIN all.v.dict = public
        /\ ~Failed(some.v) /\ exports # {} => DOMAIN some.v.dict = exports
        /\ ~Failed(all.v) /\ ~Failed(some.v) =>
               LET both == exports \cap public IN Answers(all, both) = Answers(some, both)

(* An external reference is never followed: with all permissions there is  *)
(* still no resolver, and with one missing it is denied before that.       *)
ExternalNeverLoads(tree, policy, ref, includes) ==
    LET walk == Walk(tree, policy, <<ref>> \o includes)
    IN  /\ walk.ordered = <<>>
        /\ walk.err = IF ExternalAllowed(ref, policy) THEN "no resolver" ELSE "denied"
=============================================================================
