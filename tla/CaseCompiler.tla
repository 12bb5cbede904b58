------------------------------ MODULE CaseCompiler ------------------------------
(***************************************************************************)
(* The compiler of spec cases (compiler.py, spec_lang_yaml_ast.py,         *)
(* spec_domain.py): which clauses and export docs it accepts, and the tree *)
(* of predicates it makes of them.  The first error ends it; which one it  *)
(* is, is left out.  Left out too: the validation against the schema       *)
(* registry that comes first, and the purpose of a predicate.              *)
(***************************************************************************)
EXTENDS CaseRewriting

IsBlankText(v) == Is("str", v) /\ v.str = ""
Missing(v, k) == TextAt(v, k) = ""
Each(items, Ok(_)) == \A i \in DOMAIN items : Ok(items[i])
TextsOnly(v) == IsList(v) /\ Each(v.list, IsText)
OptionalTexts(v) == v = Null \/ TextsOnly(v)

-----------------------------------------------------------------------------
(* Expressions: one operator with a list of arguments; a literal is a      *)
(* value, whatever it looks like.                                          *)
Ill == Err("ast")
RECURSIVE CompileNode(_)
CompileFn(args) ==
    LET body == CompileNode(args[2]) IN
    IF Failed(body) THEN Ill ELSE [expr |-> [op |-> "fn", args |-> <<args[1], body>>]]
CompileCall(op, raw) ==
    LET args == EachItem(CompileNode, raw) IN
    IF \E i \in DOMAIN args : Failed(args[i]) THEN Ill ELSE [expr |-> [op |-> op, args |-> args]]
CompileNode(node) ==
    CASE IsList(node) \/ node = Dict(<<>>) -> Ill
      [] ~IsDict(node) -> node
      [] Cardinality(Keys(node)) # 1 -> Ill
      [] Has(node, "lit") -> [expr |-> [op |-> "lit", args |-> <<Get(node, "lit")>>]]
      [] Has(node, "var") -> IF IsText(Get(node, "var")) THEN [expr |-> [op |-> "var", args |-> <<Get(node, "var")>>]] ELSE Ill
      [] Has(node, "fn") ->
           IF Len(ItemsAt(node, "fn")) = 2 /\ TextsOnly(ItemsAt(node, "fn")[1]) THEN CompileFn(ItemsAt(node, "fn")) ELSE Ill
      [] OTHER -> IF IsList(Get(node, OnlyKey(node))) THEN CompileCall(OnlyKey(node), ItemsAt(node, OnlyKey(node))) ELSE Ill

CompileLeaf(raw) == IF ~IsDict(raw) \/ Keys(raw) = {} \/ Has(raw, "evaluate") THEN Ill ELSE CompileNode(raw)

-----------------------------------------------------------------------------
(* Imports: only the list form, only artifacts, every local name once.     *)
LocalNames(item) == [i \in DOMAIN ItemsAt(item, "names") |-> LocalName(item, KeyOf(ItemsAt(item, "names")[i]))]
ImportItemOk(item) ==
    /\ IsDict(item) /\ TextAt(item, "from") = "artifact" /\ Keys(item) \subseteq {"from", "names", "as"}
    /\ ItemOk(item)
    /\ Keys(Get(item, "as")) \subseteq {KeyOf(n) : n \in ToSet(ItemsAt(item, "names"))}
NormalizeImports(raw) ==
    LET items == IF IsList(raw) THEN raw.list ELSE <<>>
        locals == FlattenSeq([i \in DOMAIN items |-> LocalNames(items[i])])
    IN  CASE raw = Null -> Bound(<<>>)
          [] ~IsList(raw) -> Unbound
          [] ~Each(items, ImportItemOk) -> Unbound
          [] ~IsInjective(locals) -> Unbound
          [] OTHER -> Bound(FoldLeft(LAMBDA out, item : BindingsOf(item) @@ out, <<>>, items))

-----------------------------------------------------------------------------
(* Clauses: the predicates written, then one for each thing expected.      *)
Expected(key, left, value) ==
    Dict([imports |-> List(<<Dict([from |-> Str("artifact"), names |-> List(<<Str(key)>>), as |-> Dict(key :> Str("subject"))])>>),
          assert |-> Dict("std.eq" :> List(<<left, Dict([lit |-> value])>>))])
Subject == Dict([var |-> Str("subject")])
SummaryPart(key) == Dict("std.get_or" :> List(<<Subject, Dict([lit |-> Str(key)]), Dict([lit |-> Null])>>))
LowerExpectSteps(expect) ==
    LET plain == SelectSeq(<<"violation_count", "status">>, LAMBDA k : Has(expect, k))
        summary == Get(expect, "summary_json")
        keys == SetToSeq(Keys(summary))
    IN  [i \in DOMAIN plain |-> Expected(plain[i], Subject, Get(expect, plain[i]))]
        \o [i \in DOMAIN keys |-> Expected("summary_json", SummaryPart(keys[i]), Get(summary, keys[i]))]

Positive(v, k) == ~Has(v, k) \/ (IsIndex(Get(v, k)) /\ AsInt(Get(v, k)) >= 1)
Whether(v, k, default) == IF Has(v, k) THEN Get(v, k) ELSE default
ClausesOk(clauses) ==
    LET defaults == Get(clauses, "defaults") IN
    /\ {"class", "target", "on", "imports"} \cap Keys(defaults) = {}
    /\ Is("bool", Whether(defaults, "required", Bool(TRUE)))
    /\ NormalizeImports(Get(clauses, "imports")).ok
    /\ Get(clauses, "predicates") = Null \/ IsList(Get(clauses, "predicates"))
PredicateOk(step) ==
    /\ IsDict(step) /\ {"class", "target", "on"} \cap Keys(step) = {}
    /\ Is("bool", Whether(step, "required", Bool(TRUE)))
    /\ Positive(step, "priority") /\ Positive(step, "severity")
    /\ ~IsBlankText(Get(step, "purpose"))
    /\ NormalizeImports(Get(step, "imports")).ok
    /\ IsDict(Get(step, "assert")) \/ ItemsAt(step, "assert") # <<>>

(* Slip: the clauses' imports win over the predicate's. *)
RootWins(clauses, step) == NormalizeImports(Get(clauses, "imports")).of @@ NormalizeImports(Get(step, "imports")).of
MergedImports(clauses, step) == NormalizeImports(Get(step, "imports")).of @@ NormalizeImports(Get(clauses, "imports")).of
Predicate(clauses, step, i) ==
    [id |-> IdOf(step, i), required |-> Whether(step, "required", Whether(Get(clauses, "defaults"), "required", Bool(TRUE))).bool,
     priority |-> AsInt(Whether(step, "priority", Num(1))), severity |-> AsInt(Whether(step, "severity", Num(1))),
     imports |-> MergedImports(clauses, step),
     asserts |-> IF IsDict(Get(step, "assert")) THEN <<Get(step, "assert")>> ELSE ItemsAt(step, "assert")]

Refused == [ok |-> FALSE, tree |-> <<>>]
CompileAssertTree(raw, expect) ==
    LET clauses == IF raw = Null THEN Dict(<<>>) ELSE raw
        steps == ItemsAt(clauses, "predicates") \o LowerExpectSteps(expect)
        tree == [i \in DOMAIN steps |-> Predicate(clauses, steps[i], i)]
        Sound(p) == \A j \in DOMAIN p.asserts : ~Failed(CompileLeaf(p.asserts[j]))
    IN  IF IsDict(clauses) /\ ClausesOk(clauses) /\ Each(steps, PredicateOk)
        THEN IF IsInjective([i \in DOMAIN tree |-> tree[i].id]) /\ Each(tree, Sound) THEN [ok |-> TRUE, tree |-> tree] ELSE Refused
        ELSE Refused

-----------------------------------------------------------------------------
(* The docs of a case that exports functions.                              *)
CaseDocKeys == {"summary", "description", "audience", "since", "tags", "see_also", "deprecated"}
ExportDocKeys == {"summary", "description", "params", "returns", "errors", "examples", "portability", "see_also", "since", "deprecated"}
Stabilities == {"alpha", "beta", "stable", "internal"}
Runtimes == {"python", "php", "rust"}
DomainOk(case) == Get(case, "domain") = Null \/ IsText(Get(case, "domain"))
Domain(case) == IF IsText(Get(case, "domain")) THEN TextAt(case, "domain") ELSE ""

(* A name has the domain as its prefix; <<domain, name>> once, whether or  *)
(* not it was written with it.                                             *)
Prefixed == "a.b" :> <<"a", "b">>
Canonical(domain, as) ==
    IF domain = "" THEN <<"", as>>
    ELSE IF as \in DOMAIN Prefixed /\ Prefixed[as][1] = domain THEN Prefixed[as] ELSE <<domain, as>>
DeprecatedOk(v) == v = Null \/ (IsDict(v) /\ ~Missing(v, "replacement") /\ ~Missing(v, "reason"))
RootDocOk(doc) ==
    /\ IsDict(doc) /\ Keys(doc) \subseteq CaseDocKeys
    /\ \A k \in {"summary", "description", "audience", "since"} : ~Missing(doc, k)
    /\ OptionalTexts(Get(doc, "tags")) /\ OptionalTexts(Get(doc, "see_also")) /\ DeprecatedOk(Get(doc, "deprecated"))
LibraryOk(library) ==
    /\ IsDict(library) /\ \A k \in {"id", "module", "owner"} : ~Missing(library, k)
    /\ TextAt(library, "stability") \in Stabilities /\ OptionalTexts(Get(library, "tags"))

ParamOk(item) ==
    /\ IsDict(item) /\ \A k \in {"name", "type", "description"} : ~Missing(item, k)
    /\ Is("bool", Get(item, "required"))
ErrorOk(item) ==
    /\ IsDict(item) /\ ~Missing(item, "code") /\ ~Missing(item, "when")
    /\ TextAt(item, "category") \in {"schema", "assertion", "runtime"}
ExampleOk(item) == IsDict(item) /\ ~Missing(item, "title") /\ Get(item, "input") # Null /\ Get(item, "expected") # Null
NamesOf(doc) == [i \in DOMAIN ItemsAt(doc, "params") |-> Str(TextAt(ItemsAt(doc, "params")[i], "name"))]
PortabilityOk(v) == IsDict(v) /\ \A k \in Runtimes : Is("bool", Get(v, k))
DocOk(doc, params) ==
    /\ IsDict(doc) /\ Keys(doc) \subseteq ExportDocKeys /\ ~Missing(doc, "summary") /\ ~Missing(doc, "description")
    /\ ItemsAt(doc, "params") # <<>> /\ Each(ItemsAt(doc, "params"), ParamOk) /\ NamesOf(doc) = params
    /\ IsDict(Get(doc, "returns")) /\ ~Missing(Get(doc, "returns"), "type") /\ ~Missing(Get(doc, "returns"), "description")
    /\ ItemsAt(doc, "errors") # <<>> /\ Each(ItemsAt(doc, "errors"), ErrorOk)
    /\ ItemsAt(doc, "examples") # <<>> /\ Each(ItemsAt(doc, "examples"), ExampleOk)
    /\ PortabilityOk(Get(doc, "portability"))
    /\ OptionalTexts(Get(doc, "see_also")) /\ DeprecatedOk(Get(doc, "deprecated"))
ExportOk(export) ==
    /\ IsDict(export) /\ ~Missing(export, "as") /\ TextsOnly(Get(export, "params"))
    /\ DocOk(Get(export, "doc"), ItemsAt(export, "params"))

ExportsOf(case) == ItemsAt(Get(case, "harness"), "exports")
CanonicalNames(case) == [i \in DOMAIN ExportsOf(case) |-> Canonical(Domain(case), TextAt(ExportsOf(case)[i], "as"))]
ExportDocsOk(case) ==
    /\ DomainOk(case) /\ RootDocOk(Get(case, "doc")) /\ LibraryOk(Get(case, "library"))
    /\ ExportsOf(case) # <<>> /\ Each(ExportsOf(case), ExportOk)
    /\ IsInjective(CanonicalNames(case))

(* A case: its exports, or its clauses. *)
CompileCase(case) ==
    CASE Missing(case, "id") \/ Missing(case, "type") -> Refused
      [] ~(Get(case, "harness") = Null \/ IsDict(Get(case, "harness"))) -> Refused
      [] TextAt(case, "type") = "contract.export" -> IF ExportDocsOk(case) THEN [ok |-> TRUE, tree |-> <<>>] ELSE Refused
      [] OTHER -> CompileAssertTree(Get(case, "clauses"), Get(case, "expect"))
=============================================================================
