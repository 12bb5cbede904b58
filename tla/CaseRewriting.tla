----------------------------- MODULE CaseRewriting -----------------------------
(***************************************************************************)
(* The formatter of spec cases (spec_lang_hygiene.py): what it makes of    *)
(* the expressions, the imports and the clauses of a case.  A case is the  *)
(* value its YAML text loads to.  Left out: the layout of the YAML that is *)
(* written, blanks around names, and the `changed` flags, which no caller  *)
(* reads.  A sorted list of names is their set in some fixed order.        *)
(***************************************************************************)
EXTENDS SpecValues

Groups == {"MUST", "MAY", "MUST_NOT"}
Legacy == [must |-> "MUST", can |-> "MAY", cannot |-> "MUST_NOT"]
Ids == <<"step_001", "step_002", "step_003", "step_004", "step_005", "step_006">>

IsDict(v) == Is("dict", v)
IsList(v) == Is("list", v)
IsText(v) == Is("str", v) /\ v.str # ""
Keys(v) == IF IsDict(v) THEN DOMAIN v.dict ELSE {}
Has(v, k) == k \in Keys(v)
Get(v, k) == IF Has(v, k) THEN v.dict[k] ELSE Null
TextAt(v, k) == IF Has(v, k) THEN KeyOf(v.dict[k]) ELSE ""
ItemsAt(v, k) == IF IsList(Get(v, k)) THEN Get(v, k).list ELSE <<>>
Set(v, k, x) == Dict([key \in Keys(v) \cup {k} |-> IF key = k THEN x ELSE v.dict[key]])
Without(v, ks) == Dict([key \in Keys(v) \ ks |-> v.dict[key]])
IsOnly(v, k) == IsDict(v) /\ DOMAIN v.dict = {k}
OnlyKey(v) == CHOOSE k \in Keys(v) : TRUE
EachItem(Op(_), items) == [i \in DOMAIN items |-> Op(items[i])]

-----------------------------------------------------------------------------
(* Expressions.  An operator's name has a dot; a text that has one is      *)
(* taken for an operator's.                                                *)
Dotted == {"std.eq", "ops.run", "a.b", "m.f", "m.g", "m.h", "ops.job.dispatch"}
IsOperatorish(key) == key \in Dotted \cup {"var", "fn", "lit"}

RECURSIVE Bare(_)
Bare(v) == IF IsOnly(v, "lit") THEN Bare(Get(v, "lit")) ELSE v

Lifts(node) ==
    LET raw == Get(node, "evaluate") IN
    /\ IsOnly(node, "evaluate")
    /\ IsDict(raw) \/ (IsList(raw) /\ Len(raw.list) = 1 /\ IsDict(raw.list[1]))
Lifted(node) == LET raw == Get(node, "evaluate") IN IF IsDict(raw) THEN raw ELSE raw.list[1]

RECURSIVE NormalizeExpr(_)
NormalizeLit(node) ==
    LET v == Bare(Get(node, "lit")) IN
    IF IsDict(v) /\ Cardinality(Keys(v)) = 1 /\ IsOperatorish(OnlyKey(v)) THEN NormalizeExpr(v) ELSE Dict([lit |-> v])
NormalizeFn(args) ==
    LET params == IF IsOnly(args[1], "lit") /\ IsList(Get(args[1], "lit")) THEN Get(args[1], "lit") ELSE args[1]
        named == IsList(params) /\ \A i \in DOMAIN params.list : IsText(params.list[i])
    IN  Dict([fn |-> List(<<IF named THEN params ELSE NormalizeExpr(params), NormalizeExpr(args[2])>>)])
NormalizeExpr(node) ==
    CASE IsList(node) -> List(EachItem(NormalizeExpr, node.list))
      [] ~IsDict(node) -> node
      [] Lifts(node) -> NormalizeExpr(Lifted(node))
      [] IsOnly(node, "lit") -> NormalizeLit(node)
      [] IsOnly(node, "fn") /\ Len(ItemsAt(node, "fn")) = 2 -> NormalizeFn(ItemsAt(node, "fn"))
      [] OTHER -> Dict(EachItem(NormalizeExpr, node.dict))

(* Assertions: lists, a class with its asserts, groups, and a literal that *)
(* wraps a group.                                                          *)
GroupsIn(node) == Keys(node) \cap Groups
GroupKeys == <<"MUST", "MAY", "MUST_NOT", "must", "can", "cannot">>
QuotedGroup(node) ==
    LET quoted == SelectSeq(GroupKeys, LAMBDA k : IsOnly(node, "lit") /\ Has(Get(node, "lit"), k))
    IN  IF quoted = <<>> THEN "" ELSE quoted[1]
GroupName(key) == IF key \in Groups THEN key ELSE Legacy[key]

RECURSIVE NormalizeAssert(_)
Spread(node, class) ==
    LET child == NormalizeAssert(node) IN
    IF IsOnly(child, class) /\ IsList(Get(child, class)) THEN Get(child, class).list ELSE <<child>>
Asserts(node) == EachItem(NormalizeAssert, node.list)
NormalizeStepNode(node) ==
    IF ~IsList(Get(node, "asserts")) THEN node
    ELSE Set(node, "asserts", List(FlattenSeq([i \in DOMAIN ItemsAt(node, "asserts") |->
                                     Spread(ItemsAt(node, "asserts")[i], TextAt(node, "class"))])))
NormalizeGroups(node) ==
    Dict([k \in Keys(node) |-> IF k \in Groups /\ IsList(Get(node, k)) THEN List(Asserts(Get(node, k))) ELSE node.dict[k]])
NormalizeLeaf(node) ==
    LET expr == NormalizeExpr(node)
        key == QuotedGroup(expr)
    IN  IF key # "" /\ IsList(Get(Get(expr, "lit"), key))
        THEN Dict(GroupName(key) :> List(Asserts(Get(Get(expr, "lit"), key)))) ELSE expr
NormalizeAssert(node) ==
    CASE IsList(node) -> List(Asserts(node))
      [] ~IsDict(node) -> node
      [] TextAt(node, "class") \in Groups /\ Has(node, "asserts") -> NormalizeStepNode(node)
      [] GroupsIn(node) # {} -> NormalizeGroups(node)
      [] OTHER -> NormalizeLeaf(node)

RECURSIVE VarSymbols(_)
VarSymbols(node) ==
    (IF IsOnly(node, "var") THEN {TextAt(node, "var")} \ {""} ELSE {})
    \cup UNION {VarSymbols(node.dict[k]) : k \in Keys(node)}
    \cup (IF IsList(node) THEN UNION {VarSymbols(node.list[i]) : i \in DOMAIN node.list} ELSE {})

RECURSIVE ReplaceVar(_, _, _)
ReplaceVar(node, old, new) ==
    LET Inside(n) == ReplaceVar(n, old, new) IN
    CASE IsOnly(node, "var") /\ TextAt(node, "var") = old -> Dict([var |-> Str(new)])
      [] IsDict(node) -> Dict(EachItem(Inside, node.dict))
      [] IsList(node) -> List(EachItem(Inside, node.list))
      [] OTHER -> node

-----------------------------------------------------------------------------
(* Imports.  Bindings map a local name to the source it stands for; text   *)
(* may be a mapping of bindings or a list of [from, names, as].            *)
Sources == {"artifact", "symbol"}
Binding(from, key) == [from |-> from, key |-> key]
Bound(bindings) == [ok |-> TRUE, of |-> bindings]
Unbound == [ok |-> FALSE, of |-> <<>>]

(* The names an item of the list form binds, in order; a later one wins. *)
ItemOk(item) ==
    /\ TextAt(item, "from") \in Sources
    /\ ItemsAt(item, "names") # <<>> /\ \A i \in DOMAIN ItemsAt(item, "names") : KeyOf(ItemsAt(item, "names")[i]) # ""
    /\ Get(item, "as") = Null \/ IsDict(Get(item, "as"))
    /\ \A k \in Keys(Get(item, "as")) : k # "" /\ TextAt(Get(item, "as"), k) # ""
LocalName(item, name) == IF Has(Get(item, "as"), name) THEN TextAt(Get(item, "as"), name) ELSE name
BindingsOf(item) ==
    FoldLeft(LAMBDA out, name : (LocalName(item, KeyOf(name)) :> Binding(TextAt(item, "from"), KeyOf(name))) @@ out,
             <<>>, ItemsAt(item, "names"))
ImportsAnyToMap(raw) ==
    CASE raw = Null -> Bound(<<>>)
      [] IsDict(raw) ->
           IF \A n \in Keys(raw) : n # "" /\ TextAt(raw.dict[n], "from") \in Sources /\ TextAt(raw.dict[n], "key") # ""
           THEN Bound([n \in Keys(raw) |-> Binding(TextAt(raw.dict[n], "from"), TextAt(raw.dict[n], "key"))]) ELSE Unbound
      [] IsList(raw) ->
           IF \A i \in DOMAIN raw.list : ItemOk(raw.list[i])
           THEN Bound(FoldLeft(LAMBDA out, item : BindingsOf(item) @@ out, <<>>, raw.list)) ELSE Unbound
      [] OTHER -> Unbound

(* One item per source; a key has one alias, though it may have more local *)
(* names than one.                                                         *)
Texts(set) == List(EachItem(Str, SetToSeq(set)))
Aliases(bindings, from) ==
    LET renamed == {n \in DOMAIN bindings : bindings[n].from = from /\ bindings[n].key # n}
    IN  Dict([k \in {bindings[n].key : n \in renamed} |-> Str(CHOOSE n \in renamed : bindings[n].key = k)])
ImportItem(bindings, from) ==
    LET item == Dict([from |-> Str(from), names |-> Texts({bindings[n].key : n \in {m \in DOMAIN bindings : bindings[m].from = from}})])
        aliases == Aliases(bindings, from)
    IN  IF Keys(aliases) = {} THEN item ELSE Set(item, "as", aliases)
ImportsMapToList(bindings) ==
    LET used == SetToSeq({bindings[n].from : n \in DOMAIN bindings})
    IN  List([i \in DOMAIN used |-> ImportItem(bindings, used[i])])

-----------------------------------------------------------------------------
(* Clauses.  While they are rewritten a step is [body, imports]: its text  *)
(* without the imports, and their bindings.                                *)
TargetOf(v) == IF Has(v, "target") THEN TextAt(v, "target") ELSE TextAt(v, "on")
WithSubject(bindings, target) ==
    IF target = "" THEN bindings ELSE bindings @@ ("subject" :> Binding("artifact", target))
IdOf(step, i) == IF TextAt(step, "id") = "" THEN Ids[i] ELSE TextAt(step, "id")
AssertOf(step) == IF Has(step, "assert") THEN Get(step, "assert") ELSE Get(step, "asserts")
NormalizedAssert(raw) ==
    IF IsList(raw) /\ Len(raw.list) = 1 THEN NormalizeAssert(raw.list[1]) ELSE NormalizeAssert(raw)

(* A name for the subject is replaced by the name of what it stands for,   *)
(* when the assertion does not mention that already.                       *)
SubjectKey(bindings) ==
    IF "subject" \in DOMAIN bindings /\ bindings["subject"].from = "artifact" THEN bindings["subject"].key ELSE ""
Renames(key) == key \notin {"", "subject"}
WithoutSubject(bindings, key) ==
    [n \in (DOMAIN bindings \ {"subject"}) \cup {key} |-> IF n \in DOMAIN bindings THEN bindings[n] ELSE Binding("artifact", key)]
SimplifyStep(step) ==
    LET key == SubjectKey(step.imports)
        refs == VarSymbols(Get(step.body, "assert"))
    IN  IF Renames(key) /\ "subject" \in refs /\ key \notin refs
        THEN [body |-> Set(step.body, "assert", ReplaceVar(Get(step.body, "assert"), "subject", key)),
              imports |-> WithoutSubject(step.imports, key)]
        ELSE step

NormalizeStep(raw, i) ==
    IF ~IsDict(raw) THEN [body |-> Dict([id |-> Str(Ids[i]), assert |-> raw]), imports |-> <<>>]
    ELSE LET moved == IF Has(raw, "asserts") /\ ~Has(raw, "assert")
                      THEN Without(Set(raw, "assert", Get(raw, "asserts")), {"asserts"}) ELSE raw
             aimed == Without(moved, IF Has(raw, "target") THEN {"target"} ELSE {"on"})
             tidy == IF Get(aimed, "assert") = Null THEN aimed ELSE Set(aimed, "assert", NormalizedAssert(Get(aimed, "assert")))
             named == Set(tidy, "id", IF TextAt(tidy, "id") = "" THEN Str(Ids[i]) ELSE Get(tidy, "id"))
             classed == IF TextAt(named, "class") \in {"", "MUST"} THEN Without(named, {"class"}) ELSE named
         IN  SimplifyStep([body |-> Without(classed, {"imports"}),
                           imports |-> WithSubject(ImportsAnyToMap(Get(raw, "imports")).of, TargetOf(raw))])

(* The same for all steps at once. *)
RenamesAll(imports, steps) ==
    LET key == SubjectKey(imports) IN
    /\ Renames(key) /\ key \notin DOMAIN imports
    /\ \A i \in DOMAIN steps :
           /\ {"subject", key} \cap DOMAIN steps[i].imports = {}
           /\ ~({"subject", key} \subseteq VarSymbols(Get(steps[i].body, "assert")))
RenameAll(steps, key) ==
    [i \in DOMAIN steps |-> IF "subject" \in VarSymbols(Get(steps[i].body, "assert"))
                            THEN [steps[i] EXCEPT !.body = Set(@, "assert", ReplaceVar(Get(@, "assert"), "subject", key))]
                            ELSE steps[i]]

(* Without imports of its own a contract takes those of its steps, the     *)
(* first step's first; steps keep what differs from the contract.          *)
(* Slip: a step gives up every name the contract binds. *)
DropsOverrides(step, imports) == [step EXCEPT !.imports = [n \in DOMAIN @ \ DOMAIN imports |-> @[n]]]
Reduce(step, imports) ==
    [step EXCEPT !.imports = [n \in {m \in DOMAIN @ : m \notin DOMAIN imports \/ imports[m] # @[m]} |-> @[n]]]
Seeded(imports, steps) ==
    IF DOMAIN imports # {} THEN imports ELSE FoldLeft(LAMBDA out, step : out @@ step.imports, <<>>, steps)
WithImports(v, bindings) == IF DOMAIN bindings = {} THEN v ELSE Set(v, "imports", ImportsMapToList(bindings))

Importable(contract) ==
    /\ ImportsAnyToMap(Get(contract, "imports")).ok
    /\ ImportsAnyToMap(Get(Get(contract, "defaults"), "imports")).ok
    /\ Get(contract, "steps") = Null \/ IsList(Get(contract, "steps"))
    /\ \A i \in DOMAIN ItemsAt(contract, "steps") :
           IsDict(ItemsAt(contract, "steps")[i]) => ImportsAnyToMap(Get(ItemsAt(contract, "steps")[i], "imports")).ok
NormalizeMapping(contract) ==
    LET defaults == Without(Get(contract, "defaults"), {"imports", IF Has(Get(contract, "defaults"), "target") THEN "target" ELSE "on"})
        given == WithSubject(ImportsAnyToMap(Get(contract, "imports")).of, TargetOf(Get(contract, "defaults")))
                 @@ ImportsAnyToMap(Get(Get(contract, "defaults"), "imports")).of
        raw == ItemsAt(contract, "steps")
        first == [i \in DOMAIN raw |-> NormalizeStep(raw[i], i)]
        key == SubjectKey(given)
        together == RenamesAll(given, first)
        steps == IF together THEN RenameAll(first, key) ELSE first
        imports == Seeded(IF together THEN WithoutSubject(given, key) ELSE given, steps)
        Written(step) == WithImports(Reduce(step, imports).body, Reduce(step, imports).imports)
    IN  WithImports(Dict([defaults |-> IF Has(defaults, "class") THEN defaults ELSE Set(defaults, "class", Str("MUST")),
                          steps |-> List(EachItem(Written, steps))]), imports)

(* The older form, a list of steps. *)
NormalizeListed(raw, i) ==
    IF ~IsDict(raw) THEN Dict([id |-> Str(Ids[i]), assert |-> raw])
    ELSE LET plain == Dict([id |-> Str(IdOf(raw, i)), assert |-> NormalizedAssert(AssertOf(raw))])
             classed == IF TextAt(raw, "class") \in {"", "MUST"} THEN plain ELSE Set(plain, "class", Get(raw, "class"))
         IN  WithImports(classed, WithSubject(ImportsAnyToMap(Get(raw, "imports")).of, TargetOf(raw)))
NormalizeContract(node) ==
    CASE IsDict(node) -> IF Importable(node) THEN NormalizeMapping(node) ELSE node
      [] IsList(node) ->
           IF \A i \in DOMAIN node.list : IsDict(node.list[i]) => ImportsAnyToMap(Get(node.list[i], "imports")).ok
           THEN Dict([defaults |-> Dict([class |-> Str("MUST")]),
                      steps |-> List([i \in DOMAIN node.list |-> NormalizeListed(node.list[i], i)])])
           ELSE node
      [] OTHER -> node

(* A case: the clauses are looked at only when it also has a contract. *)
NormalizeHooks(when) ==
    Dict([k \in Keys(when) |-> IF IsList(Get(when, k)) THEN List(EachItem(NormalizeExpr, Get(when, k).list)) ELSE Get(when, k)])
NormalizeDefines(defines) ==
    Dict([s \in Keys(defines) |-> IF IsDict(Get(defines, s)) THEN Dict(EachItem(NormalizeExpr, Get(defines, s).dict)) ELSE Get(defines, s)])
NormalizeCase(case) ==
    LET clauses == IF Has(case, "contract") THEN Set(case, "clauses", NormalizeContract(Get(case, "clauses"))) ELSE case
        hooks == IF IsDict(Get(case, "when")) THEN Set(clauses, "when", NormalizeHooks(Get(case, "when"))) ELSE clauses
    IN  IF IsDict(Get(case, "defines")) THEN Set(hooks, "defines", NormalizeDefines(Get(case, "defines"))) ELSE hooks
NormalizePayload(payload) ==
    IF IsList(payload) THEN List([i \in DOMAIN payload.list |-> IF IsDict(payload.list[i]) THEN NormalizeCase(payload.list[i]) ELSE payload.list[i]])
    ELSE IF IsDict(payload) THEN NormalizeCase(payload) ELSE payload
=============================================================================
