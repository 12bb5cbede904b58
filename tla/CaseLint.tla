-------------------------------- MODULE CaseLint --------------------------------
(***************************************************************************)
(* The lint of spec cases (spec_lang_hygiene.py): the codes of the issues  *)
(* it finds in a case.  Where in the case an issue is, is left out.        *)
(***************************************************************************)
EXTENDS CaseCompiler

Fixable == {"SLINT001", "SLINT002", "SLINT017", "SLINT018", "SLINT021", "SLINT026", "SLINT027", "SLINT031", "SLINT086",
            "SLINT087", "SLINT088", "SLINT089", "SLINT090", "SLINT091", "SLINT092", "SLINT093"}
Code(condition, code) == IF condition THEN {code} ELSE {}
Over(items, Issues(_)) == UNION {Issues(items[i]) : i \in DOMAIN items}

-----------------------------------------------------------------------------
(* Expressions and assertions.                                             *)
RECURSIVE NestedLit(_, _)
NestedLit(node, depth) ==
    IF ~IsOnly(node, "lit") THEN {}
    ELSE LET v == Get(node, "lit") IN
         IF depth >= 1 THEN {"SLINT002"}
         ELSE Code(IsDict(v) /\ Cardinality(Keys(v)) = 1 /\ IsOperatorish(OnlyKey(v)), "SLINT017") \cup NestedLit(v, depth + 1)

ExprIssues(node) ==
    IF Keys(node) = {} THEN {"SLINT004"}
    ELSE Code(Has(node, "evaluate"), "SLINT001")
         \cup Code(Keys(node) \cap (Groups \cup DOMAIN Legacy) # {}, "SLINT003")
         \cup NestedLit(node, 0)
         \cup Code(Failed(CompileNode(node)), "SLINT005")

RECURSIVE AssertIssues(_)
RedundantIn(child, class) ==
    IF IsOnly(child, class) /\ IsList(Get(child, class)) THEN {"SLINT018"}
    ELSE Code(GroupsIn(child) # {}, "SLINT019")
StepNodeIssues(node) ==
    Code(ItemsAt(node, "asserts") = <<>>, "SLINT007")
    \cup UNION {RedundantIn(child, TextAt(node, "class")) \cup AssertIssues(child) : child \in ToSet(ItemsAt(node, "asserts"))}
GroupIssues(node) ==
    LET here == Keys(node) \cap (Groups \cup DOMAIN Legacy) IN
    Code(here \cap DOMAIN Legacy # {}, "SLINT008") \cup Code(Cardinality(here) > 1, "SLINT009")
    \cup UNION {Code(ItemsAt(node, k) = <<>>, "SLINT010") \cup Over(ItemsAt(node, k), AssertIssues) : k \in here}
AssertIssues(node) ==
    CASE IsList(node) -> Over(node.list, AssertIssues)
      [] ~IsDict(node) -> {"SLINT006"}
      [] TextAt(node, "class") \in Groups /\ Has(node, "asserts") -> StepNodeIssues(node)
      [] Keys(node) \cap (Groups \cup DOMAIN Legacy) # {} -> GroupIssues(node)
      [] OTHER -> ExprIssues(node)

-----------------------------------------------------------------------------
(* Hooks and definitions.                                                  *)
HookKeys == {"must", "may", "must_not", "fail", "complete"}
HookIssues(list) == IF ~IsList(list) \/ list = List(<<>>) THEN {"SLINT013"} ELSE Over(list.list, ExprIssues)
WhenIssues(case) ==
    LET when == Get(case, "when") IN
    IF when = Null THEN {} ELSE IF ~IsDict(when) THEN {"SLINT011"}
    ELSE UNION {IF k \in HookKeys THEN HookIssues(Get(when, k)) ELSE {"SLINT012"} : k \in Keys(when)}
ScopeIssues(scope) ==
    IF scope = Null THEN {} ELSE IF ~IsDict(scope) THEN {"SLINT015"}
    ELSE UNION {IF k = "" THEN {"SLINT016"} ELSE ExprIssues(Get(scope, k)) : k \in Keys(scope)}
DefineIssues(case) ==
    LET defines == Get(case, "defines") IN
    IF defines = Null THEN {} ELSE IF ~IsDict(defines) THEN {"SLINT014"}
    ELSE UNION {ScopeIssues(Get(defines, s)) : s \in {"public", "private"}}

-----------------------------------------------------------------------------
(* Imports: the issues and the local names; an item whose source, names or *)
(* aliases are no good binds nothing.                                      *)
AliasOk(item, k) == k # "" /\ TextAt(Get(item, "as"), k) # ""
GoodAliases(item) == {k \in Keys(Get(item, "as")) : AliasOk(item, k)}
SourceNames(item) == {KeyOf(n) : n \in ToSet(ItemsAt(item, "names"))} \ {""}
ItemCodes(item) ==
    CASE ~IsDict(item) -> {"SLINT082"}
      [] TextAt(item, "from") # "artifact" -> {"SLINT083"}
      [] ItemsAt(item, "names") = <<>> -> {"SLINT084"}
      [] ~(Get(item, "as") = Null \/ IsDict(Get(item, "as"))) -> {"SLINT095"}
      [] OTHER -> Code(GoodAliases(item) # Keys(Get(item, "as")), "SLINT081")
                  \cup Code(\E n \in ToSet(ItemsAt(item, "names")) : KeyOf(n) = "", "SLINT096")
                  \cup Code(~(GoodAliases(item) \subseteq SourceNames(item)), "SLINT098")
Binds(item) == ItemCodes(item) \cap {"SLINT082", "SLINT083", "SLINT084", "SLINT095"} = {}
LocalsOf(item) ==
    LET named == SelectSeq(ItemsAt(item, "names"), LAMBDA n : KeyOf(n) # "")
        LocalOf(n) == IF n \in GoodAliases(item) THEN TextAt(Get(item, "as"), n) ELSE n
    IN  IF Binds(item) THEN [i \in DOMAIN named |-> LocalOf(KeyOf(named[i]))] ELSE <<>>
(* Slip: a name is looked for among those of its own item only. *)
RepeatsWithin(items) == \E i \in DOMAIN items : ~IsInjective(LocalsOf(items[i]))
Repeats(items) == ~IsInjective(FlattenSeq([i \in DOMAIN items |-> LocalsOf(items[i])]))
ImportIssues(raw) ==
    IF raw = Null THEN {} ELSE IF ~IsList(raw) THEN {"SLINT080"} ELSE IF raw.list = <<>> THEN {"SLINT092"}
    ELSE Over(raw.list, ItemCodes) \cup Code(Repeats(raw.list), "SLINT097")
         \cup Code(\E item \in ToSet(raw.list) : IsDict(item) /\ ~(Keys(item) \subseteq {"from", "names", "as"}), "SLINT094")
ImportedNames(raw) == IF IsList(raw) THEN UNION {ToSet(LocalsOf(raw.list[i])) : i \in DOMAIN raw.list} ELSE {}

-----------------------------------------------------------------------------
(* Clauses.                                                                *)
Unbinds(case, node, names) == TextAt(case, "type") # "contract.export" /\ "subject" \in VarSymbols(node) \ names
StepIssues(case, step, root) ==
    IF ~IsDict(step) THEN {"SLINT025"}
    ELSE LET names == root \cup ImportedNames(Get(step, "imports"))
             raw == Get(step, "assert")
         IN  Code(Has(step, "asserts"), "SLINT026") \cup Code(Has(step, "on"), "SLINT027") \cup Code(Has(step, "target"), "SLINT087")
             \cup ImportIssues(Get(step, "imports"))
             \cup Code(TextAt(step, "class") \notin Groups \cup {""}, "SLINT028")
             \cup IF raw = Null THEN {"SLINT029"} ELSE IF raw = List(<<>>) THEN {"SLINT030"}
                  ELSE AssertIssues(raw) \cup Code(Unbinds(case, raw, names), "SLINT088")
MappingIssues(case, clauses) ==
    LET defaults == Get(clauses, "defaults")  imports == Get(clauses, "imports")  steps == Get(clauses, "steps")
        StepCodes(step) == StepIssues(case, step, ImportedNames(imports))
    IN  Code((\E i \in DOMAIN ItemsAt(clauses, "steps") : Get(ItemsAt(clauses, "steps")[i], "imports") # Null) /\ ~IsList(imports), "SLINT093")
        \cup Code(~(defaults = Null \/ IsDict(defaults)), "SLINT023")
        \cup ImportIssues(imports)
        \cup Code(Has(imports, "defaults"), "SLINT090") \cup Code(Has(imports, "steps"), "SLINT091")
        \cup Code(Has(defaults, "imports"), "SLINT089") \cup Code(Has(defaults, "target") \/ Has(defaults, "on"), "SLINT086")
        \cup IF IsList(steps) THEN Over(steps.list, StepCodes) ELSE {"SLINT024"}
ClauseIssues(case) ==
    LET clauses == Get(case, "clauses") IN
    CASE clauses = Null -> {"SLINT020"}
      [] IsList(clauses) -> {"SLINT021"}
      [] ~IsDict(clauses) -> {"SLINT022"}
      [] OTHER -> MappingIssues(case, clauses)

-----------------------------------------------------------------------------
(* The docs of exports and of the case.                                    *)
ParamIssues(item) ==
    IF ~IsDict(item) THEN {"SLINT044"}
    ELSE Code(Missing(item, "name"), "SLINT045") \cup Code(Missing(item, "type"), "SLINT046")
         \cup Code(Missing(item, "description"), "SLINT047") \cup Code(~Is("bool", Get(item, "required")), "SLINT048")
(* A param that is no mapping has no name, and is not compared. *)
Documented(doc) == LET named == SelectSeq(ItemsAt(doc, "params"), IsDict)
                   IN  [i \in DOMAIN named |-> Str(TextAt(named[i], "name"))]
DocIssues(doc, params) ==
    IF ~IsDict(doc) THEN {"SLINT039"}
    ELSE Code(~(Keys(doc) \subseteq ExportDocKeys), "SLINT040")
         \cup Code(Missing(doc, "summary"), "SLINT041") \cup Code(Missing(doc, "description"), "SLINT042")
         \cup (IF ItemsAt(doc, "params") = <<>> THEN {"SLINT043"}
               ELSE Over(ItemsAt(doc, "params"), ParamIssues) \cup Code(Documented(doc) # params, "SLINT049"))
         \cup Code(~IsDict(Get(doc, "returns")), "SLINT050") \cup Code(ItemsAt(doc, "errors") = <<>>, "SLINT051")
         \cup Code(ItemsAt(doc, "examples") = <<>>, "SLINT052")
         \cup (IF ~IsDict(Get(doc, "portability")) THEN {"SLINT053"} ELSE Code(~PortabilityOk(Get(doc, "portability")), "SLINT054"))
ExportIssues(export) ==
    IF ~IsDict(export) THEN {"SLINT037"}
    ELSE Code(~TextsOnly(Get(export, "params")), "SLINT038")
         \cup DocIssues(Get(export, "doc"), IF TextsOnly(Get(export, "params")) THEN ItemsAt(export, "params") ELSE <<>>)
Collide(case) ==
    \E i, j \in DOMAIN ExportsOf(case) : i < j /\ ~Missing(ExportsOf(case)[i], "as") /\ CanonicalNames(case)[i] = CanonicalNames(case)[j]
LibraryIssues(case) ==
    LET library == Get(case, "library") IN
    CASE TextAt(case, "type") # "contract.export" -> {}
      [] ~IsDict(library) -> {"SLINT033"}
      [] OTHER -> Code(TextAt(library, "stability") \notin Stabilities, "SLINT034")
                  \cup Code(\E k \in {"id", "module", "owner"} : Missing(library, k), "SLINT035")
                  \cup (IF ExportsOf(case) = <<>> THEN {"SLINT036"}
                        ELSE Over(ExportsOf(case), ExportIssues) \cup Code(Collide(case), "SLINT065"))

DeprecatedIssues(v) ==
    IF v = Null THEN {} ELSE IF ~IsDict(v) THEN {"SLINT061"}
    ELSE Code(Missing(v, "replacement"), "SLINT062") \cup Code(Missing(v, "reason"), "SLINT063")
CaseDocIssues(case) ==
    LET doc == Get(case, "doc")  exports == TextAt(case, "type") = "contract.export" IN
    Code(~DomainOk(case), "SLINT064")
    \cup CASE ~IsDict(doc) /\ exports -> {"SLINT055"}
           [] doc = Null -> {}
           [] ~IsDict(doc) -> {"SLINT056"}
           [] OTHER -> Code(~(Keys(doc) \subseteq CaseDocKeys), "SLINT057")
                       \cup IF ~exports THEN {}
                            ELSE Code(\E k \in {"summary", "description", "audience", "since"} : Missing(doc, k), "SLINT058")
                                 \cup Code(~OptionalTexts(Get(doc, "tags")), "SLINT059")
                                 \cup Code(~OptionalTexts(Get(doc, "see_also")), "SLINT060")
                                 \cup DeprecatedIssues(Get(doc, "deprecated"))

HarnessIssues(case) ==
    LET use == Get(Get(case, "harness"), "use") IN
    Code(Has(Get(case, "harness"), "chain"), "SLINT031") \cup Code(use # Null /\ ItemsAt(Get(case, "harness"), "use") = <<>>, "SLINT032")
LintCase(case) ==
    ClauseIssues(case) \cup LibraryIssues(case) \cup CaseDocIssues(case) \cup HarnessIssues(case)
    \cup WhenIssues(case) \cup DefineIssues(case)
=============================================================================
