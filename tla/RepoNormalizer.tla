----------------------------- MODULE RepoNormalizer -----------------------------
(***************************************************************************)
(* The repository normaliser (normalize_repo_runtime.py): its rewrites     *)
(* under --write and its checks under --check.  A tree is                  *)
(*   [files, dirs, specs, libraries, md, artifacts]:                       *)
(* files maps <<directory, name>> to the tokens of the text in order; specs*)
(* are the spec files and libraries those of the library directory, md     *)
(* counts spec files in another format, artifacts the data files that embed*)
(* a case.  A spec file is the values its blocks load to.  A profile       *)
(* is [rules, sync, layout]: replacements [file, edits], what a document   *)
(* must and must not contain, and the layout of docs.                      *)
(***************************************************************************)
EXTENDS CaseLint

TokensOf(tree, file) == ToSet(tree.files[file])
Exists(tree, file) == file \in DOMAIN tree.files

-----------------------------------------------------------------------------
(* The layout of the docs (normalize_docs_layout.py): READMEs of some      *)
(* directories become their index, over the one there is, in the name and  *)
(* in the texts that mention it.                                           *)
DocsDirs == {"docs", "docs/book"}
Moved == <<"docs/book", "README.md">> :> <<"docs/book", "index.md">>
Mention == "docs/book/README.md" :> "docs/book/index.md"
BadNames == {"README.md", "two words.md", "Upper.md"}
DocFiles(tree) == {f \in DOMAIN tree.files : f[1] \in DocsDirs}
LayoutIssues(tree, layout) ==
    Code(~(layout.roots \subseteq tree.dirs), "missing root") \cup Code(layout.forbidden \cap tree.dirs # {}, "forbidden root")
    \cup Code(\E d \in layout.index : d \notin tree.dirs \/ ~Exists(tree, <<d, "index.md">>), "missing index")
    \cup Code(\E f \in DocFiles(tree) : f[2] \in layout.names, "forbidden name")
    \cup Code(\E f \in DocFiles(tree) : f[2] \in BadNames, "name policy")
Retold(text) == [i \in DOMAIN text |-> IF text[i] \in DOMAIN Mention THEN Mention[text[i]] ELSE text[i]]
WriteLayout(tree) ==
    LET old == tree.files
        told == [f \in DOMAIN old |-> IF f \in DocFiles(tree) THEN Retold(old[f]) ELSE old[f]]
        moves == DOMAIN Moved \cap DOMAIN old
        placed == [f \in (DOMAIN old \ moves) \cup {Moved[g] : g \in moves} |->
                       IF \E g \in moves : Moved[g] = f THEN told[CHOOSE g \in moves : Moved[g] = f] ELSE told[f]]
    IN  [f \in {g \in DOMAIN placed : ~(g[1] \in DocsDirs /\ g[2] = ".DS_Store")} |-> placed[f]]

(* A file has cases if it has one block and that is a suite: what it       *)
(* contracts, over its defaults, with some keys of its own (codecs.py).    *)
SuiteKeys == {"spec_version", "schema_ref", "title", "purpose", "domain"}
Merged(suite, case) ==
    Dict(case.dict @@ (IF IsDict(Get(suite, "defaults")) THEN Get(suite, "defaults").dict ELSE <<>>)
         @@ [k \in SuiteKeys \cap Keys(suite) |-> suite.dict[k]])
Loads(file) ==
    /\ Len(file) = 1 /\ ItemsAt(file[1], "contracts") # <<>>
    /\ Get(file[1], "spec_version") # Null /\ Get(file[1], "schema_ref") # Null
    /\ \A case \in ToSet(ItemsAt(file[1], "contracts")) : IsDict(case) /\ {"id", "type"} \subseteq Keys(Merged(file[1], case))
CasesOf(file) == IF Loads(file) THEN [i \in DOMAIN ItemsAt(file[1], "contracts") |-> Merged(file[1], ItemsAt(file[1], "contracts")[i])] ELSE <<>>
CasesIn(files) == FlattenSeq([i \in DOMAIN files |-> CasesOf(files[i])])

(* A block that is itself a library case is split until each has one public*)
(* symbol (split_library_cases_per_symbol.py); without any, the private    *)
(* symbols become public ones.  The cases of a suite are not looked at.    *)
Scope(case, scope) == IF IsDict(Get(Get(case, "defines"), scope)) THEN Get(Get(case, "defines"), scope) ELSE Dict(<<>>)
PartId(case, name) == [part |-> <<TextAt(case, "id"), name>>]
(* Slip: a part gets its public symbol alone. *)
ForgetsPrivate(case, name) == Set(Set(case, "defines", Dict([public |-> Dict(name :> Get(Scope(case, "public"), name))])), "id", PartId(case, name))
PublicPart(case, name) ==
    Set(Set(case, "defines", Dict([public |-> Dict(name :> Get(Scope(case, "public"), name)), private |-> Scope(case, "private")])),
        "id", PartId(case, name))
PromotedPart(case, name) ==
    Set(Set(case, "defines", Dict([public |-> Dict(name :> Get(Scope(case, "private"), name))])), "id", PartId(case, name))
SplitCase(case) ==
    LET public == SetToSeq(Keys(Scope(case, "public")))  private == SetToSeq(Keys(Scope(case, "private"))) IN
    CASE TextAt(case, "type") # "spec_lang.export" \/ ~IsDict(Get(case, "defines")) \/ Len(public) = 1 -> <<case>>
      [] public # <<>> -> [i \in DOMAIN public |-> PublicPart(case, public[i])]
      [] private # <<>> -> [i \in DOMAIN private |-> PromotedPart(case, private[i])]
      [] OTHER -> <<case>>
Split(file) == FlattenSeq([i \in DOMAIN file |-> SplitCase(file[i])])
SplitAll(files) == [i \in DOMAIN files |-> Split(files[i])]

-----------------------------------------------------------------------------
(* Replacements: every occurrence, edit by edit, rule by rule.             *)
Replaced(text, edit) == FlattenSeq([i \in DOMAIN text |-> IF text[i] = edit.old THEN edit.new ELSE <<text[i]>>])
AppliedRule(tree, rule) ==
    IF ~Exists(tree, rule.file) THEN tree.files
    ELSE [tree.files EXCEPT ![rule.file] = FoldLeft(Replaced, @, rule.edits)]
ApplyReplacements(tree, rules) ==
    [files |-> FoldLeft(LAMBDA t, rule : [t EXCEPT !.files = AppliedRule(t, rule)], tree, rules).files,
     issues |-> Code(\E i \in DOMAIN rules : ~Exists(tree, rules[i].file), "missing file")]
ReplacementsDrift(tree, rules) ==
    Code(\E i \in DOMAIN rules : Exists(tree, rules[i].file)
             /\ \E j \in DOMAIN rules[i].edits : rules[i].edits[j].old \in TokensOf(tree, rules[i].file), "drift")

SyncIssues(tree, rule) ==
    IF ~Exists(tree, rule.file) THEN {"missing document"}
    ELSE Code(~(rule.must \subseteq TokensOf(tree, rule.file)), "missing token")
         \cup Code(rule.must_not \cap TokensOf(tree, rule.file) # {}, "forbidden token")
DocsTokens(tree, sync) == Over(sync, LAMBDA rule : SyncIssues(tree, rule))

Dogfood(tree) == Code(tree.md > 0, "not markdown") \cup Code(tree.artifacts > 0, "embedded case")

(* Harness modules go through the shared components. *)
HarnessFiles == {<<"harnesses", "text_file.py">>, <<"harnesses", "cli_run.py">>}
HarnessTokens == {"build_execution_context", "run_assertions_with_context", "resolve_subject_for_target"}
OldHarnessTokens == {"compile_import_bindings", "evaluate_internal_assert_tree"}
Componentization(tree) ==
    UNION {IF ~Exists(tree, f) THEN {}
           ELSE Code(~(HarnessTokens \subseteq TokensOf(tree, f)), "missing component")
                \cup Code(OldHarnessTokens \cap TokensOf(tree, f) # {}, "bypasses component") : f \in HarnessFiles}

-----------------------------------------------------------------------------
(* Checks of each case.                                                    *)
TypeForbidden(case) == Code(TextAt(case, "type") = "spec_lang.export", "library type")

UseIssues(step) ==
    LET symbols == ItemsAt(step, "symbols") IN
    IF ~IsDict(step) THEN {"use step"}
    ELSE Code(Missing(step, "as") \/ ~IsText(Get(step, "ref")), "use step")
         \cup Code(symbols = <<>> \/ \E i \in DOMAIN symbols : KeyOf(symbols[i]) = "", "use symbols")
         \cup Code({"class", "allow_continue", "imports", "exports"} \cap Keys(step) # {}, "use keys")
ExportShape(entry) ==
    IF ~IsDict(entry) THEN {"export entry"}
    ELSE Code(Has(entry, "from_target"), "from_target") \cup Code(Missing(entry, "as"), "export as")
         \cup Code(TextAt(entry, "from") # "assert.function" \/ Missing(entry, "path"), "export source")
         \cup Code(Get(entry, "params") # Null /\ ItemsAt(entry, "params") = <<>>, "export params")
ChainShape(case) ==
    LET harness == Get(case, "harness")  use == Get(harness, "use") IN
    Code(Has(case, "chain") \/ \E k \in Keys(harness) \ {"chain", "use"} : Has(Get(harness, k), "chain"), "chain place")
    \cup Code(Has(harness, "chain"), "chain")
    \cup (IF use = Null THEN {} ELSE IF ItemsAt(harness, "use") = <<>> THEN {"use"} ELSE Over(use.list, UseIssues))
    \cup (IF ItemsAt(harness, "use") = <<>> THEN {}
          ELSE Code(~(Get(harness, "exports") = Null \/ IsList(Get(harness, "exports"))), "exports")
               \cup Over(ItemsAt(harness, "exports"), ExportShape))
IncludesForbidden(case) == Code(ItemsAt(Get(Get(case, "harness"), "spec_lang"), "includes") # <<>>, "includes")

StepTerms(step) ==
    IF ~IsDict(step) THEN {"SLINT025"}
    ELSE Code(TextAt(step, "class") \notin Groups \cup {""}, "SLINT028")
         \cup Code(Has(step, "asserts"), "SLINT026") \cup Code(Has(step, "target"), "SLINT087") \cup Code(Has(step, "on"), "SLINT027")
         \cup Code(Get(step, "assert") = Null, "SLINT029") \cup Code(Get(step, "assert") = List(<<>>), "SLINT030")
ContractTerms(case) ==
    LET clauses == Get(case, "clauses")  defaults == Get(clauses, "defaults") IN
    Code(Has(case, "assert"), "old assert")
    \cup CASE clauses = Null -> {"SLINT020"}
           [] IsList(clauses) -> {"SLINT021"}
           [] ~IsDict(clauses) -> {"SLINT022"}
           [] OTHER -> Code(~(defaults = Null \/ IsDict(defaults)), "SLINT023")
                       \cup IF IsList(Get(clauses, "steps")) THEN Over(ItemsAt(clauses, "steps"), StepTerms) ELSE {"SLINT024"}

(* Jobs: their ids, their helpers, and that the case dispatches one: its   *)
(* text is searched for the operator.                                      *)
RECURSIVE Mentions(_, _)
Mentions(node, text) ==
    \/ node = Str(text) \/ Has(node, text)
    \/ \E k \in Keys(node) : Mentions(node.dict[k], text)
    \/ IsList(node) /\ \E i \in DOMAIN node.list : Mentions(node.list[i], text)
JobIssues(entry) ==
    IF ~IsDict(entry) THEN {"job entry"} ELSE IF Missing(entry, "id") THEN {"job id"}
    ELSE Code(Has(entry, "ref"), "job ref") \cup Code(Missing(entry, "helper"), "job helper")
JobDispatch(case) ==
    LET harness == Get(case, "harness")  jobs == ItemsAt(harness, "jobs")
        named == SelectSeq(jobs, LAMBDA j : IsDict(j) /\ ~Missing(j, "id"))
        caps == ItemsAt(Get(harness, "spec_lang"), "capabilities")
    IN  IF TextAt(case, "type") # "contract.job" THEN {} ELSE IF ~IsDict(harness) THEN {"job harness"}
        ELSE Code(Has(harness, "job"), "old job")
             \cup IF jobs = <<>> THEN {"jobs"}
                  ELSE Over(jobs, JobIssues) \cup Code(~IsInjective([i \in DOMAIN named |-> TextAt(named[i], "id")]), "job twice")
                       \cup Code(~Mentions(Get(case, "clauses"), "ops.job.dispatch"), "no dispatch")
                       \cup Code(Str("ops.job") \notin ToSet(caps), "no capability")

(* Hooks, by other names than the lint's. *)
NormalHookKeys == {"required", "optional", "fail", "complete"}
WhenHooks(case) ==
    LET harness == Get(case, "harness")  when == Get(case, "when") IN
    IF ~IsDict(harness) THEN {}
    ELSE Code({"on", "when"} \cap Keys(harness) # {}, "hooks place")
         \cup IF when = Null THEN {} ELSE IF ~IsDict(when) THEN {"hooks"}
              ELSE UNION {IF k \notin NormalHookKeys THEN {"hook key"} ELSE IF ItemsAt(when, k) = <<>> THEN {"hook list"}
                          ELSE Code(~Each(ItemsAt(when, k), IsDict), "hook expression") : k \in Keys(when)}
CaseIssues(case) ==
    TypeForbidden(case) \cup ChainShape(case) \cup IncludesForbidden(case) \cup ContractTerms(case)
    \cup JobDispatch(case) \cup WhenHooks(case)

-----------------------------------------------------------------------------
(* The command.  With paths of its own only their style is looked at.      *)
(* Like the split, the formatter takes each block for a case: of a suite   *)
(* it changes what the root itself has.                                    *)
Formatted(files) == [i \in DOMAIN files |-> [j \in DOMAIN files[i] |-> NormalizePayload(files[i][j])]]
Styled(tree) == [tree EXCEPT !.specs = Formatted(@), !.libraries = Formatted(@)]
Tidy(tree) == Styled([tree EXCEPT !.libraries = SplitAll(@), !.files = WriteLayout(tree)])
Check(tree, profile, changed) ==
    Code(Styled(tree) # tree, "style")
    \cup IF changed THEN {}
         ELSE LayoutIssues(tree, profile.layout) \cup Code(SplitAll(tree.libraries) # tree.libraries, "split")
              \cup ReplacementsDrift(tree, profile.rules) \cup DocsTokens(tree, profile.sync) \cup Dogfood(tree)
              \cup Componentization(tree) \cup Over(CasesIn(tree.specs \o tree.libraries), CaseIssues)

(* Slip: documents are looked at as they were before the replacements. *)
SyncFirst(tree, profile, changed) ==
    LET tidy == Tidy(tree)
        replaced == ApplyReplacements(tidy, profile.rules)
    IN  [tree |-> [tidy EXCEPT !.files = replaced.files],
         issues |-> LayoutIssues(tidy, profile.layout) \cup replaced.issues \cup DocsTokens(tidy, profile.sync) \cup Dogfood(tree)]
Write(tree, profile, changed) ==
    LET tidy == Tidy(tree)
        replaced == ApplyReplacements(tidy, profile.rules)
        written == [tidy EXCEPT !.files = replaced.files]
    IN  IF changed THEN [tree |-> Styled(tree), issues |-> {}]
        ELSE [tree |-> written, issues |-> LayoutIssues(tidy, profile.layout) \cup replaced.issues
                                           \cup DocsTokens(written, profile.sync) \cup Dogfood(written)]
=============================================================================
