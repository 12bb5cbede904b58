--------------------------- MODULE CaseToolsProperties ---------------------------
(* What the formatter, the lint, the compiler, the normaliser, the checks  *)
(* of governance and the runners owe each other: they read the same cases, *)
(* each with code of its own.                                              *)
EXTENDS GovernanceCaseChecks

Clean(issues) == issues = {}

(* The lint takes the imports that the compiler takes, and the formatter   *)
(* and the lint find in them the names the compiler finds; an empty list   *)
(* is the one thing only the lint refuses (_validate_imports,              *)
(* _normalize_imports, _imports_any_to_map).                               *)
ImportsAgree(raw) ==
    LET compiled == NormalizeImports(raw) IN
    /\ compiled.ok <=> ImportIssues(raw) \subseteq {"SLINT092"}
    /\ compiled.ok => /\ ImportedNames(raw) = DOMAIN compiled.of
                      /\ ImportsAnyToMap(raw) = compiled

(* Imports written back by the formatter import the same, unless one       *)
(* source has two local names (_imports_map_to_list).                      *)
ImportsComeBack(raw) ==
    LET read == ImportsAnyToMap(raw)
        once == \A m, n \in DOMAIN read.of : read.of[m] = read.of[n] => m = n
    IN  read.ok /\ once => ImportsAnyToMap(ImportsMapToList(read.of)) = read

(* Formatting an expression a second time changes nothing; and without a   *)
(* literal that looks like an expression it means the same before and      *)
(* after, and has nothing left that formatting should repair, an evaluate  *)
(* that wraps no single expression aside (_normalize_expr_node).           *)
RECURSIVE Quotes(_)
Quotes(node) ==
    \/ IsOnly(node, "lit") /\ Keys(Get(node, "lit")) # {} /\ Cardinality(Keys(Get(node, "lit"))) = 1 /\ IsOperatorish(OnlyKey(Get(node, "lit")))
    \/ IsDict(node) /\ \E k \in Keys(node) : Quotes(node.dict[k])
    \/ IsList(node) /\ \E i \in DOMAIN node.list : Quotes(node.list[i])
ExpressionsKept(node) ==
    LET formatted == NormalizeExpr(node) IN
    /\ NormalizeExpr(formatted) = formatted
    /\ ~Quotes(node) /\ ~Failed(CompileNode(node)) /\ ~Mentions(node, "evaluate") => CompileNode(formatted) = CompileNode(node)
    /\ Has(formatted, "evaluate") \/ Clean(ExprIssues(formatted) \cap Fixable)

(* Formatted clauses are what the lint asks for: nothing it calls fixable  *)
(* is left of their imports, targets and older forms; and what an import   *)
(* of a step or of the contract stood for in an assertion, it stands for   *)
(* still (_normalize_contract).                                            *)
OfContract(clauses) ==
    WithSubject(ImportsAnyToMap(Get(clauses, "imports")).of, TargetOf(Get(clauses, "defaults")))
    @@ ImportsAnyToMap(Get(Get(clauses, "defaults"), "imports")).of
OfStep(step) == WithSubject(ImportsAnyToMap(Get(step, "imports")).of, TargetOf(step))
Scoped(clauses, i) == OfStep(ItemsAt(clauses, "steps")[i]) @@ OfContract(clauses)
(* Two steps, or one, may come to give a source two names in one place,    *)
(* and one of the two is then lost.                                        *)
Direct(step) ==
    LET refs == VarSymbols(NormalizedAssert(AssertOf(step))) IN
    "subject" \in DOMAIN OfStep(step) => "subject" \in refs /\ OfStep(step)["subject"].key \notin refs
Apart(clauses) ==
    LET steps == ToSet(ItemsAt(clauses, "steps")) IN
    \/ \A step \in steps : Direct(step)
    \/ /\ DOMAIN OfContract(clauses) # {} /\ IsInjective(OfContract(clauses))
       /\ \A step \in steps : IsInjective(OfStep(step))
RECURSIVE Same(_, _, _, _)
Same(a, before, b, after) ==
    CASE IsOnly(a, "var") ->
           IF TextAt(a, "var") \in DOMAIN before
           THEN IsOnly(b, "var") /\ TextAt(b, "var") \in DOMAIN after /\ before[TextAt(a, "var")] = after[TextAt(b, "var")] ELSE a = b
      [] IsDict(a) -> Keys(a) = Keys(b) /\ \A k \in Keys(a) : Same(a.dict[k], before, b.dict[k], after)
      [] IsList(a) -> IsList(b) /\ Len(a.list) = Len(b.list) /\ \A i \in DOMAIN a.list : Same(a.list[i], before, b.list[i], after)
      [] OTHER -> a = b
ClausesKept(clauses) ==
    LET formatted == NormalizeContract(clauses)
        case == Dict([type |-> Str("text.file"), clauses |-> formatted])
        old == ItemsAt(clauses, "steps")  new == ItemsAt(formatted, "steps")
    IN  Importable(clauses) /\ Apart(clauses) =>
            /\ \A i \in DOMAIN old : Same(NormalizedAssert(AssertOf(old[i])), Scoped(clauses, i), Get(new[i], "assert"), Scoped(formatted, i))
            /\ ClauseIssues(case) \cap (Fixable \ {"SLINT088"}) = {}

(* A case is compiled into its predicates and one for each expectation, in *)
(* order, under ids of their own; a predicate sees what it imports itself  *)
(* before what the clauses import (compile_assert_tree).                   *)
TreeIsTheCase(clauses, expect) ==
    LET compiled == CompileAssertTree(clauses, expect)
        written == Len(ItemsAt(clauses, "predicates"))
    IN  compiled.ok =>
            /\ Len(compiled.tree) = written + Cardinality(Keys(expect) \cap {"violation_count", "status"})
                                    + Cardinality(Keys(Get(expect, "summary_json")))
            /\ \A i, j \in DOMAIN compiled.tree : compiled.tree[i].id = compiled.tree[j].id => i = j
            /\ \A i \in 1 .. written :
                   \A item \in ToSet(ItemsAt(ItemsAt(clauses, "predicates")[i], "imports")) :
                       \A n \in ToSet(LocalNames(item)) : compiled.tree[i].imports[n] \in
                           {Binding("artifact", KeyOf(name)) : name \in ToSet(ItemsAt(item, "names"))}
            /\ \A i \in DOMAIN compiled.tree : i > written => compiled.tree[i].imports["subject"].from = "artifact"

(* Docs of an export that the compiler takes leave the lint nothing to say,*)
(* and the names of two exports are the same for both or for neither       *)
(* (_validate_contract_export_docs, _lint_library_export_docs).            *)
ExportDocsAgree(case) ==
    CompileCase(case).ok => Clean(LibraryIssues(case) \cup CaseDocIssues(case))

(* The lint and the normaliser complain of the shape of the clauses alike  *)
(* (_lint_contract, _check_contract_terminology_hard_cut).                 *)
ShapeCodes == {"SLINT020", "SLINT021", "SLINT022", "SLINT023", "SLINT024", "SLINT025", "SLINT026", "SLINT027", "SLINT028",
               "SLINT029", "SLINT030", "SLINT087"}
ShapesAgree(case) == ContractTerms(case) \ {"old assert"} = ClauseIssues(case) \cap ShapeCodes

(* A repository that passes --check is left alone by --write, which then   *)
(* passes as well if the files of its rules are there; one that --write    *)
(* passes has nothing left for --check to find of what --write looks at,   *)
(* if no replacement brings back what one before it or itself removes      *)
(* (main).                                                                 *)
Settled(rules) ==
    \A i, j \in DOMAIN rules : i <= j => \A e \in ToSet(rules[i].edits), f \in ToSet(rules[j].edits) : e.old \notin ToSet(f.new)
WritesAll == {"style", "split", "drift", "missing document", "missing token", "forbidden token", "not markdown", "embedded case",
              "missing root", "forbidden root", "missing index", "forbidden name", "name policy"}
NormaliserSettles(tree, profile) ==
    LET done == Write(tree, profile, FALSE) IN
    /\ Clean(Check(tree, profile, FALSE)) =>
           /\ done.tree.specs = tree.specs /\ done.tree.libraries = tree.libraries
           /\ (\A f \in DocFiles(tree) : f \notin DOMAIN Moved /\ f[2] # ".DS_Store" /\ TokensOf(tree, f) \cap DOMAIN Mention = {})
                  => done.tree.files = tree.files
           /\ done.issues \subseteq {"missing file"}
    /\ Clean(done.issues) /\ Settled(profile.rules) => Check(done.tree, profile, FALSE) \cap WritesAll = {}

(* Splitting a file keeps what its blocks define, each public symbol in one*)
(* block, and promotes private symbols only where there is no public one.  *)
(* It gives no file cases, and takes none unless it makes several blocks of*)
(* a suite that defines symbols at its root (_split_case, _rewrite).       *)
Definitions(cases, scope) ==
    UNION {{<<n, Get(Scope(cases[i], scope), n)>> : n \in Keys(Scope(cases[i], scope))} : i \in DOMAIN cases}
SplitKeepsDefinitions(file) ==
    LET parts == Split(file) IN
    /\ Definitions(parts, "public") \cup Definitions(parts, "private") = Definitions(file, "public") \cup Definitions(file, "private")
    /\ Definitions(file, "public") \subseteq Definitions(parts, "public")
    /\ \A i \in DOMAIN parts : TextAt(parts[i], "type") = "spec_lang.export" => Cardinality(Keys(Scope(parts[i], "public"))) <= 1
    /\ Split(parts) = parts
    /\ CasesOf(parts) = CasesOf(file) \/ (CasesOf(parts) = <<>> /\ Loads(file) /\ Has(file[1], "defines") /\ Len(parts) > 1)

-----------------------------------------------------------------------------
(* Governance complains of the targets of clauses as the lint does, and of *)
(* their imports only if the lint does; where the lint misses the subject  *)
(* or finds imports in an older place, so does governance                  *)
(* (_scan_schema_contract_target_on_forbidden,                             *)
(* _scan_schema_contract_imports_explicit_required, _lint_contract).       *)
TargetCodes == {"SLINT027", "SLINT086", "SLINT087"}
ImportCodes == {"SLINT088", "SLINT089", "SLINT090", "SLINT091"}
ClausesGoverned(case) ==
    /\ TargetOnForbidden(case) = ClauseIssues(case) \cap TargetCodes
    /\ TextAt(case, "type") # "contract.export" =>
           /\ ImportsExplicit(case) \subseteq ClauseIssues(case)
           /\ ClauseIssues(case) \cap ImportCodes \subseteq ImportsExplicit(case)

(* Governance and the lint refuse the same hooks; the normaliser, which    *)
(* has names of its own for them, leaves only those that have one in both  *)
(* (_scan_runtime_when_hooks_schema_valid, _lint_when).                    *)
HookCodes == {"SLINT011", "SLINT012", "SLINT013"}
HooksGoverned(case) ==
    IsDict(Get(case, "harness")) =>
        /\ HooksSchema(case) \cap HookCodes = WhenIssues(case) \cap HookCodes
        /\ Clean(HooksSchema(case)) /\ Clean(WhenHooks(case)) => Keys(Get(case, "when")) \subseteq {"fail", "complete"}

(* A job case passes the four job checks of governance when it passes the  *)
(* check of the normaliser, and the other way round; one that passes them  *)
(* is not refused by its runner; its hooks can only be applied where its   *)
(* clauses dispatch (_scan_runtime_contract_job_..., run_contract_job).   *)
JobsGoverned(case) ==
    LET complaints == JobDispatchRequired(case) \cup JobsMetadata(case) \cup JobLegacy(case) \cup JobCapability(case) IN
    IsJob(case) /\ IsDict(Get(case, "harness")) =>
        /\ Clean(complaints) <=> Clean(JobDispatch(case))
        /\ JobsMetadata(case) \ {"job helper"} = JobRefusals(case)
        /\ Clean(JobHooksApplied(case)) => Clean(JobDispatchRequired(case))

(* Exports the compiler takes leave governance nothing to say of their     *)
(* docs; exports governance says nothing of have only names, entries and   *)
(* params left for the lint (_scan_docs_library_symbol_...).               *)
ExportsGoverned(case) ==
    /\ CompileCase(case).ok => Clean(ExportScans(case))
    /\ Clean(ExportScans(case)) =>
           LibraryIssues(case) \cup CaseDocIssues(case) \subseteq
               {"SLINT036", "SLINT037", "SLINT038", "SLINT043", "SLINT044", "SLINT045", "SLINT046", "SLINT047", "SLINT048", "SLINT064", "SLINT065"}

(* Every symbol that a harness or a definition says counts as referred to, *)
(* wherever it is said.  Where exports are used, every library has a test. *)
(* The split repairs nothing that governance complains of: it leaves suites*)
(* alone, and what is no suite does not load; a private symbol that a case *)
(* refers to stays private unless its file is lost                         *)
(* (_collect_global_symbol_references, _rewrite, _scan_library_...,         *)
(* _scan_reference_...).                                                   *)
RECURSIVE Said(_)
Said(v) == (IF IsText(v) THEN {v.str} ELSE {})
           \cup UNION {Said(v.dict[k]) : k \in Keys(v)}
           \cup IF IsList(v) THEN Over(v.list, Said) ELSE {}
LibrariesGoverned(files, cases) ==
    LET after == SplitAll(files)
        all == cases \o CasesIn(files)  allAfter == cases \o CasesIn(after)
    IN  /\ \A i \in DOMAIN files :
              /\ Clean(SinglePublic(after[i])) => Clean(SinglePublic(files[i]))
              /\ Clean(PublicSurface(after[i])) => Clean(PublicSurface(files[i]))
        /\ Clean(ExportsUsed(after, allAfter)) => Clean(ExportsUsed(files, all))
        /\ (\A i \in DOMAIN files : Loads(files[i]) => Loads(after[i])) => PrivateForbidden(after, cases) = PrivateForbidden(files, cases)
        /\ Referenced(all) = Dotted \cap Over(all, LAMBDA case : Said(Get(case, "harness")) \cup Said(Get(case, "defines")))
        /\ Clean(ExportsUsed(files, all)) => Clean(ColocatedTests(files, all))

(* An api.http case the checks of governance say nothing of is not refused *)
(* by the harness for what they look at, wrapped in a contract.check or    *)
(* not; one that the harness does not refuse passes those that look at     *)
(* what it may send, inline credentials aside; the shape is looked at      *)
(* unwrapped only (_scan_conformance_api_http_..., _prepare_request).      *)
Portable == [keys |-> {"id", "type", "harness", "clauses", "expect", "request", "requests"},
             targets |-> {"status", "body_text"}, fields |-> {"method", "url"}]
HttpGoverned(case) ==
    LET runs == TextAt(case, "type") = "api.http" \/ ~CheckRefused(case)
        run == IF TextAt(case, "type") = "api.http" THEN case ELSE Adapted(case)
        scanned == HttpCases(case)
        verbs == VerbSuite(scanned) \ {"not covered"}
        steps == Roundtrip(scanned) \ {"no scenario", "step twice"}
        seen == LiveMode(scanned[1]) \cup EnvOnly(scanned[1]) \cup verbs \cup steps
        shape == PortableShape(scanned[1], Portable)
    IN  runs /\ scanned # <<>> /\ Keys(case) \cap {"request", "requests"} \cap Keys(Get(CheckOf(case), "config")) = {} =>
            /\ RequestsIn(run) = RequestsIn(scanned[1])
            /\ Clean(seen) => HttpRefusals(run) \cap {"live", "variable", "step", "step id"} = {}
            /\ run = case /\ Clean(seen) /\ ~SchemaFixture(run) /\ Clean(shape \ {"top key", "target"}) =>
                   HttpRefusals(run) \cap {"both", "no request", "no steps", "method", "url"} = {}
            /\ Clean(HttpRefusals(run)) => seen \subseteq {"inline"}
            /\ Clean(NoLiterals(scanned[1])) => "inline" \notin seen
=============================================================================
