------------------------- MODULE GovernanceCaseChecks -------------------------
(***************************************************************************)
(* The governance checks that read the shape of cases                      *)
(* (governance_runtime.py): what each complains of in one case, or in the  *)
(* cases of a tree.  They read what the lint, the compiler, the normaliser *)
(* and the harnesses read too, with code of their own; a complaint the     *)
(* lint has as well goes by the lint's code.                               *)
(***************************************************************************)
EXTENDS RepoNormalizer

StepsIn(case) == SelectSeq(ItemsAt(Get(case, "clauses"), "steps"), IsDict)
HarnessAt(case, key) == Get(Get(case, "harness"), key)

-----------------------------------------------------------------------------
(* Targets and imports of the clauses; the imports of a step are read only *)
(* if its assertion asks for the subject.                                  *)
TargetOnForbidden(case) ==
    Code({"target", "on"} \cap Keys(Get(Get(case, "clauses"), "defaults")) # {}, "SLINT086")
    \cup Over(StepsIn(case), LAMBDA step : Code(Has(step, "target"), "SLINT087") \cup Code(Has(step, "on"), "SLINT027"))

NamedAliases(item) == {k \in Keys(Get(item, "as")) : k # "" /\ TextAt(Get(item, "as"), k) # ""}
NamedSources(item) == {KeyOf(n) : n \in ToSet(ItemsAt(item, "names"))}
Refusal(item) ==
    CASE ~IsDict(item) -> "SLINT082"
      [] TextAt(item, "from") # "artifact" -> "SLINT083"
      [] ItemsAt(item, "names") = <<>> -> "SLINT084"
      [] ~(Get(item, "as") = Null \/ IsDict(Get(item, "as"))) -> "SLINT095"
      [] OTHER -> "none"
ImportComplaints(raw) ==
    IF raw = Null THEN {} ELSE IF ~IsList(raw) THEN {"SLINT080"}
    ELSE UNION {IF Refusal(item) # "none" THEN {Refusal(item)}
                ELSE Code(NamedAliases(item) # Keys(Get(item, "as")), "SLINT081") \cup Code("" \in NamedSources(item), "SLINT096")
                     \cup Code(~(NamedAliases(item) \subseteq NamedSources(item) \ {""}), "SLINT098") : item \in ToSet(raw.list)}
ImportedLocals(raw) ==
    UNION {{IF n \in NamedAliases(item) THEN TextAt(Get(item, "as"), n) ELSE n : n \in NamedSources(item) \ {""}} :
               item \in {x \in (IF IsList(raw) THEN ToSet(raw.list) ELSE {}) : Refusal(x) = "none"}}

RECURSIVE UsesSubject(_)
UsesSubject(node) ==
    \/ IsOnly(node, "var") /\ TextAt(node, "var") = "subject"
    \/ \E k \in Keys(node) : UsesSubject(node.dict[k])
    \/ IsList(node) /\ \E i \in DOMAIN node.list : UsesSubject(node.list[i])
SubjectImports(step, root) ==
    IF ~UsesSubject(Get(step, "assert")) THEN {}
    ELSE ImportComplaints(Get(step, "imports"))
         \cup Code("subject" \notin ImportedLocals(root) \cup ImportedLocals(Get(step, "imports")), "SLINT088")
(* Slip: the imports of the contract are not counted for its steps. *)
OwnImportsOnly(case) ==
    LET clauses == Get(case, "clauses")
    IN  ImportComplaints(Get(clauses, "imports")) \cup Over(StepsIn(case), LAMBDA step : SubjectImports(step, Null))
ImportsExplicit(case) ==
    LET clauses == Get(case, "clauses")  imports == Get(clauses, "imports") IN
    Code(Has(Get(clauses, "defaults"), "imports"), "SLINT089") \cup Code(Has(imports, "defaults"), "SLINT090")
    \cup Code(Has(imports, "steps"), "SLINT091") \cup ImportComplaints(imports)
    \cup Over(StepsIn(case), LAMBDA step : SubjectImports(step, imports))

-----------------------------------------------------------------------------
(* Hooks and jobs.                                                         *)
HooksSchema(case) ==
    LET when == Get(case, "when") IN
    IF ~IsDict(Get(case, "harness")) THEN {}
    ELSE Code({"on", "when"} \cap Keys(Get(case, "harness")) # {}, "hooks place")
         \cup IF when = Null THEN {} ELSE IF ~IsDict(when) THEN {"SLINT011"}
              ELSE UNION {IF k \notin {"must", "may", "must_not", "fail", "complete"} THEN {"SLINT012"}
                          ELSE IF ItemsAt(when, k) = <<>> THEN {"SLINT013"}
                          ELSE Code(~Each(ItemsAt(when, k), IsDict), "hook expression") : k \in Keys(when)}

IsJob(case) == TextAt(case, "type") = "contract.job"
Dispatches(case) == Mentions(Get(case, "clauses"), "ops.job.dispatch")
JobDispatchRequired(case) == Code(IsJob(case) /\ ~Dispatches(case), "no dispatch")
JobIds(jobs) == LET named == SelectSeq(jobs, LAMBDA j : ~Missing(j, "id")) IN [i \in DOMAIN named |-> TextAt(named[i], "id")]
JobsMetadata(case) ==
    LET jobs == ItemsAt(Get(case, "harness"), "jobs")
        Complaint(job) == IF ~IsDict(job) THEN {"job entry"} ELSE IF Missing(job, "id") THEN {"job id"} ELSE Code(Missing(job, "helper"), "job helper")
    IN  IF ~IsJob(case) THEN {} ELSE IF jobs = <<>> THEN {"jobs"}
        ELSE Over(jobs, Complaint) \cup Code(~IsInjective(JobIds(jobs)), "job twice")
JobLegacy(case) ==
    Code(IsJob(case) /\ (Has(Get(case, "harness"), "job") \/ \E j \in ToSet(ItemsAt(Get(case, "harness"), "jobs")) : Has(j, "ref")), "old job")
(* Slip: what is granted to the harness is not looked at. *)
AnyCapability(case) == {}
JobCapability(case) ==
    Code(Dispatches(case) /\ Str("ops.job") \notin ToSet(ItemsAt(HarnessAt(case, "spec_lang"), "capabilities")), "no capability")

NamesJob(node, job) ==
    LET args == ItemsAt(node, "ops.job.dispatch") IN args # <<>> /\ KeyOf(args[1]) = job
HasDispatchFor(exprs, job) == IsList(exprs) /\ \E i \in DOMAIN exprs.list : NamesJob(exprs.list[i], job)
RECURSIVE DispatchesMain(_)
DispatchesMain(node) ==
    \/ NamesJob(node, "main")
    \/ \E k \in Keys(node) : DispatchesMain(node.dict[k])
    \/ IsList(node) /\ \E i \in DOMAIN node.list : DispatchesMain(node.list[i])
JobHooksApplied(case) ==
    LET jobs == HarnessAt(case, "jobs")  when == Get(case, "when") IN
    IF ~IsJob(case) THEN {} ELSE IF ~IsList(jobs) THEN {"jobs"}
    ELSE Code(~({"on_fail", "on_complete"} \subseteq ToSet(JobIds(jobs.list))), "hook job")
         \cup IF ~IsDict(when) THEN {"hooks"}
              ELSE Code(~HasDispatchFor(Get(when, "fail"), "on_fail"), "fail hook")
                   \cup Code(~HasDispatchFor(Get(when, "complete"), "on_complete"), "complete hook")
                   \cup Code(~DispatchesMain(Get(case, "clauses")), "main")

-----------------------------------------------------------------------------
(* The docs of exports, in four checks.                                    *)
MappedExports(case) == SelectSeq(ExportsOf(case), IsDict)
IsExport(case) == TextAt(case, "type") = "contract.export"
LibraryMetadata(case) ==
    LET library == Get(case, "library") IN
    IF ~IsDict(library) THEN {"SLINT033"}
    ELSE Code(\E k \in {"id", "module", "owner"} : Missing(library, k), "SLINT035")
         \cup Code(TextAt(library, "stability") \notin Stabilities, "SLINT034")
ExportMetadata(export) ==
    LET doc == Get(export, "doc")  returns == Get(doc, "returns")  portability == Get(doc, "portability") IN
    IF ~IsDict(doc) THEN {"SLINT039"}
    ELSE Code(~(Keys(doc) \subseteq ExportDocKeys), "SLINT040") \cup Code(Missing(doc, "summary"), "SLINT041")
         \cup Code(Missing(doc, "description"), "SLINT042")
         \cup (IF ~IsDict(returns) THEN {"SLINT050"} ELSE Code(Missing(returns, "type") \/ Missing(returns, "description"), "returns"))
         \cup Code(ItemsAt(doc, "errors") = <<>>, "SLINT051")
         \cup IF ~IsDict(portability) THEN {"SLINT053"} ELSE Code(\E r \in Runtimes : ~Is("bool", Get(portability, r)), "SLINT054")
MetadataComplete(case) == IF IsExport(case) THEN LibraryMetadata(case) \cup Over(MappedExports(case), ExportMetadata) ELSE {}
ParamNames(doc) ==
    LET named == SelectSeq(ItemsAt(doc, "params"), IsDict) IN [i \in DOMAIN named |-> TextAt(named[i], "name")]
ParamsSync(export) ==
    LET params == Get(export, "params")  doc == Get(export, "doc")
        names == [i \in DOMAIN ItemsAt(export, "params") |-> KeyOf(ItemsAt(export, "params")[i])]
    IN  IF ~IsList(params) \/ "" \in ToSet(names) THEN {"SLINT038"} ELSE IF ~IsList(Get(doc, "params")) THEN {"SLINT043"}
        ELSE Code(ParamNames(doc) # names, "SLINT049")
ExamplesPresent(export) ==
    LET examples == ItemsAt(Get(export, "doc"), "examples")
        Told(x) == IsDict(x) /\ ~Missing(x, "title") /\ Get(x, "input") # Null /\ Get(x, "expected") # Null
    IN  IF examples = <<>> THEN {"SLINT052"} ELSE Code(~Each(examples, Told), "example")
CaseDocMetadata(case) ==
    LET doc == Get(case, "doc")  old == Get(doc, "deprecated")
        TextsAt(key) == Get(doc, key) = Null \/ (IsList(Get(doc, key)) /\ Each(ItemsAt(doc, key), IsText))
    IN  IF ~IsExport(case) THEN {} ELSE IF ~IsDict(doc) THEN {"SLINT055"}
        ELSE Code(~(Keys(doc) \subseteq CaseDocKeys), "SLINT057")
             \cup Code(\E k \in {"summary", "description", "audience", "since"} : Missing(doc, k), "SLINT058")
             \cup Code(~TextsAt("tags"), "SLINT059") \cup Code(~TextsAt("see_also"), "SLINT060")
             \cup IF old = Null THEN {} ELSE IF ~IsDict(old) THEN {"SLINT061"}
                  ELSE Code(Missing(old, "replacement"), "SLINT062") \cup Code(Missing(old, "reason"), "SLINT063")
ExportScans(case) ==
    MetadataComplete(case) \cup CaseDocMetadata(case)
    \cup IF IsExport(case) THEN Over(MappedExports(case), LAMBDA x : ParamsSync(x) \cup ExamplesPresent(x)) ELSE {}

-----------------------------------------------------------------------------
(* Libraries: what they export and who refers to it.  files are the        *)
(* library files; all is every case that is searched.  A file that does not*)
(* load is a complaint or, to the tests, an exception.                     *)
(* Clauses and hooks of these are searched if they are a list, which no    *)
(* case that loads has.                                                    *)
IsLibrary(case) == TextAt(case, "type") = "spec_lang.export"
Unreadable(file) == Code(~Loads(file), "unreadable")
SinglePublic(file) ==
    Unreadable(file) \cup Over(CasesOf(file), LAMBDA case : Code(IsLibrary(case) /\ IsDict(Get(case, "defines")) /\ Cardinality(Keys(Scope(case, "public"))) # 1, "not single"))
PublicSurface(file) ==
    LET Complaints(case) ==
            LET defines == Get(case, "defines") IN
            IF ~IsDict(defines) THEN {"no defines"}
            ELSE IF ~IsDict(Get(defines, "public")) /\ ~IsDict(Get(defines, "private")) THEN {"no scope"}
            ELSE Code((Keys(Scope(case, "public")) \cap Keys(Scope(case, "private"))) \ {""} # {}, "in both scopes")
    IN  Unreadable(file) \cup Over(SelectSeq(CasesOf(file), IsLibrary), Complaints)

RECURSIVE VarsIn(_)
VarsIn(node) ==
    (IF IsText(Get(node, "var")) THEN {TextAt(node, "var")} \ {""} ELSE {})
    \cup UNION {VarsIn(node.dict[k]) : k \in Keys(node)}
    \cup IF IsList(node) THEN UNION {VarsIn(node.list[i]) : i \in DOMAIN node.list} ELSE {}
ListedIn(v, key) == {KeyOf(n) : n \in ToSet(ItemsAt(v, key))}
ReferredIn(case) ==
    LET chained == ItemsAt(HarnessAt(case, "chain"), "imports")  policy == HarnessAt(case, "evaluate") IN
    ListedIn(HarnessAt(case, "spec_lang"), "exports") \cup (IF IsList(policy) THEN VarsIn(policy) ELSE {})
    \cup Over(chained, LAMBDA item : ListedIn(item, "names") \cup {TextAt(Get(item, "as"), k) : k \in Keys(Get(item, "as"))})
    \cup IF IsLibrary(case) THEN VarsIn(Scope(case, "public")) \cup VarsIn(Scope(case, "private")) ELSE {}
Referenced(all) == Over(all, ReferredIn) \cap Dotted
SymbolsOf(file, scope) == Over(SelectSeq(CasesOf(file), IsLibrary), LAMBDA case : Keys(Scope(case, scope))) \ {""}
(* A file that does not load and a symbol of two files hide what nobody    *)
(* refers to.                                                              *)
ExportsUsed(files, all) ==
    LET twice == \E i, j \in DOMAIN files : i < j /\ SymbolsOf(files[i], "public") \cap SymbolsOf(files[j], "public") # {}
        first == Over(files, Unreadable) \cup Code(twice, "exported twice")
    IN  IF first # {} THEN first
        ELSE Code(~(Over(files, LAMBDA file : SymbolsOf(file, "public")) \subseteq Referenced(all)), "not referenced")
ColocatedTests(files, all) ==
    Over(files, LAMBDA file : Unreadable(file) \cup Code(SymbolsOf(file, "public") # {} /\ SymbolsOf(file, "public") \cap Referenced(all) = {}, "not tested"))
PrivateForbidden(files, cases) ==
    LET Refers(case) ==
            LET policy == HarnessAt(case, "evaluate") IN
            ListedIn(HarnessAt(case, "spec_lang"), "exports") \cup IF IsList(policy) THEN VarsIn(policy) ELSE {}
    IN  Code(Over(cases, Refers) \cap Dotted \cap Over(files, LAMBDA file : SymbolsOf(file, "private")) # {}, "private")

-----------------------------------------------------------------------------
(* The cases that runners of the dispatcher adapt or refuse.               *)
JobRefusals(case) ==
    LET jobs == ItemsAt(Get(case, "harness"), "jobs") IN
    IF jobs = <<>> THEN {"jobs"}
    ELSE Over(jobs, LAMBDA job : Code(~IsDict(job), "job entry") \cup Code(IsDict(job) /\ Missing(job, "id"), "job id"))
         \cup Code(\E i, j \in DOMAIN jobs : i # j /\ ~Missing(jobs[i], "id") /\ TextAt(jobs[i], "id") = TextAt(jobs[j], "id"), "job twice")
Profiles == {"text.file", "cli.run", "api.http"}
OwnKeys == {"id", "type", "title", "purpose", "clauses", "when", "harness", "requires", "expect", "assert_health"}
CheckOf(case) == HarnessAt(case, "check")
CheckRefused(case) ==
    \/ ~IsDict(CheckOf(case)) \/ TextAt(CheckOf(case), "profile") \notin Profiles
    \/ ~(Get(CheckOf(case), "config") = Null \/ IsDict(Get(CheckOf(case), "config")))
(* A key of the config takes the place of the case's own.                  *)
Adapted(case) ==
    LET config == Get(CheckOf(case), "config")
        given == [k \in Keys(config) \ OwnKeys |-> config.dict[k]]
    IN  Dict([type |-> Get(CheckOf(case), "profile"), harness |-> Without(Get(case, "harness"), {"check"})] @@ given @@ case.dict)

-----------------------------------------------------------------------------
(* Cases of api.http, to the checks and to the harness.  What of a text is *)
(* upper case or blank is left out, and templates, which no check expands. *)
Live(text) == text \in {"http://h", "https://h"}
TextOr(v, k, default) == IF Missing(v, k) THEN default ELSE TextAt(v, k)
Methods == {"GET", "POST", "PUT", "PATCH", "DELETE", "HEAD", "OPTIONS"}
(* Slip: only a single request is taken over. *)
SingleOnly(case) ==
    LET config == Get(CheckOf(case), "config") IN
    CASE TextAt(case, "type") = "api.http" -> <<case>>
      [] TextAt(case, "type") = "contract.check" /\ TextAt(CheckOf(case), "profile") = "api.http" ->
           <<Dict(case.dict @@ [k \in {"request"} \cap Keys(config) |-> config.dict[k]])>>
      [] OTHER -> <<>>
HttpCases(case) ==
    LET config == Get(CheckOf(case), "config") IN
    CASE TextAt(case, "type") = "api.http" -> <<case>>
      [] TextAt(case, "type") = "contract.check" /\ TextAt(CheckOf(case), "profile") = "api.http" ->
           <<Dict(case.dict @@ [k \in {"request", "requests"} \cap Keys(config) |-> config.dict[k]])>>
      [] OTHER -> <<>>
SchemaFixture(case) ==
    LET portable == Get(Get(case, "expect"), "portable") IN
    TextAt(portable, "status") = "fail" /\ TextAt(portable, "category") = "schema"
RequestsIn(case) ==
    (IF IsDict(Get(case, "request")) THEN <<Get(case, "request")>> ELSE <<>>) \o SelectSeq(ItemsAt(case, "requests"), IsDict)

RECURSIVE AssertTargets(_)
AssertTargets(node) ==
    CASE IsList(node) -> Over(node.list, AssertTargets)
      [] IsDict(node) -> (IF IsText(Get(node, "target")) THEN {TextAt(node, "target")} \ {""} ELSE {})
                         \cup UNION {AssertTargets(Get(node, k)) : k \in Groups}
      [] OTHER -> {}
PortableShape(case, rule) ==
    LET request == Get(case, "request")  requests == Get(case, "requests")
        Lacks(step) == Code(\E f \in rule.fields : Missing(step, f), "field")
        OfStep(step) == IF ~IsDict(step) THEN {"step"} ELSE Lacks(step) \cup Code(Missing(step, "id"), "step id")
    IN  Code(~(Keys(case) \subseteq rule.keys), "top key")
        \cup Code(~(AssertTargets(Get(case, "clauses")) \subseteq rule.targets), "target")
        \cup CASE request # Null /\ requests # Null -> {"both"}
               [] IsDict(request) -> IF SchemaFixture(case) THEN {} ELSE Lacks(request)
               [] request = Null /\ IsList(requests) -> Code(requests.list = <<>>, "no steps") \cup Over(requests.list, OfStep)
               [] OTHER -> {"no request"}

OauthBlock(case) == Get(Get(HarnessAt(case, "api_http"), "auth"), "oauth")
EnvOnly(case) ==
    LET oauth == OauthBlock(case) IN
    IF ~IsDict(oauth) THEN {}
    ELSE Code(Missing(oauth, "client_id_env") \/ Missing(oauth, "client_secret_env"), "variable")
         \cup Code(Has(oauth, "client_id") \/ Has(oauth, "client_secret"), "inline")
NoLiterals(case) ==
    Code(Keys(OauthBlock(case)) \cap {"client_id", "client_secret", "access_token", "refresh_token", "password"} # {}, "literal")
    \cup Over(RequestsIn(case), LAMBDA r : Code(TextAt(Get(r, "headers"), "authorization") = "bearer t", "bearer"))
(* Slip: the address of the tokens is not looked at. *)
RequestsOnly(case) ==
    Code(TextOr(HarnessAt(case, "api_http"), "mode", "deterministic") # "live"
         /\ \E r \in ToSet(RequestsIn(case)) : Live(TextAt(r, "url")), "live")
LiveMode(case) ==
    Code(TextOr(HarnessAt(case, "api_http"), "mode", "deterministic") # "live"
         /\ (Live(TextAt(OauthBlock(case), "token_url")) \/ \E r \in ToSet(RequestsIn(case)) : Live(TextAt(r, "url"))), "live")
VerbSuite(cases) ==
    LET Complaints(case) ==
            Over(RequestsIn(case), LAMBDA r : Code(Missing(r, "method"), "no method")
                                               \cup Code(~SchemaFixture(case) /\ TextAt(r, "method") \notin Methods \cup {""}, "method"))
    IN  Over(cases, Complaints)
        \cup Code(~(Methods \subseteq Over(cases, LAMBDA case : {TextAt(r, "method") : r \in ToSet(RequestsIn(case))})), "not covered")
Roundtrip(cases) ==
    LET StepIds(case) == SelectSeq(ItemsAt(case, "requests"), LAMBDA s : ~Missing(s, "id"))
        OfStep(step) == IF ~IsDict(step) THEN {"step"} ELSE Code(Missing(step, "id"), "step id")
        Twice(case) == ~IsInjective([i \in DOMAIN StepIds(case) |-> TextAt(StepIds(case)[i], "id")])
    IN  Over(cases, LAMBDA case : Over(ItemsAt(case, "requests"), OfStep) \cup Code(Twice(case), "step twice"))
        \cup Code(\A i \in DOMAIN cases : ItemsAt(cases[i], "requests") = <<>>, "no scenario")

(* The harness: what may be wrong with harness.api_http, a request, a case.*)
HarnessRefusals(case) ==
    LET http == HarnessAt(case, "api_http")  auth == Get(http, "auth")  oauth == Get(auth, "oauth") IN
    IF http = Null THEN {} ELSE IF ~IsDict(http) THEN {"api_http"}
    ELSE Code(TextOr(http, "mode", "deterministic") \notin {"deterministic", "live"}, "mode")
         \cup Code(~(Get(http, "scenario") = Null \/ IsDict(Get(http, "scenario"))), "scenario")
         \cup IF auth = Null THEN {} ELSE IF ~IsDict(auth) THEN {"auth"}
              ELSE IF oauth = Null THEN {} ELSE IF ~IsDict(oauth) THEN {"oauth"}
              ELSE Code(TextOr(oauth, "grant_type", "client_credentials") # "client_credentials", "grant")
                   \cup Code(Missing(oauth, "token_url"), "token url")
                   \cup Code(Missing(oauth, "client_id_env"), "variable") \cup Code(Missing(oauth, "client_secret_env"), "variable")
                   \cup Code(TextOr(oauth, "auth_style", "basic") \notin {"basic", "body"}, "style")
                   \cup Code(Has(oauth, "refresh_skew_seconds") /\ ~(IsIndex(Get(oauth, "refresh_skew_seconds")) /\ AsInt(Get(oauth, "refresh_skew_seconds")) >= 0), "skew")
PrepareRefusals(request) ==
    LET Mapped(key) == Get(request, key) = Null \/ IsDict(Get(request, key))
        cors == Get(request, "cors")
    IN  Code(TextAt(request, "method") \notin Methods, "method") \cup Code(Missing(request, "url"), "url")
        \cup Code(Truthy(Get(request, "headers")) /\ ~Mapped("headers"), "headers") \cup Code(~Mapped("query"), "query") \cup Code(~Mapped("cors"), "cors")
        \cup Code(Get(request, "body_text") # Null /\ Get(request, "body_json") # Null, "body")
        \cup Code(Truthy(Get(cors, "preflight")) /\ (TextAt(request, "method") # "OPTIONS" \/ Missing(cors, "request_method")), "preflight")
        \cup Code(Truthy(Get(cors, "preflight")) /\ ~(Get(cors, "request_headers") = Null \/ IsList(Get(cors, "request_headers"))), "preflight")
HttpRefusals(case) ==
    LET request == Get(case, "request")  requests == Get(case, "requests")
        mode == TextOr(HarnessAt(case, "api_http"), "mode", "deterministic")
        Fetch(url) == Code(mode # "live" /\ Live(url), "live")
        Sent(step) == PrepareRefusals(step) \cup Fetch(TextAt(step, "url"))
        OfStep(step) == IF ~IsDict(step) THEN {"step"} ELSE Sent(step) \cup Code(Missing(step, "id"), "step id")
    IN  HarnessRefusals(case)
        \cup (IF IsDict(OauthBlock(case)) THEN Fetch(TextAt(OauthBlock(case), "token_url")) ELSE {})
        \cup CASE request # Null /\ requests # Null -> {"both"}
               [] request = Null /\ requests = Null -> {"no request"}
               [] request # Null -> IF IsDict(request) THEN Sent(request) ELSE {"no request"}
               [] OTHER -> IF ItemsAt(case, "requests") = <<>> THEN {"no steps"} ELSE Over(requests.list, OfStep)
=============================================================================
