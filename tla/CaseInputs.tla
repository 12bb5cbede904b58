-------------------------------- MODULE CaseInputs --------------------------------
(* Small cases, libraries and repositories for the tools that rewrite them. *)
EXTENDS CaseToolsProperties

SeqsUpTo(S, n) == UNION {[1 .. k -> S] : k \in 0 .. n}
Optional(v, k, set) == {v} \cup {Set(v, k, x) : x \in set}

Var(n) == Dict([var |-> Str(n)])
Lit(v) == Dict([lit |-> v])
Call(op, args) == Dict(op :> List(args))
Lambda(params, body) == Dict([fn |-> List(<<params, body>>)])
Evaluate(v) == Dict([evaluate |-> v])

-----------------------------------------------------------------------------
(* Expressions. *)
Atoms == {Str("x"), Null, Var("subject"), Lit(Num(1)), Lit(Lit(Num(1))), Lit(Var("x")), Lit(Dict([plain |-> Num(1)])),
          Lit(Dict("a.b" :> Num(1))), Dict([var |-> Num(1)]), Dict(<<>>)}
Wrapped(e) == {e, Call("std.eq", <<e, Var("x")>>), Evaluate(e), Evaluate(List(<<e>>)), Evaluate(List(<<e, e>>)), Lit(e), Lit(List(<<e>>)),
               Lambda(List(<<Str("x")>>), e), Lambda(Lit(List(<<Str("x")>>)), e), Lambda(e, Var("x")), List(<<e>>),
               Dict([plain |-> e, other |-> Num(1)]), Call("MUST", <<e>>)}
ExprSet == UNION {Wrapped(e) : e \in UNION {Wrapped(a) : a \in Atoms}}

(* Imports. *)
Item(names, as) == LET item == Dict([from |-> Str("artifact"), names |-> List(names)])
                   IN  IF DOMAIN as = {} THEN item ELSE Set(item, "as", Dict(as))
NameLists == {<<>>, <<Str("text")>>, <<Str("text"), Str("rows")>>, <<Str("rows"), Str("rows")>>, <<Str("")>>}
AliasMaps == {<<>>, [text |-> Str("subject")], [rows |-> Str("text")], [lost |-> Str("text")], [text |-> Str("")]}
Items == {Item(n, a) : n \in NameLists, a \in AliasMaps}
         \cup {Dict([from |-> Str("symbol"), names |-> List(<<Str("text")>>)]), Str("text"),
               Set(Item(<<Str("text")>>, <<>>), "why", Num(1)), Set(Item(<<Str("text")>>, <<>>), "as", Str("x"))}
RawImports == {Null, Str("text"), Dict([subject |-> Dict([from |-> Str("artifact"), key |-> Str("text")])]), Dict([subject |-> Str("text")])}
              \cup {List(l) : l \in SeqsUpTo(Items, 2)}

-----------------------------------------------------------------------------
(* Clauses to format: steps with targets, imports and the names in their   *)
(* assertions. *)
Refs == {Var("subject"), Call("std.eq", <<Var("subject"), Var("text")>>), Lit(Num(1))}
SubjectOf(key) == List(<<Item(<<Str(key)>>, key :> Str("subject"))>>)
Imported(names) == List(<<Item(names, <<>>)>>)
StepImports == {SubjectOf("text"), SubjectOf("rows"), Imported(<<Str("text")>>)}
StepHeads == {Dict(<<>>), Dict([target |-> Str("text")]), Dict([on |-> Str("rows"), class |-> Str("MUST")]),
              Dict([id |-> Str("one"), class |-> Str("MAY")])}
Steps == UNION {Optional(Set(h, "assert", r), "imports", StepImports) : h \in StepHeads, r \in Refs}
         \cup {Dict([asserts |-> List(<<Var("subject")>>)]),
               Dict([assert |-> List(<<Dict([class |-> Str("MUST"), asserts |-> List(<<Call("MUST", <<Var("subject")>>)>>)])>>)]),
               Dict([assert |-> Lit(Dict([must |-> List(<<Evaluate(Var("subject"))>>)]))])}
FewSteps == {Dict([assert |-> r]) : r \in Refs} \cup {Dict([assert |-> r, imports |-> SubjectOf("rows")]) : r \in Refs}
Heads == {Dict(<<>>), Dict([imports |-> SubjectOf("text")]), Dict([imports |-> Imported(<<Str("rows")>>)]),
          Dict([defaults |-> Dict([target |-> Str("text")])]),
          Dict([defaults |-> Dict([imports |-> SubjectOf("rows")]), imports |-> Imported(<<Str("text")>>)])}
Formattable == {Set(h, "steps", List(<<one, two>>)) : h \in Heads, one \in Steps, two \in FewSteps}

(* Clauses to compile. *)
Asserts1 == {Null, Var("x"), List(<<>>), List(<<Var("x"), Lit(Num(1))>>), Evaluate(Var("x")), Call("std.eq", <<List(<<>>)>>)}
Predicates == {Set(p, "assert", a) : a \in Asserts1,
                  p \in {Dict(<<>>), Dict([id |-> Str("step_002")]), Dict([required |-> Bool(FALSE), imports |-> Imported(<<Str("text")>>)]),
                         Dict([imports |-> SubjectOf("rows"), priority |-> Num(2)]), Dict([severity |-> Num(0)]), Dict([class |-> Str("MAY")])}}
Expects == {Null, Dict([status |-> Str("pass")]), Dict([violation_count |-> Num(0), summary_json |-> Dict([rows |-> Num(1)])])}
ClauseHeads == {Dict(<<>>), Dict([imports |-> SubjectOf("text")]), Dict([imports |-> Imported(<<Str("text"), Str("subject")>>), defaults |-> Dict([required |-> Bool(FALSE)])]),
                Dict([defaults |-> Dict([class |-> Str("MUST")])])}
Compilable == {[clauses |-> Set(h, "predicates", List(p)), expect |-> e] : h \in ClauseHeads, p \in SeqsUpTo(Predicates, 2), e \in Expects}
              \cup {[clauses |-> c, expect |-> e] : c \in {Null, Str("x"), List(<<>>), Dict([steps |-> List(<<Dict([assert |-> Var("x")])>>)])}, e \in Expects}

(* Cases whose clauses have some shape. *)
ShapeSteps == {Str("x")} \cup UNION {Optional(s, "assert", {Null, List(<<>>), Var("x")}) :
                  s \in {Dict(<<>>), Dict([class |-> Str("must")]), Dict([class |-> Str("MAY"), on |-> Str("text")]), Dict([target |-> Str("text"), asserts |-> List(<<>>)])}}
Shapes == {Null, List(<<>>), Str("x"), Dict(<<>>)}
          \cup {Dict([steps |-> List(s), defaults |-> d]) : s \in SeqsUpTo(ShapeSteps, 2), d \in {Null, Dict(<<>>), Str("x")}}
ShapedCases == UNION {Optional(Dict([id |-> Str("c"), type |-> Str("text.file"), clauses |-> c]), "assert", {List(<<>>)}) : c \in Shapes}

-----------------------------------------------------------------------------
(* Exports: a documented one, and what is wrong with one of its fields. *)
Param(n) == Dict([name |-> Str(n), type |-> Str("any"), description |-> Str("d"), required |-> Bool(TRUE)])
GoodDoc == Dict([summary |-> Str("s"), description |-> Str("d"), params |-> List(<<Param("x")>>),
                 returns |-> Dict([type |-> Str("any"), description |-> Str("d")]),
                 errors |-> List(<<Dict([code |-> Str("e"), when |-> Str("w"), category |-> Str("schema")])>>),
                 examples |-> List(<<Dict([title |-> Str("t"), input |-> Num(1), expected |-> Num(1)])>>),
                 portability |-> Dict([python |-> Bool(TRUE), php |-> Bool(FALSE), rust |-> Bool(FALSE)])])
Flaws == {Null, Str(""), List(<<>>), Dict(<<>>), List(<<Str("x")>>), List(<<Dict([name |-> Str("x")])>>), List(<<Param("x"), Param("y")>>)}
Docs == {GoodDoc, Str("x")} \cup {Set(GoodDoc, k, v) : k \in ExportDocKeys \cup {"more"}, v \in Flaws}
Export(as, doc) == Dict([as |-> Str(as), params |-> List(<<Str("x")>>), doc |-> doc])
Exports == {<<Export("b", d)>> : d \in Docs} \cup {<<Export(m, GoodDoc), Export(n, GoodDoc)>> : m, n \in {"b", "a.b", "c", ""}}
           \cup {<<>>, <<Str("x")>>, <<Set(Export("b", GoodDoc), "params", Str("x"))>>}
GoodRoot == Dict([summary |-> Str("s"), description |-> Str("d"), audience |-> Str("a"), since |-> Str("v")])
GoodLibrary == Dict([id |-> Str("l"), module |-> Str("m"), owner |-> Str("o"), stability |-> Str("beta")])
Roots == {Null, GoodRoot, Str("x")} \cup {Set(GoodRoot, k, v) : k \in CaseDocKeys \cup {"more"}, v \in {Str(""), List(<<Str("x")>>), Dict(<<>>)}}
Libraries == {Null, GoodLibrary} \cup {Set(GoodLibrary, k, v) : k \in {"id", "stability", "tags"}, v \in {Str(""), List(<<Str("x")>>)}}
ExportCase(root, library, exports, domain) ==
    Dict([id |-> Str("c"), type |-> Str("contract.export"), doc |-> root, library |-> library, domain |-> domain,
          harness |-> Dict([exports |-> List(exports)])])
Domains == {Null, Str("a"), Str(""), Num(1)}
ExportCases == {ExportCase(GoodRoot, GoodLibrary, e, d) : e \in Exports, d \in Domains}
               \cup {ExportCase(r, l, <<Export("b", GoodDoc)>>, Null) : r \in Roots, l \in Libraries}

-----------------------------------------------------------------------------
(* Libraries and repositories. *)
Symbols(names) == Dict([n \in names |-> Var(n)])
LibraryCase(public, private) ==
    Dict([id |-> Str("l"), type |-> Str("spec_lang.export"), defines |-> Dict([public |-> Symbols(public), private |-> Symbols(private)])])
LibraryCases == {LibraryCase(p, q) : p \in SUBSET {"f", "g"}, q \in SUBSET {"h", "k"}}
                \cup {Dict([id |-> Str("l"), type |-> Str("text.file"), defines |-> Dict([public |-> Symbols({"f", "g"})])]),
                      Dict([id |-> Str("m"), type |-> Str("spec_lang.export"), defines |-> Dict([private |-> Symbols({"h"})])])}
Suite(cases) == Dict([spec_version |-> Num(1), schema_ref |-> Str("s"), contracts |-> List(cases)])
(* Suites that are themselves like a library case. *)
RootLibraries == {Dict(Suite(<<LibraryCase({"f"}, {})>>).dict @@ c.dict) : c \in LibraryCases}
LibrarySet == SeqsUpTo(LibraryCases, 2) \cup {<<Suite(s)>> : s \in SeqsUpTo(LibraryCases, 2)} \cup {<<r>> : r \in RootLibraries}
              \cup {<<Dict([contracts |-> List(<<c>>)])>> : c \in LibraryCases} \cup {<<Suite(<<Dict([type |-> Str("spec_lang.export")])>>), Null>>}

Page == <<"docs", "page.md">>
Readme == <<"docs/book", "README.md">>
Index == <<"docs/book", "index.md">>
Harness == <<"harnesses", "cli_run.py">>
Edit(old, new) == [old |-> old, new |-> new]
Edits == {Edit("a", <<"b">>), Edit("b", <<"c">>), Edit("a", <<"a", "a">>), Edit("c", <<"a">>)}
Rules == SeqsUpTo({[file |-> f, edits |-> e] : f \in {Page, <<"docs", "lost.md">>}, e \in {<<x>> : x \in Edits} \cup {<<x, y>> : x, y \in Edits}}, 1)
         \cup {<<[file |-> Page, edits |-> <<x>>], [file |-> Page, edits |-> <<y>>]>> : x, y \in Edits}
Syncs == {<<>>, <<[file |-> Page, must |-> {"b"}, must_not |-> {"a"}]>>, <<[file |-> Index, must |-> {}, must_not |-> {"old"}]>>}
Layout == [roots |-> {"docs"}, forbidden |-> {"docs/reviews"}, index |-> {"docs/book"}, names |-> {"README.md", ".DS_Store"}]
Texts1 == {<<>>, <<"a">>, <<"b">>, <<"b", "a">>, <<"docs/book/README.md", "c">>}
Books == {Index :> <<"new">>, Readme :> <<"old">>, (Index :> <<"new">>) @@ (Readme :> <<"old">>) @@ (<<"docs", ".DS_Store">> :> <<>>),
          (Index :> <<"new">>) @@ (Harness :> <<"build_execution_context">>), (Index :> <<"new">>) @@ (<<"docs", "Upper.md">> :> <<>>)}
PlainCase == Dict([id |-> Str("c"), type |-> Str("text.file"), clauses |-> Dict([steps |-> List(<<>>)])])
Hooks == Dict([fail |-> List(<<Evaluate(Var("x"))>>)])
TwoSymbols == LibraryCase({"f", "g"}, {"h"})
(* Spec files and libraries: suites, cases in blocks of their own, a suite *)
(* with hooks in its root.                                                 *)
SpecFiles == {[specs |-> <<>>, libraries |-> <<>>], [specs |-> <<<<Suite(<<PlainCase>>)>>>>, libraries |-> <<>>],
              [specs |-> <<<<Set(PlainCase, "when", Hooks)>>>>, libraries |-> <<<<TwoSymbols>>>>],
              [specs |-> <<<<Suite(<<Set(PlainCase, "when", Hooks)>>)>>>>, libraries |-> <<>>],
              [specs |-> <<<<Set(Suite(<<PlainCase>>), "when", Hooks)>>>>, libraries |-> <<>>],
              [specs |-> <<>>, libraries |-> <<<<Suite(<<TwoSymbols>>)>>, <<TwoSymbols, PlainCase>>>>]}
Repo(text, book, of, dirs) ==
    [files |-> (Page :> text) @@ book, dirs |-> dirs, specs |-> of.specs, libraries |-> of.libraries, md |-> 0, artifacts |-> 0]
Repos == {Repo(t, b, of, {"docs", "docs/book"}) : t \in Texts1, b \in Books, of \in SpecFiles}
         \cup {Repo(<<"b">>, Index :> <<>>, [specs |-> <<>>, libraries |-> <<>>], d) : d \in {{"docs"}, {"docs/book", "docs/reviews"}}}
Repositories == {[tree |-> r, profile |-> [rules |-> x, sync |-> s, layout |-> Layout]] : r \in Repos, x \in Rules, s \in Syncs}

-----------------------------------------------------------------------------
(* Cases that the checks of governance read: clauses of a few types of     *)
(* case, hooks, jobs, libraries that others refer to, api.http.            *)
GovernedSteps == {Str("x")} \cup UNION {Optional(s, "imports", {SubjectOf("text"), Imported(<<Str("text")>>), Str("x"),
                      List(<<Item(<<>>, <<>>)>>), List(<<Item(<<Str("text")>>, [lost |-> Str("subject")])>>)}) :
                  s \in {Dict([assert |-> Var("subject")]), Dict([assert |-> Call("std.eq", <<Var("text"), Num(1)>>), target |-> Str("text")]),
                         Dict([assert |-> Lit(Var("subject")), on |-> Str("rows")])}}
GovernedHeads == {Null, SubjectOf("text"), Imported(<<Str("text"), Str("")>>), Str("x"), List(<<Str("x")>>),
                  Dict([defaults |-> Null]), Dict([steps |-> Num(1), subject |-> Num(1)])}
Defaults == {Null, Dict([target |-> Str("x")]), Dict([imports |-> SubjectOf("text")]), Str("x")}
GovernedClauses == {Dict([type |-> Str(t), clauses |-> Dict([steps |-> List(<<s>>), imports |-> i, defaults |-> d])]) :
                        t \in {"text.file", "contract.export"}, s \in GovernedSteps, i \in GovernedHeads, d \in Defaults}

HookLists == {Null, List(<<>>), List(<<Call("ops.job.dispatch", <<Str("on_fail")>>)>>), List(<<Call("ops.job.dispatch", <<Str("main")>>), Str("x")>>),
              List(<<Call("ops.job.dispatch", <<Str("on_complete")>>), Var("x")>>)}
Whens == {Null, Str("x"), Dict(<<>>)} \cup {Dict([fail |-> f, complete |-> c]) : f \in HookLists, c \in HookLists}
         \cup {Dict(k :> l) : k \in {"must", "must_not", "required", "optional", "later"}, l \in HookLists}
Job(id, helper) == Dict([id |-> Str(id), helper |-> Str(helper)])
JobLists == {Null, List(<<>>), Str("x"), List(<<Job("on_fail", "h"), Job("on_complete", "h")>>), List(<<Job("a", "h"), Job("a", "h")>>),
             List(<<Job("", "h")>>), List(<<Job("a", "")>>), List(<<Str("x"), Job("a", "h")>>), List(<<Set(Job("a", "h"), "ref", Str("r"))>>)}
Granted == {Dict([capabilities |-> List(<<Str("ops.job")>>)])}
JobHarnesses == {Null, Str("x"), Dict([on |-> Num(1)])}
                \cup UNION {Optional(h, "job", {Str("old")}) : h \in UNION {Optional(Dict([jobs |-> j]), "spec_lang", Granted) : j \in JobLists}}
JobCases == {Dict([type |-> Str(t), harness |-> h, when |-> w, clauses |-> c]) :
                 t \in {"contract.job", "text.file"}, h \in JobHarnesses, w \in Whens,
                 c \in {Dict([steps |-> List(<<>>)]), Dict([steps |-> List(<<Dict([assert |-> Call("ops.job.dispatch", <<Str("main")>>)])>>)])}}

Defining(public, private) ==
    Dict([id |-> Str("l"), type |-> Str("spec_lang.export"), defines |-> Dict([public |-> Dict(public), private |-> Dict(private)])])
Definers == {Defining(p, q) : p \in {<<>>, "m.f" :> Var("x"), ("m.f" :> Var("m.h")) @@ ("m.g" :> Var("m.f"))}, q \in {<<>>, "m.h" :> Var("m.g"), "m.f" :> Num(1)}}
            \cup {Dict([id |-> Str("l"), type |-> Str("spec_lang.export"), defines |-> d]) : d \in {Str("x"), Dict(<<>>)}}
Referring(harness) == Dict([type |-> Str("governance.check"), harness |-> Dict(harness), clauses |-> Dict([steps |-> List(<<Var("m.f")>>)])])
Referrers == {Referring([spec_lang |-> Dict([exports |-> List(<<Str("m.f"), Str("x")>>)])]), Referring([evaluate |-> List(<<Dict([var |-> Str("m.g"), more |-> Var("m.h")])>>)]),
              Referring([chain |-> Dict([imports |-> List(<<Item(<<Str("m.g")>>, "m.g" :> Str("m.f")), Str("x")>>)])])}
LibraryFiles == {<<Suite(<<d>>)>> : d \in Definers} \cup {<<Suite(<<Defining("m.f" :> Var("x"), <<>>), Defining("m.g" :> Var("x"), <<>>)>>)>>}
                \cup {<<Defining(("m.f" :> Var("x")) @@ ("m.g" :> Var("x")), <<>>)>>,
                      <<Dict(Suite(<<Defining("m.f" :> Var("x"), <<>>)>>).dict @@ Defining(<<>>, "m.h" :> Var("m.g")).dict)>>,
                      <<Dict(Suite(<<Defining("m.f" :> Var("x"), <<>>)>>).dict @@ Defining(<<>>, ("m.g" :> Var("x")) @@ ("m.h" :> Var("m.g"))).dict)>>}
Shelves == {[files |-> f, cases |-> c] : f \in SeqsUpTo(LibraryFiles, 2), c \in SeqsUpTo(Referrers, 1)}

Requests == {Dict([method |-> Str("GET"), url |-> Str(u)]) : u \in {"page", "http://h", ""}}
            \cup {Dict([url |-> Str("page"), headers |-> Dict([authorization |-> Str("bearer t")])]), Dict([method |-> Str("BREW"), url |-> Str("page")]), Str("x"),
                  Dict([method |-> Str("OPTIONS"), url |-> Str("page"), cors |-> Dict([preflight |-> Bool(TRUE)])]),
                  Dict([method |-> Str("OPTIONS"), url |-> Str("page"),
                        cors |-> Dict([preflight |-> Bool(TRUE), request_method |-> Str("GET"), request_headers |-> Str("x")])]),
                  Dict([method |-> Null, url |-> Null, body_text |-> Str("t"), body_json |-> Num(1)])}
AskedSteps == {Set(r, "id", Str(i)) : r \in {r \in Requests : IsDict(r)}, i \in {"a", "b", ""}} \cup {Str("x")}
FewAsked == {List(s) : s \in SeqsUpTo(AskedSteps, 1)} \cup {List(<<s, Set(Dict([method |-> Str("GET"), url |-> Str("page")]), "id", Str("a"))>>) : s \in AskedSteps}
Oauths == {Null, Str("x"), Dict([token_url |-> Str("t"), client_id_env |-> Str("I"), client_secret_env |-> Str("S")]),
           Dict([token_url |-> Str("https://h"), client_id_env |-> Str("I"), client_secret_env |-> Str("S"), refresh_skew_seconds |-> Num(-1)]),
           Dict([client_id_env |-> Str("I"), client_secret |-> Str("s"), grant_type |-> Str("password")])}
HttpHarnesses == {Null, Str("x")} \cup {Dict([mode |-> Str(m), auth |-> a]) : m \in {"live", "", "fast"}, a \in {Null, Str("x")} \cup {Dict([oauth |-> o]) : o \in Oauths}}
Asked == {[k \in {"request"} |-> r] : r \in Requests \cup {Null}} \cup {[k \in {"requests"} |-> r] : r \in FewAsked \cup {Str("x")}}
         \cup {[request |-> r, requests |-> List(<<>>)] : r \in Requests}
Expecting == {Null, Dict([portable |-> Dict([status |-> Str("fail"), category |-> Str("schema")])])}
PlainHttp == {Dict([type |-> Str("api.http"), harness |-> Dict([api_http |-> h]), expect |-> e] @@ a) : h \in HttpHarnesses, e \in Expecting, a \in Asked}
WrappedHttp == {Dict([type |-> Str("contract.check"), expect |-> Null, harness |-> Dict([api_http |-> h, check |-> Dict([profile |-> Str(p), config |-> c])])]) :
                    h \in {Null, Dict([mode |-> Str("live")])}, p \in {"api.http", "text.file", "x"}, c \in {Dict(a) : a \in Asked} \cup {Null, Str("x")}}

CasesFor(kind, inputs) == [kind : {kind}, of : inputs]
ToolsHold(kind, input) ==
    CASE kind = "expr" -> ExpressionsKept(input)
      [] kind = "imports" -> ImportsAgree(input) /\ ImportsComeBack(input)
      [] kind = "clauses" -> ClausesKept(input)
      [] kind = "compiled" -> TreeIsTheCase(input.clauses, input.expect)
      [] kind = "shape" -> ShapesAgree(input) /\ ClausesGoverned(input)
      [] kind = "exports" -> ExportDocsAgree(input) /\ ExportsGoverned(input)
      [] kind = "split" -> SplitKeepsDefinitions(input)
      [] kind = "clausesOf" -> ClausesGoverned(input)
      [] kind = "jobs" -> HooksGoverned(input) /\ JobsGoverned(input)
      [] kind = "shelf" -> LibrariesGoverned(input.files, input.cases)
      [] kind = "http" -> HttpGoverned(input)
      [] kind = "repo" -> NormaliserSettles(input.tree, input.profile)
=============================================================================
