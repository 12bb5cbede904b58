----------------------------- MODULE MCAlgorithms -----------------------------
(***************************************************************************)
(* The pure parts on small inputs: every behaviour takes one input of one  *)
(* kind (part) and answers it.                                             *)
(***************************************************************************)
EXTENDS SpecLibraries

CONSTANTS MaxList, MaxPath
VARIABLES part, input, output

D == INSTANCE SpecDataProperties
P == INSTANCE SpecPaths
C == INSTANCE ChainCheckInputs
Q == INSTANCE QualityMetricInputs
T == INSTANCE CaseInputs
vars == <<part, input, output>>

ProgramTable == [ok |-> [code |-> 0, long |-> FALSE], slow |-> [code |-> 3, long |-> TRUE]]
HelperTable == [echo |-> [kind |-> "echo", v |-> Null], said |-> [kind |-> "result", v |-> Num(5)],
                broken |-> [kind |-> "error", v |-> Null], dies |-> [kind |-> "exit", v |-> Null]]
JobTable == [build |-> [helper |-> "echo", inputs |-> [a |-> Num(1), b |-> Num(1)]],
             lost |-> [helper |-> "nobody", inputs |-> <<>>]]
OverrideTable == [b |-> Num(2), c |-> Num(2)]

-----------------------------------------------------------------------------
(* Programs: what each builtin that acts does, alone, lazily, in a         *)
(* collection, curried, imported, through a function, and in a loop.       *)
Exec(cmd, timeout) == E("exec", <<Lit(List(<<Str(cmd)>>)), timeout>>)
Acts == {Exec("ok", Num(0)), Exec("slow", Num(5)), Exec("slow", Num(0)),
         E("helper_call", <<Str("echo"), Num(1)>>), E("helper_call", <<Str("dies"), Num(1)>>),
         E("job_dispatch", <<Str("build")>>), E("job_dispatch", <<Str("build"), Lit(Dict([c |-> Num(3)]))>>),
         E("job_dispatch", <<Str("lost")>>)}
ExecFn == Call(Fun("exec"), <<Lit(List(<<Str("slow")>>))>>)
Loop(body) == Let(<<"loop">>, <<Fn(<<"n">>, E("if", <<E("lte", <<Var("n"), Num(0)>>), body,
                                   Call(Var("loop"), <<E("sub", <<Var("n"), Num(1)>>)>>)>>)),
                                Call(Var("loop"), <<Num(2)>>)>>)
Forever == Let(<<"loop">>, <<Fn(<<"n">>, Call(Var("loop"), <<Var("n")>>)), Call(Var("loop"), <<Num(1)>>)>>)
Around(act) ==
    {act, E("or", <<act, act>>), E("and", <<E("not", <<act>>), act>>), E("coalesce", <<act, act>>),
     E("if", <<E("exit_code", <<>>), act, E("exit_code", <<>>)>>), Loop(act), [items |-> <<act, Var("nobody"), act>>],
     E("map", <<Fn(<<"x">>, act), Lit(List(<<Num(1), Num(2)>>))>>),
     E("find", <<Fn(<<"x">>, act), Lit(List(<<Num(1), Num(2)>>))>>),
     Let(<<"a", "b">>, <<act, E("exit_code", <<>>), [dict |-> [p |-> Var("a"), q |-> Var("b")]]>>)}
Exprs == UNION {Around(act) : act \in Acts}
         \cup {Forever, E("map", <<ExecFn, Lit(List(<<Num(1), Num(2)>>))>>), Call(ExecFn, <<Num(1)>>),
               Short("run", <<Lit(List(<<Str("ok")>>)), Num(1)>>), E("reduce", <<Fun("add"), Num(0), Lit(List(<<Num(1), Num(2)>>))>>)}
Capabilities == {{}, {"ops.os"}, {"ops.helper"}, {"ops.job"}, {"ops.os", "ops.helper", "ops.job"}}
ProgramSet == {[expr |-> e, subject |-> Num(0), max |-> 40, symbols |-> <<>>, imports |-> [run |-> "exec"], caps |-> c] :
                   e \in Exprs, c \in Capabilities}

(* Calls: every eager builtin with the arguments it asks for, and one more. *)
Arguments == {Num(0), Num(2), Bool(TRUE), Lit(List(<<Num(1), Num(2), Num(1)>>)), Lit(Dict([a |-> Num(1)])), Fun("not")}
CallsOf(ops) == UNION {{[op |-> op, es |-> es] : es \in [1 .. Arity[op] -> Arguments]} : op \in ops}
EagerCalls == CallsOf(Builtins \ (DOMAIN Higher \cup DOMAIN World))
HigherCalls == CallsOf({"map", "filter", "default_to"})

(* Scopes: bodies over the free v and the parameter x, and two functions   *)
(* that call each other.                                                   *)
Bodies == {Var("v"), Var("x"), E("add", <<Var("v"), Var("x")>>), Let(<<"v">>, <<Var("x"), Var("v")>>),
           Call(Fn(<<"v">>, E("add", <<Var("v"), Var("x")>>)), <<Var("v")>>),
           E("map", <<Fn(<<"y">>, E("add", <<Var("y"), Var("v")>>)), [items |-> <<Var("x"), Var("v")>>]>>),
           Call(Call(Fn(<<"x">>, Fn(<<"y">>, [items |-> <<Var("x"), Var("y"), Var("v")>>])), <<Num(8)>>), <<Var("x")>>)}
Down(next, base) == E("if", <<E("lte", <<Var("x"), Num(0)>>), base, Call(Var(next), <<E("sub", <<Var("x"), Num(1)>>)>>)>>)
FunctionBodies == {Down("f", Str("f")), Down("g", Var("x")), Var("x"), Call(Var("f"), <<Num(0)>>)}
Scopes == {[body |-> b, outer |-> o, inner |-> i, one |-> f, other |-> g] :
              b \in Bodies, o \in {Num(1), Num(2)}, i \in {Num(1), Str("w")}, f \in FunctionBodies, g \in FunctionBodies}

(* Values, paths, schemas. *)
Members == {Num(1), Bool(TRUE), List(<<Num(1)>>)}
Seqs(S, n) == UNION {[1 .. k -> S] : k \in 0 .. n}
ListPairs == {[left |-> l, right |-> r] : l \in Seqs(Members, MaxList), r \in Seqs(Members, MaxList)}
Leaves == {Num(1), List(<<Num(2)>>), Dict(<<>>)}
Inner == Leaves \cup {Dict([a |-> v]) : v \in Leaves} \cup {Dict([a |-> Num(1), b |-> v]) : v \in Leaves}
Dicts == {<<>>} \cup {[a |-> v] : v \in Inner} \cup {[b |-> v] : v \in Leaves} \cup {[a |-> v, b |-> w] : v \in Inner, w \in Leaves}
DictPairs == {[left |-> l, right |-> r] : l \in Dicts, r \in Dicts}
Segments == {Str("a"), Str("b"), Num(0), Num(1), Num(-1), Bool(TRUE)}
Parts == {P!Empty, P!Here, P!Up, P!Part("a"), [stem |-> "b", ext |-> ".x"]}
PathSet == UNION {[1 .. n -> Parts] : n \in 1 .. MaxPath}
PathPairs == {[one |-> p, other |-> q] : p \in PathSet, q \in PathSet}
Simple == {[type |-> "integer"], [type |-> "array", min_items |-> 1], [type |-> "object", required |-> {"a"}],
           [const |-> Num(1)], [enum |-> <<Null, Bool(TRUE)>>], [max_items |-> 1, items |-> [type |-> "number"]],
           [properties |-> [a |-> [type |-> "number"]], allow_extra |-> FALSE]}
SchemaSet == Simple \cup {[properties |-> [a |-> s], required |-> {"a"}] : s \in Simple}
             \cup {[items |-> s, not |-> [const |-> List(<<Num(1)>>)]] : s \in Simple}
             \cup {[any_of |-> <<s, [not |-> [any_of |-> <<s, [type |-> "list"]>>]]>>] : s \in Simple}
Instances == {Null, Num(1), Bool(TRUE), List(<<>>), List(<<Num(1)>>), List(<<Num(1), Null>>), Dict(<<>>),
              Dict([a |-> Num(1)]), Dict([a |-> List(<<Num(1)>>)]), Dict([a |-> Num(1), b |-> Null]), List(<<Dict([a |-> Null])>>)}
SchemaInputs == {[v |-> v, one |-> s, other |-> t] : v \in Instances, s \in SchemaSet, t \in Simple}

(* Libraries: three files with a public function that reads a private      *)
(* value, the value calling the function of the first import; c may export *)
(* the name of a.  References are written with steps that lead nowhere.    *)
Local(name) == [parts |-> <<"", "lib", "..", ".", name>>]
Outside == [provider |-> "github"]
Public(name) == CASE name = "a" -> "pa" [] name = "b" -> "pb" [] OTHER -> "pc"
Private(name) == CASE name = "a" -> "qa" [] name = "b" -> "qb" [] OTHER -> "qc"
Library(name, imports, public) ==
    [imports |-> [i \in 1 .. Len(imports) |-> Local(imports[i])],
     cases |-> <<[public |-> <<[name |-> public, expr |-> Fn(<<"x">>, E("add", <<Var("x"), Var(Private(name))>>))]>>,
                  private |-> <<[name |-> Private(name),
                                 expr |-> IF imports = <<>> THEN Lit(Num(2))
                                          ELSE Call(Var(Public(Head(imports))), <<Lit(Num(1))>>)]>>]>>]
Imported == {<<>>, <<"a">>, <<"b">>, <<"c">>, <<"a", "b">>, <<"c", "b">>, <<"b", "c", "a">>}
Tree(a, b, c, clash) ==
    (<<"a">> :> Library("a", a, "pa")) @@ (<<"b">> :> Library("b", b, "pb"))
    @@ (<<"c">> :> Library("c", c, IF clash THEN "pa" ELSE "pc"))
Includes == {<<"a">>, <<"b", "a">>, <<"a", "c">>, <<"c", "b", "c">>}
Loads == {[tree |-> Tree(a, b, c, clash), includes |-> [i \in 1 .. Len(f) |-> Local(f[i])]] :
             a \in Imported, b \in Imported, c \in Imported, clash \in BOOLEAN, f \in Includes}
References == {[parts |-> p] : p \in Seqs({"", ".", "..", "a", "b"}, 5)}
Policies == {[mode |-> m, caps |-> c, providers |-> p] :
                m \in {"deny", "allow"}, c \in SUBSET {"external.ref.v1"}, p \in SUBSET {"github"}}

-----------------------------------------------------------------------------
Ask(kind, inputs) == part = kind /\ input \in inputs
Init ==
    /\ output = <<>>
    /\ \/ Ask("program", ProgramSet)
       \/ Ask("call", EagerCalls)
       \/ Ask("scope", Scopes)
       \/ Ask("lists", ListPairs)
       \/ Ask("dicts", DictPairs)
       \/ Ask("paths", PathPairs)
       \/ Ask("schema", SchemaInputs)
       \/ Ask("library", Loads)
       \/ Ask("reference", References)
       \/ Ask("tree", C!Trees)
       \/ Ask("circle", C!Circles)
       \/ Ask("graph", C!GraphSet)
       \/ Ask("report", Q!Adoption) \/ Ask("report", Q!Portable) \/ Ask("report", Q!Independence)
       \/ Ask("report", Q!Python) \/ Ask("report", Q!Operability) \/ Ask("report", Q!Assertions)
       \/ Ask("report", Q!Cards) \/ Ask("report", Q!Notes)
       \/ Ask("tools", T!CasesFor("expr", T!ExprSet)) \/ Ask("tools", T!CasesFor("imports", T!RawImports))
       \/ Ask("tools", T!CasesFor("clauses", T!Formattable)) \/ Ask("tools", T!CasesFor("compiled", T!Compilable))
       \/ Ask("tools", T!CasesFor("shape", T!ShapedCases)) \/ Ask("tools", T!CasesFor("exports", T!ExportCases))
       \/ Ask("tools", T!CasesFor("split", T!LibrarySet)) \/ Ask("tools", T!CasesFor("repo", T!Repositories))
       \/ Ask("tools", T!CasesFor("clausesOf", T!GovernedClauses)) \/ Ask("tools", T!CasesFor("jobs", T!JobCases))
       \/ Ask("tools", T!CasesFor("shelf", T!Shelves)) \/ Ask("tools", T!CasesFor("http", T!PlainHttp \cup T!WrappedHttp))

Answered(kind) == part = kind /\ output # <<>>
Answering(kind) == part = kind /\ output' # output
Answer == output = <<>> /\ output' = <<"answered">> /\ UNCHANGED <<part, input>>
Next == Answer
Spec == Init /\ [][Next]_vars

-----------------------------------------------------------------------------
(* Programs run within their budget and their capabilities, builtins mean  *)
(* the same however they are called, names are those of the text (eval_expr*)
(* and what it calls).                                                     *)
Evaluator ==
    /\ Answering("program") => BudgetOnlyStops(input) /\ NothingWithoutCapability(input)
                               /\ ImportsOnlyShorten(input.expr, [exec |-> "not", add |-> "sub", var |-> "lit"])
    /\ Answering("call") => /\ CallsAgree(input.op, input.es)
                            /\ \A more \in Arguments : OverApplies(input.op, input.es, <<more>>)
    /\ Answering("scope") => /\ ScopeIsLexical(input.body, input.outer, input.inner, Num(3))
                             /\ FunctionsSeeEachOther(input.one, input.other, Call(Var("f"), <<input.outer>>))

(* The builtins on lists, dicts, paths and schemas keep the laws of sets,  *)
(* trees, normal forms and conditions (_eval_builtin_eager, _fs_* and      *)
(* _schema_validate).                                                      *)
Values ==
    /\ Answering("lists") => D!SetAlgebra(input.left, input.right) /\ \A n \in -4 .. 4 : D!CutsInTwo(input.left, n)
    /\ Answering("dicts") => /\ D!DeepMergeByPath(input.left, input.right)
                             /\ \A path \in Seqs(Segments, 3) : D!LookupsAgree(Dict(input.left), path, Str("d"))
Paths ==
    Answering("paths") => /\ D!NormalForm(input.one) /\ D!TakesApart(input.one)
                          /\ D!ChangesExtension(input.one, ".y") /\ D!LeadsBack(input.one, input.other)
                          /\ D!CommonAndNearest(input.one, input.other)
Schemas ==
    Answering("schema") => /\ D!KeywordsAreConditions(input.v, input.one, input.other)
                           /\ Is("list", input.v) => D!ItemsFitEach(input.v.list, input.one)

(* The expression language: its evaluator and its data (spec_lang.py). *)
ExpressionLanguage == [][Evaluator /\ Values /\ Paths /\ Schemas]_vars

(* A case gets the public symbols of the files it needs, each compiled     *)
(* after its imports, and no file outside the root or the network          *)
(* (load_spec_lang_symbols_for_case, normalize_contract_path).             *)
LibrariesLoad(tree, includes) ==
    LET policy == [mode |-> "deny", caps |-> {}, providers |-> {}]
    IN  /\ LoadedOnceAfterImports(tree, policy, includes)
        /\ OrderOfIncludesIrrelevant(tree, policy, includes)
        /\ \A exports \in {{"pa"}, {"qa", "pb"}, {"nobody"}} : PrivateOnlyOnRequest(tree, policy, includes, exports)
        /\ \A p \in Policies : ExternalNeverLoads(tree, p, Outside, includes)
Libraries ==
    [][/\ Answering("library") => LibrariesLoad(input.tree, input.includes)
       /\ Answering("reference") => ContractPathStaysInside(input.parts)]_vars

(* Chains that the chain checks pass compile and find their cases, what    *)
(* they refuse does not run, and they find every cycle; of imports a clean *)
(* report promises nothing (_scan_chain_*, against the chain engine).      *)
GovernanceChecks ==
    [][/\ Answering("tree") => C!PassedChainsAreSound(input) /\ C!ComplaintsAreJustified(input)
                             /\ C!ImportsNeverArrive(input)
       /\ Answering("circle") => C!NoCycleNoReentry(input)
       /\ Answering("graph") => C!CyclesAreFound(input)]_vars

(* A report adds up and cannot be improved by making the tree worse, and a *)
(* metric check that passes means that what it watches did not get worse   *)
(* (quality_metrics.py, spec_portability.py, _scan_*_non_regression).      *)
QualityReports == [][Answering("report") => Q!ReportsHold(input)]_vars

(* The tools that rewrite, lint, compile and normalise cases read them     *)
(* alike, and a rewrite keeps what the case says (spec_lang_hygiene.py,    *)
(* compiler.py, normalize_repo_runtime.py).                                *)
CaseTools == [][Answering("tools") => T!ToolsHold(input.kind, input.of)]_vars

(* What the policy asks: that no governance case loses its symbols         *)
(* (policy_v1.yaml:671, spec_lang_adoption_report_jsonable).               *)
SymbolsStayResolved ==
    Answered("report") /\ input.kind = "adoption" => Q!ResolutionRatchets(input.new, input.old)
=============================================================================
