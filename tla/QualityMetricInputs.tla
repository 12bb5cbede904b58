-------------------------- MODULE QualityMetricInputs --------------------------
(* Small trees for the quality reports. *)
EXTENDS QualityMetrics

SeqsUpTo(S, n) == UNION {[1 .. k -> S] : k \in 0 .. n}

AdoptionCases ==
    {[segment |-> s, type |-> "contract.check", harness |-> h, backed |-> b, symbols |-> y] :
        s \in {"governance", "impl"}, h \in {"governance.scan", "none"}, b \in BOOLEAN, y \in {"some", "none"}}
    \cup {[segment |-> "governance", type |-> "contract.check", harness |-> "governance.scan", backed |-> FALSE, symbols |-> "error"]}
AdoptionTree(cases) == [cases |-> cases, missing_roots |-> FALSE, public |-> 1, symbols |-> 2, opt_outs |-> 0]
AdoptionTrees == {AdoptionTree(c) : c \in SeqsUpTo(AdoptionCases, 2)}
Adoption == [kind : {"adoption"}, new : AdoptionTrees, old : {AdoptionTree(c) : c \in SeqsUpTo(AdoptionCases, 1)}]

PortableCases == [segment : {"impl", "more"}, overlay : BOOLEAN, runtime : BOOLEAN, core : BOOLEAN]
WeightSets == {<<>>, [overlay |-> Num(Unit \div 2), runtime |-> Num(Unit), type |-> Num(Unit \div 4)],
               [overlay |-> Num(Unit \div 4), type |-> Bad], [runtime |-> Num(2 * Unit), overlay |-> Num(-1)]}
Portable == {[kind |-> "portability", tree |-> [cases |-> c, missing_roots |-> m],
              cfg |-> [weights |-> w, empty_lists |-> FALSE, top_n |-> 1]] :
                c \in SeqsUpTo(PortableCases, 2) \ {<<>>}, m \in BOOLEAN, w \in WeightSets}

GateFiles == {[segment |-> "gate_scripts", direct |-> d, gate |-> g, rust |-> 0] : d \in 0 .. 1, g \in 0 .. 2}
RustFiles == {[segment |-> "ci_workflows", direct |-> d, gate |-> g, rust |-> r] : d \in {0, 2}, g \in {0, 2}, r \in {0, 3, 4}}
OtherFiles == {[segment |-> "adapter_interfaces", direct |-> 1, gate |-> 0, rust |-> 0]}
FileTrees(n) == {[files |-> f, bad_segments |-> FALSE] : f \in SeqsUpTo(GateFiles \cup RustFiles \cup OtherFiles, n)}
Independence == [kind : {"independence"}, new : FileTrees(2), old : FileTrees(1)]

PythonFiles == {f \in [segment : {"default_gate", "rust_adapter", "python_surfaces"}, python : 0 .. 1, transitive : 0 .. 1,
                       default_gate : BOOLEAN, required : BOOLEAN, allowed : BOOLEAN] :
                    /\ f.default_gate = (f.segment = "default_gate") /\ f.allowed = (f.segment = "python_surfaces")
                    /\ f.required => f.default_gate}
Traces == [valid : {TRUE}, impl : {"rust", "python", "none"}, steps : SeqsUpTo({0, 1}, 2)]
          \cup {[valid |-> FALSE, impl |-> "rust", steps |-> <<>>]}
NoTrace == [valid |-> TRUE, impl |-> "none", steps |-> <<>>]
PythonTrees == {[files |-> f, trace |-> t, bad_segments |-> FALSE] : f \in SeqsUpTo(PythonFiles, 2), t \in Traces}
Python == [kind : {"python"}, new : PythonTrees,
           old : {[files |-> <<f>>, trace |-> NoTrace, bad_segments |-> FALSE] :
                     f \in {g \in PythonFiles : g.default_gate /\ g.required /\ g.python = 0}}]

Pages == {p \in [segment : {"book", "contract"}, examples : 0 .. 2, runnable : 0 .. 2, opted_out : 0 .. 1,
                 issues : {{}, {"examples"}, {"sections", "token"}}] : p.runnable + p.opted_out <= p.examples /\ (p.segment = "contract" => p.examples = 1)}
PageTrees(n) == {[pages |-> p, bad_manifest |-> FALSE] : p \in SeqsUpTo(Pages, n)}
Operability == [kind : {"operability"}, new : PageTrees(2), old : PageTrees(1)]

WordSets == {{}, {"must"}, {"must", "can"}, {"evaluate"}, Words}
Docs == [segment : {"book", "contract"}, words : WordSets, there : BOOLEAN]
Assertions == {[kind |-> "assertions", tree |-> [docs |-> d, covered |-> c, must |-> m]] :
                  d \in SeqsUpTo(Docs, 3), c \in {0, 1}, m \in {0, 2}}

Sources == [adoption |-> [logic |-> Unit, resolution |-> Unit \div 2], counts |-> [direct |-> 3 * Unit]]
At(source, field, mode, scale) == [source |-> source, field |-> field, mode |-> mode, scale |-> scale]
Ats == {At("adoption", "logic", "direct", Num(1)), At("adoption", "resolution", "direct", Bad), At("adoption", "logic", "one_minus", Num(1)),
        At("counts", "direct", "one_minus", Num(4)), At("counts", "direct", "direct", Num(0)), At("lost", "logic", "direct", Num(1)),
        At("adoption", "lost", "one_minus", Num(1))}
Objectives == {[primary |-> p, counters |-> c, tripwires |-> t, weight |-> w[1], counter_weight |-> w[2]] :
                  p \in Ats, c \in SeqsUpTo(Ats, 1), t \in {{}, {"a"}, {"a", "b"}}, w \in {<<6, 4>>, <<0, 0>>, <<1, -3>>}}
Plain == {o \in Objectives : o.weight = 6 /\ o.tripwires = {} /\ o.counters = <<>>}
Cards == {[kind |-> "card", objectives |-> o, status |-> s] :
             o \in {<<x>> : x \in Objectives} \cup {<<x, y>> : x \in Objectives, y \in Plain} \cup {<<>>},
             s \in {<<>>, [a |-> "fail"], [a |-> "pass", b |-> "error"]}}
CardConfig == [green |-> (3 * Unit) \div 4, yellow |-> Unit \div 2]

Entries == [baseline : {"p", "q"}, sha256 : {"one", "two", "no hash"}, rationale : BOOLEAN, change : {"yes"}] \cup
           [baseline : {"p"}, sha256 : {"one"}, rationale : {TRUE}, change : {"maybe"}]
Files == {[q |-> "one"]} \cup {[p |-> a, q |-> b] : a \in {"one", "two"}, b \in {"one", "two"}}
Notes == [kind : {"notes"}, entries : SeqsUpTo(Entries, 2) \ {<<e, e>> : e \in Entries}, paths : {{"p"}, {"p", "q"}}, one : Files, other : Files]

-----------------------------------------------------------------------------
(* What is said of each kind of input. *)
ReportsHold(i) ==
    CASE i.kind = "adoption" ->
            LET report == AdoptionReport(i.new)
            IN  /\ AdoptionRatchets(i.new, i.old)
                /\ UnchangedPasses(report, {"logic", "backed_policy", "resolution"},
                                   LAMBDA cfg, baseline : AdoptionNonRegression(cfg, i.new, baseline))
                /\ \A old \in {report, AdoptionReport(i.old)} :
                       EvaluateFirstNonRegression(Exactly, i.new, AsBaseline(old)) = {} =>
                           ImplEvaluateRatio(Exactly, i.new, AsBaseline(report)) = {}
                /\ PartsMakeTheWhole(report, "logic", "logic")
      [] i.kind = "portability" ->
            LET report == PortabilityReport(i.tree, i.cfg)
            IN  /\ report.errors \/ PortabilityIsARatio(report)
                /\ \A f \in PortabilityFields : PartsMakeTheWhole(report, f, f)
                /\ \A k \in 1 .. Len(i.tree.cases) : PortabilityErrors(i.cfg) \/ WorseIsNotBetter(i.tree, k, i.cfg)
      [] i.kind = "independence" ->
            /\ IndependenceRatchets(i.new, i.old)
            /\ PartsMakeTheWhole(IndependenceReport(i.new), "independence", "independence")
            /\ \A k \in 1 .. Len(i.new.files) : WorseFileIsNotBetter(i.new, k)
      [] i.kind = "python" -> PythonRatchets(i.new, i.old)
      [] i.kind = "operability" ->
            /\ OperabilityRatchets(i.new, i.old)
            /\ PartsMakeTheWhole(OperabilityReport(i.new), "operability", "operability")
      [] i.kind = "assertions" ->
            /\ PartsMakeTheWhole(AssertionsReport(i.tree), "words", "words") /\ SyncMeansAlike(ToSet(i.tree.docs))
            /\ AssertionsRatchets(i.tree, Words)
            /\ \A k \in 1 .. Len(i.tree.docs) : LostWordIsNotBetter(i.tree, k)
      [] i.kind = "card" -> GreenIsEarned(i.objectives, Sources, i.status, CardConfig)
      [] i.kind = "notes" -> NoSilentBaseline(i.entries, i.paths, i.one, i.other)
=============================================================================
