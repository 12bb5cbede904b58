---------------------------- MODULE QualityMetrics ----------------------------
(***************************************************************************)
(* The quality reports of a tree, the comparison of a report with a        *)
(* baseline, and the scorecard (quality_metrics.py, spec_portability.py,   *)
(* the metric checks of governance_runtime.py).  A ratio is a whole number *)
(* of 1/Unit; texts are the sets or numbers of tokens found in them.       *)
(***************************************************************************)
EXTENDS Integers, Sequences, SequencesExt, FiniteSets, TLC

Unit == 5040
Nan == [nan |-> TRUE]
Infinite == [infinite |-> TRUE]
Bad == [bad |-> TRUE]
Num(n) == [num |-> n]
IsNumber(v) == "num" \in DOMAIN v \/ v = Nan
Flag(b) == IF b THEN Unit ELSE 0
Clamp(n) == IF n < 0 THEN 0 ELSE IF n > Unit THEN Unit ELSE n

Total(numbers) == FoldLeft(LAMBDA sum, n : sum + n, 0, numbers)
SafeRatio(num, den, default) == IF den <= 0 THEN default ELSE num \div den
Column(rows, field) == [i \in 1 .. Len(rows) |-> rows[i][field]]
Mean(rows, field, default) == SafeRatio(Total(Column(rows, field)), Len(rows), default)

(* The rows of each segment; every rule has one, and every row. *)
InSegment(rows, segment) == SelectSeq(rows, LAMBDA r : r.segment = segment)
Summaries(rows, rules, Summary(_)) ==
    [s \in rules \cup {"other"} \cup {rows[i].segment : i \in 1 .. Len(rows)} |-> Summary(InSegment(rows, s))]
SummarizeSegment(rows, fields) == [f \in fields |-> Mean(rows, f, 0)] @@ [case_count |-> Len(rows)]

-----------------------------------------------------------------------------
(* spec-lang adoption.  A case is [segment, type, harness, backed, symbols];*)
(* a row has no harness, so no row is taken for a governance case.  Every  *)
(* leaf of an assertion counts as an expression.                           *)
SpecSegments == {"conformance", "governance", "impl"}
IsGovernanceCase(x) == "harness" \in DOMAIN x /\ x.type = "contract.check" /\ x.harness = "governance.scan"
AdoptionRow(case) ==
    [segment |-> case.segment, type |-> case.type, logic |-> Unit, native_escape |-> 0,
     backed_policy |-> Flag(IsGovernanceCase(case) /\ case.backed), backed_case |-> Flag(case.backed),
     resolution |-> Flag(IsGovernanceCase(case) => case.symbols = "some")]
(* What it is for: the governance cases among the rows. *)
GovernanceRows(rows) == SelectSeq(rows, LAMBDA r : IsGovernanceCase(r))
AdoptionSegment(rows) ==
    SummarizeSegment(rows, {"logic", "native_escape", "backed_policy", "backed_case"})
    @@ [resolution |-> Mean(GovernanceRows(rows), "resolution", Unit)]
PublicSurface(tree) == IF tree.symbols = 0 THEN Unit ELSE (tree.public * Unit) \div tree.symbols
AdoptionReport(tree) ==
    LET rows == [i \in 1 .. Len(tree.cases) |-> AdoptionRow(tree.cases[i])]
    IN  [errors |-> tree.missing_roots \/ \E c \in ToSet(tree.cases) : IsGovernanceCase(c) /\ c.symbols = "error",
         rows |-> rows,
         summary |-> [logic |-> Mean(rows, "logic", 0), native_escape |-> Mean(rows, "native_escape", 0),
                      backed_policy |-> Mean(GovernanceRows(rows), "backed_policy", 0),
                      impl_backed_case |-> Mean(InSegment(rows, "impl"), "backed_case", 0),
                      resolution |-> Mean(GovernanceRows(rows), "resolution", Unit),
                      public_surface |-> PublicSurface(tree), opt_outs |-> tree.opt_outs],
         segments |-> Summaries(rows, SpecSegments, AdoptionSegment)]

-----------------------------------------------------------------------------
(* Portability.  A case is [segment, overlay, runtime, core]; a config has *)
(* weights, some of which may be no numbers, and lists that may be empty.  *)
PortabilityErrors(cfg) ==
    \/ cfg.empty_lists \/ cfg.top_n < 1
    \/ \E w \in DOMAIN cfg.weights : cfg.weights[w] = Bad \/ cfg.weights[w].num < 0
Weight(cfg, w) == IF w \in DOMAIN cfg.weights /\ cfg.weights[w] # Bad THEN cfg.weights[w].num ELSE 0
(* Slip: the penalties of a case are taken from 1 without a floor. *)
NoFloor(cfg, case) ==
    LET execution == Total(<<IF case.overlay THEN Weight(cfg, "overlay") ELSE 0,
                             IF case.runtime THEN Weight(cfg, "runtime") ELSE 0,
                             IF ~case.core THEN Weight(cfg, "type") ELSE 0>>)
    IN  [segment |-> case.segment, self_contained |-> Unit - execution, reliance |-> execution,
         logic |-> Unit, portability |-> Unit - execution, coupling |-> execution,
         overlay |-> case.overlay, runtime |-> case.runtime]
PortabilityRow(cfg, case) ==
    LET execution == Total(<<IF case.overlay THEN Weight(cfg, "overlay") ELSE 0,
                             IF case.runtime THEN Weight(cfg, "runtime") ELSE 0,
                             IF ~case.core THEN Weight(cfg, "type") ELSE 0>>)
        self == Clamp(Unit - execution)
    IN  [segment |-> case.segment, self_contained |-> self, reliance |-> Unit - self,
         logic |-> Unit, portability |-> self, coupling |-> Unit - self,
         overlay |-> case.overlay /\ Weight(cfg, "overlay") > 0, runtime |-> case.runtime /\ Weight(cfg, "runtime") > 0]
PortabilityFields == {"self_contained", "reliance", "logic", "portability", "coupling"}
PortabilitySegment(rows) == SummarizeSegment(rows, PortabilityFields)
PortabilityReport(tree, cfg) ==
    LET rows == [i \in 1 .. Len(tree.cases) |-> PortabilityRow(cfg, tree.cases[i])]
    IN  [errors |-> PortabilityErrors(cfg) \/ tree.missing_roots, rows |-> rows,
         summary |-> [f \in PortabilityFields |-> Mean(rows, f, 0)],
         segments |-> Summaries(rows, SpecSegments, PortabilitySegment)]
Share(rows, field) == (Cardinality({i \in 1 .. Len(rows) : rows[i][field]}) * Unit) \div (IF rows = <<>> THEN 1 ELSE Len(rows))
CounterShares(report) == [runtime_share |-> Share(report.rows, "runtime"), overlay_share |-> Share(report.rows, "overlay")]

-----------------------------------------------------------------------------
(* Runner independence.  A file is [segment, direct, gate, rust]: how often*)
(* it calls a runtime directly, how many of the two tokens of a gate and   *)
(* of the four of the rust lane it has.                                    *)
IndependenceRow(file) ==
    LET direct == IF file.segment \in {"gate_scripts", "ci_workflows"} THEN file.direct ELSE 0
        interface == CASE file.segment = "gate_scripts" -> (file.gate * Unit) \div 2
                       [] file.segment = "ci_workflows" -> Flag(file.gate > 0)
                       [] OTHER -> Unit
        rust == IF file.segment = "ci_workflows" THEN (file.rust * Unit) \div 4 ELSE Unit
    IN  [segment |-> file.segment, direct |-> direct, interface |-> interface, rust |-> rust,
         independence |-> (Flag(direct = 0) + interface + rust) \div 3]
IndependenceSegment(rows) ==
    [SummarizeSegment(rows, {"independence", "interface", "rust", "direct"})
        EXCEPT !.direct = Total(Column(rows, "direct"))]
IndependenceReport(tree) ==
    LET rows == [i \in 1 .. Len(tree.files) |-> IndependenceRow(tree.files[i])]
    IN  [errors |-> tree.bad_segments, rows |-> rows,
         summary |-> [independence |-> Mean(rows, "independence", 0), rust |-> Mean(rows, "rust", 0),
                      direct |-> Total(Column(rows, "direct"))],
         segments |-> Summaries(rows, {"gate_scripts", "ci_workflows", "adapter_interfaces"}, IndependenceSegment)]

(* Python dependency.  A file also says how many python tokens and how many*)
(* transitive ones it has, whether it is one of the three gate scripts, has*)
(* their required token, and may use python; a step of the last gate run   *)
(* says how many python tokens its command had.                            *)
IsClean(file) == file.required /\ file.python = 0
PythonReport(tree) ==
    LET gates == SelectSeq(tree.files, LAMBDA f : f.default_gate)
        Sum(Test(_), field) == Total(Column(SelectSeq(tree.files, Test), field))
        traced == IF tree.trace.valid /\ tree.trace.impl # "python" THEN Total(tree.trace.steps) ELSE 0
    IN  [errors |-> tree.bad_segments \/ ~tree.trace.valid,
         summary |->
            [lane_exec |-> Sum(LAMBDA f : f.segment \in {"default_gate", "rust_adapter"}, "python") + traced,
             transitive |-> Sum(LAMBDA f : f.segment = "rust_adapter", "transitive"),
             python_free |-> (Len(SelectSeq(gates, IsClean)) * Unit) \div (IF gates = <<>> THEN 1 ELSE Len(gates)),
             scope |-> Sum(LAMBDA f : ~f.allowed, "python")],
         segments |-> <<>>]

-----------------------------------------------------------------------------
(* Documents.  A page is [segment, examples, runnable, opted_out, issues]. *)
OperabilityRow(page) ==
    LET runnable == SafeRatio(page.runnable * Unit, page.examples, Unit)
        Without(kind) == Flag(kind \notin page.issues)
    IN  [segment |-> page.segment, runnable |-> runnable, commands |-> Without("examples"),
         sections |-> Without("sections"), tokens |-> Without("token"),
         opt_out |-> SafeRatio(page.opted_out * Unit, page.examples, 0),
         operability |-> (runnable + Without("examples") + Without("sections") + Without("token")) \div 4]
OperabilitySegment(rows) ==
    SummarizeSegment(rows, {"operability", "runnable", "commands", "sections", "tokens", "opt_out"})
OperabilityReport(tree) ==
    LET rows == [i \in 1 .. Len(tree.pages) |-> OperabilityRow(tree.pages[i])]
    IN  [errors |-> tree.bad_manifest \/ \E p \in ToSet(tree.pages) : p.issues # {}, rows |-> rows,
         summary |-> [operability |-> Mean(rows, "operability", 0)],
         segments |-> Summaries(rows, {"book", "contract"}, OperabilitySegment)]

(* A document about assertions has some of the required words, or is not   *)
(* there; covered of the must rules have a case.                           *)
Words == {"must", "can", "cannot", "evaluate"}
WordRow(doc) ==
    [segment |-> doc.segment, words |-> (Cardinality(doc.words) * Unit) \div Cardinality(Words),
     missing |-> Cardinality(Words \ doc.words)]
(* Slip: the words all have, of the words there could be. *)
SyncOfAll(docs) == (Cardinality({w \in Words : \A d \in docs : w \in d.words}) * Unit) \div Cardinality(Words)
TokenSync(docs) ==
    LET some == UNION {d.words : d \in docs}
        all == {w \in some : \A d \in docs : w \in d.words}
    IN  (Cardinality(all) * Unit) \div (IF some = {} THEN 1 ELSE Cardinality(some))
WordSegment(rows) == SummarizeSegment(rows, {"words", "missing"})
AssertionsReport(tree) ==
    LET docs == SelectSeq(tree.docs, LAMBDA d : d.there)
        rows == [i \in 1 .. Len(docs) |-> WordRow(docs[i])]
        words == Mean(rows, "words", 0)
        must == (tree.covered * Unit) \div (IF tree.must < 1 THEN 1 ELSE tree.must)
    IN  [errors |-> Len(docs) < Len(tree.docs), rows |-> rows,
         summary |-> [assertions |-> (words + must + TokenSync(ToSet(docs))) \div 3, words |-> words,
                      must |-> must, sync |-> TokenSync(ToSet(docs))],
         segments |-> Summaries(rows, {"book", "contract"}, WordSegment)]

-----------------------------------------------------------------------------
(* The comparison.  Fields are [name -> direction]; a direction that is not*)
(* known counts as non_decrease.                                           *)
Directions == {"non_decrease", "non_increase"}
Direction(d) == IF d \in Directions THEN d ELSE "non_decrease"
(* Slip: counts are compared like ratios. *)
RegressedUpwards(direction, cur, base, epsilon) == cur + epsilon < base
Regressed(direction, cur, base, epsilon) ==
    \/ direction = "non_decrease" /\ cur + epsilon < base
    \/ direction = "non_increase" /\ cur - epsilon > base
FieldProblem(current, baseline, field, direction, epsilon) ==
    \/ field \notin DOMAIN current
    \/ field \notin DOMAIN baseline \/ ~IsNumber(baseline[field])
    \/ /\ baseline[field] # Nan /\ epsilon \notin {Nan, Infinite}
       /\ Regressed(direction, current[field], baseline[field].num, epsilon.num)
SegmentOf(report, segment) == IF segment \in DOMAIN report.segments THEN report.segments[segment] ELSE <<>>
(* What is wrong: the fields, each with its segment. *)
CompareNonRegression(current, baseline, summary, segments, epsilon) ==
    IF summary = <<>> THEN {<<"summary", "none">>}
    ELSE {<<"summary", f>> : f \in
            {g \in DOMAIN summary : FieldProblem(current.summary, baseline.summary, g, Direction(summary[g]), epsilon)}}
         \cup UNION {{<<s, f>> : f \in {g \in DOMAIN segments[s] :
                FieldProblem(SegmentOf(current, s), SegmentOf(baseline, s), g, Direction(segments[s][g]), epsilon)}} :
                    s \in DOMAIN segments}
         \cup {<<s, "none">> : s \in {t \in DOMAIN segments : segments[t] = <<>>}}

(* What the baseline file holds for a report. *)
AsBaseline(report) ==
    [summary |-> [f \in DOMAIN report.summary |-> Num(report.summary[f])],
     segments |-> [s \in DOMAIN report.segments |-> [f \in DOMAIN report.segments[s] |-> Num(report.segments[s][f])]]]

(* A check: its config, the report, the baseline file; the notes are asked *)
(* for by the scorecard's only.                                            *)
Problem(what) == {<<"check", what>>}
Missing == [missing |-> TRUE]
NonRegression(cfg, report, baseline, notes) ==
    CASE cfg.epsilon = Bad -> Problem("epsilon")
      [] "num" \in DOMAIN cfg.epsilon /\ cfg.epsilon.num < 0 -> Problem("epsilon")
      [] report.errors -> Problem("report")
      [] baseline \in {Missing, Bad} -> Problem("baseline")
      [] notes # {} -> notes
      [] OTHER -> CompareNonRegression(report, baseline, cfg.summary, cfg.segments, cfg.epsilon)
(* Each check with its report; four have fields of their own to watch.  *)
Watching(cfg, summary, segments) == cfg @@ [summary |-> summary, segments |-> segments]
AdoptionNonRegression(cfg, tree, baseline) == NonRegression(cfg, AdoptionReport(tree), baseline, {})
EvaluateFirstNonRegression(cfg, tree, baseline) ==
    AdoptionNonRegression(Watching(cfg, [logic |-> "non_decrease"], [conformance |-> [logic |-> "non_decrease"]]), tree, baseline)
PolicyLibraryUsage(cfg, tree, baseline) ==
    AdoptionNonRegression(Watching(cfg, [backed_policy |-> "non_decrease"], [governance |-> [backed_policy |-> "non_decrease"]]),
                          tree, baseline)
ImplEvaluateRatio(cfg, tree, baseline) ==
    AdoptionNonRegression(Watching(cfg, [logic |-> "non_decrease"], [impl |-> [logic |-> "non_decrease"]]), tree, baseline)
ImplLibraryUsage(cfg, tree, baseline) ==
    AdoptionNonRegression(Watching(cfg, [impl_backed_case |-> "non_decrease"], [impl |-> [backed_case |-> "non_decrease"]]),
                          tree, baseline)
IndependenceNonRegression(cfg, tree, baseline) == NonRegression(cfg, IndependenceReport(tree), baseline, {})
PythonNonRegression(cfg, tree, baseline) == NonRegression(cfg, PythonReport(tree), baseline, {})
OperabilityNonRegression(cfg, tree, baseline) == NonRegression(cfg, OperabilityReport(tree), baseline, {})
AssertionsNonRegression(cfg, tree, baseline) == NonRegression(cfg, AssertionsReport(tree), baseline, {})
(* The checks of portability take lists of fields, none of them empty. *)
PortabilityNonRegression(cfg, report, baseline) ==
    IF \/ cfg.summary = <<>> \/ \E s \in DOMAIN cfg.segments : cfg.segments[s] = <<>>
       \/ \E f \in DOMAIN cfg.summary : cfg.summary[f] # "non_decrease"
       \/ \E s \in DOMAIN cfg.segments : \E f \in DOMAIN cfg.segments[s] : cfg.segments[s][f] # "non_decrease"
    THEN Problem("fields") ELSE NonRegression(cfg, report, baseline, {})

(* The baselines a note vouches for, by path: the last entry counts. *)
NotesProblems(entries, paths, files) ==
    LET last(p) == SelectLastInSeq(entries, LAMBDA e : e.baseline = p)
    IN  {<<"notes", p>> : p \in {q \in paths :
            \/ q \notin DOMAIN files \/ last(q) = 0
            \/ ~(/\ entries[last(q)].sha256 = files[q] /\ entries[last(q)].rationale
                 /\ entries[last(q)].change \in {"yes", "no"})}}
        \cup (IF entries = <<>> THEN {<<"notes", "none">>} ELSE {})

-----------------------------------------------------------------------------
(* The scorecard.  sources: name -> [field -> value]; a tripwire fails when*)
(* its check is known to fail.                                             *)
LookedUp(sources, at) ==
    IF at.source \in DOMAIN sources /\ at.field \in DOMAIN sources[at.source]
    THEN Num(sources[at.source][at.field]) ELSE Missing
MetricScore(value, at) ==
    LET scale == IF at.scale = Bad \/ at.scale.num <= 0 THEN 1 ELSE at.scale.num
    IN  CASE value = Missing -> 0
          [] at.mode = "one_minus" -> Clamp(Unit - value.num \div scale)
          [] OTHER -> Clamp(value.num \div scale)
Failing == {"fail", "failing", "error", "false", "0"}
TripwireHits(objective, status) ==
    {t \in objective.tripwires : (IF t \in DOMAIN status THEN status[t] ELSE "unknown") \in Failing}
ObjectiveScore(objective, sources) ==
    LET primary == MetricScore(LookedUp(sources, objective.primary), objective.primary)
        scores == [i \in 1 .. Len(objective.counters) |->
                      MetricScore(LookedUp(sources, objective.counters[i]), objective.counters[i])]
        average == SafeRatio(Total(scores), Len(scores), primary)
        weights == objective.weight + objective.counter_weight
    IN  IF weights <= 0 THEN primary
        ELSE Clamp((objective.weight * primary + objective.counter_weight * average) \div weights)
(* Slip: a tripwire only matters to an objective that would be green. *)
TripwireLast(objective, sources, status, cfg) ==
    LET score == ObjectiveScore(objective, sources)
    IN  CASE score < cfg.yellow -> "red"
          [] score < cfg.green -> "yellow"
          [] TripwireHits(objective, status) # {} -> "red"
          [] OTHER -> "green"
ObjectiveStatus(objective, sources, status, cfg) ==
    LET score == ObjectiveScore(objective, sources)
    IN  CASE TripwireHits(objective, status) # {} \/ score < cfg.yellow -> "red"
          [] score < cfg.green -> "yellow"
          [] OTHER -> "green"
Scorecard(objectives, sources, status, cfg) ==
    LET rows == [i \in 1 .. Len(objectives) |->
                    [score |-> ObjectiveScore(objectives[i], sources),
                     status |-> ObjectiveStatus(objectives[i], sources, status, cfg)]]
        Some(colour) == \E i \in 1 .. Len(rows) : rows[i].status = colour
    IN  [rows |-> rows, mean |-> Mean(rows, "score", 0),
         min |-> FoldLeft(LAMBDA m, r : IF r.score < m THEN r.score ELSE m, IF rows = <<>> THEN 0 ELSE Unit, rows),
         status |-> IF Some("red") THEN "red" ELSE IF Some("yellow") THEN "yellow" ELSE "green"]

-----------------------------------------------------------------------------
(* What a report says of the tree, and what a check that passes is worth. *)

RECURSIVE AllOf(_, _)
AllOf(numbers, n) == IF n = 0 THEN 0 ELSE numbers[n] + AllOf(numbers, n - 1)

(* The summary is the mean of the segments, each by its number of rows: no *)
(* row is lost between them or counted twice (_summarize_segment).         *)
PartsMakeTheWhole(report, field, whole) ==
    LET segments == SetToSeq(DOMAIN report.segments)
        parts == [i \in 1 .. Len(segments) |->
                     report.segments[segments[i]].case_count * report.segments[segments[i]][field]]
    IN  AllOf(parts, Len(parts)) = Len(report.rows) * report.summary[whole]

(* Ratios stay between 0 and 1, and what a case lacks of 1 is its reliance *)
(* on an implementation, whatever the weights are.                         *)
PortabilityIsARatio(report) ==
    /\ \A i \in 1 .. Len(report.rows) :
           report.rows[i].self_contained \in 0 .. Unit /\ report.rows[i].portability >= report.rows[i].self_contained
    /\ report.rows # <<>> => report.summary.self_contained + report.summary.reliance = Unit

(* A check that passes against the report of an earlier tree: nothing it   *)
(* was told to watch got worse, as counted in the trees themselves.        *)
NotLess(new, old) == new.of # 0 /\ old.of # 0 => new.n * old.of >= old.n * new.of
Exactly == [epsilon |-> Num(0)]
Watch(summary, segments) == [epsilon |-> Num(0), summary |-> summary, segments |-> segments]
CasesWith(tree, segment, Test(_)) ==
    LET cases == SelectSeq(tree.cases, LAMBDA c : c.segment = segment)
    IN  [n |-> Len(SelectSeq(cases, Test)), of |-> Len(cases)]
AdoptionRatchets(new, old) ==
    /\ PolicyLibraryUsage(Exactly, new, AsBaseline(AdoptionReport(old))) = {} =>
           LET Backed(c) == IsGovernanceCase(c) /\ c.backed
           IN  NotLess(CasesWith(new, "governance", Backed), CasesWith(old, "governance", Backed))
    /\ ImplLibraryUsage(Exactly, new, AsBaseline(AdoptionReport(old))) = {} =>
           LET Backed(c) == c.backed
           IN  NotLess(CasesWith(new, "impl", Backed), CasesWith(old, "impl", Backed))
DirectCalls(tree) == [i \in 1 .. Len(tree.files) |->
    IF tree.files[i].segment \in {"gate_scripts", "ci_workflows"} THEN tree.files[i].direct ELSE 0]
IndependenceRatchets(new, old) ==
    IndependenceNonRegression(Watch([direct |-> "non_increase"], [gate_scripts |-> [interface |-> "non_decrease"]]),
                              new, AsBaseline(IndependenceReport(old))) = {} =>
        /\ AllOf(DirectCalls(new), Len(new.files)) <= AllOf(DirectCalls(old), Len(old.files))
        /\ (\A f \in ToSet(new.files) : f.segment = "gate_scripts" => f.gate = 0)
           => (\A f \in ToSet(old.files) : f.segment = "gate_scripts" => f.gate = 0)
(* Python in a lane that must not have it is counted wherever it is: in    *)
(* the text of its files or in the commands of the last run.               *)
PythonRatchets(new, old) ==
    LET Watched == [lane_exec |-> "non_increase", python_free |-> "non_decrease", scope |-> "non_increase"]
        Clean(tree) == \A f \in ToSet(tree.files) : f.python = 0 /\ (f.default_gate => f.required)
        gates == \E f \in ToSet(new.files) : f.default_gate
    IN  PythonNonRegression(Watch(Watched, <<>>), new, AsBaseline(PythonReport(old))) = {} /\ Clean(old) /\ (\E f \in ToSet(old.files) : f.default_gate)
        /\ old.trace.steps = <<>> =>
            /\ gates /\ \A f \in ToSet(new.files) : f.default_gate => f.required /\ f.python = 0
            /\ \A f \in ToSet(new.files) : f.segment \in {"default_gate", "rust_adapter"} \/ ~f.allowed => f.python = 0
            /\ new.trace.impl # "python" => \A i \in 1 .. Len(new.trace.steps) : new.trace.steps[i] = 0
OperabilityRatchets(new, old) ==
    OperabilityNonRegression(Watch([operability |-> "non_decrease"], <<>>), new, AsBaseline(OperabilityReport(old))) = {}
    /\ (\A p \in ToSet(old.pages) : p.runnable = p.examples /\ p.issues = {}) /\ old.pages # <<>>
        => new.pages # <<>> /\ \A p \in ToSet(new.pages) : p.runnable = p.examples /\ p.issues = {}
(* An unchanged tree passes, and only then does a check without a usable   *)
(* baseline, epsilon or report pass.                                       *)
UnchangedPasses(report, fields, Check(_, _)) ==
    /\ \A direction \in Directions :
           (Check(Watch([f \in fields |-> direction], <<>>), AsBaseline(report)) = {}) = ~report.errors
    /\ \A epsilon \in {Num(0), Num(-1), Bad, Nan, Infinite}, baseline \in {Missing, Bad} :
           Check([Watch([f \in fields |-> "non_decrease"], <<>>) EXCEPT !.epsilon = epsilon], baseline) # {}
(* A document that loses its last required words fails the check of words. *)
AssertionsRatchets(tree, words) ==
    LET report == AssertionsReport([tree EXCEPT !.docs = [i \in 1 .. Len(@) |-> [@[i] EXCEPT !.words = words]]])
        check == AssertionsNonRegression(Watch([words |-> "non_decrease"], <<>>), tree, AsBaseline(report))
    IN  check = {} => \A d \in ToSet(tree.docs) : d.there /\ (words = Words => d.words = Words)

(* What the policy asks of the checks of adoption: that no governance case *)
(* loses its symbols (SPEC_LANG_ADOPTION rules of policy_v1.yaml:671).     *)
ResolutionRatchets(new, old) ==
    AdoptionNonRegression(Watch([resolution |-> "non_decrease"], [governance |-> [resolution |-> "non_decrease"]]),
                          new, AsBaseline(AdoptionReport(old))) = {} =>
        LET Resolved(c) == IsGovernanceCase(c) /\ c.symbols = "some"
        IN  NotLess(CasesWith(new, "governance", Resolved), CasesWith(old, "governance", Resolved))

-----------------------------------------------------------------------------
(* Making one case, file or document worse never makes a report better:    *)
(* overlays and capabilities that are specific, calls, lost tokens.        *)
AtMost(new, old, fields) == \A f \in fields : new.summary[f] <= old.summary[f]
WorseIsNotBetter(tree, i, cfg) ==
    LET Case(field, v) == PortabilityReport([tree EXCEPT !.cases[i][field] = v], cfg)
    IN  \A field \in {"overlay", "runtime"} :
            AtMost(Case(field, TRUE), Case(field, FALSE), {"self_contained", "portability", "logic"})
WorseFileIsNotBetter(tree, i) ==
    LET File(field, v) == IndependenceReport([tree EXCEPT !.files[i][field] = v])
    IN  /\ AtMost(File("direct", 1), File("direct", 0), {"independence", "rust"})
        /\ \A n \in 0 .. 1 : AtMost(File("gate", n), File("gate", n + 1), {"independence", "rust"})
        /\ \A n \in 0 .. 3 : AtMost(File("rust", n), File("rust", n + 1), {"independence", "rust"})
LostWordIsNotBetter(tree, i) ==
    \A w \in Words : AtMost(AssertionsReport([tree EXCEPT !.docs[i].words = @ \ {w}]), AssertionsReport(tree), {"words", "must"})
(* All the words or none: documents that say the same are in sync.         *)
SyncMeansAlike(docs) == TokenSync(docs) = Unit <=> \E set \in SUBSET Words \ {{}} : docs # {} /\ \A d \in docs : d.words = set

(* A green scorecard has no objective under its mark, the lowest score     *)
(* included, one failing tripwire of any objective makes it red, and a     *)
(* metric that is not there scores 0 (objective_scorecard_report_jsonable). *)
GreenIsEarned(objectives, sources, status, cfg) ==
    LET card == Scorecard(objectives, sources, status, cfg)
    IN  /\ card.status = "green" =>
               \A i \in 1 .. Len(objectives) :
                   card.rows[i].score >= cfg.green /\ card.min <= card.rows[i].score /\ card.min <= card.mean
        /\ (\E i \in 1 .. Len(objectives) : \E t \in objectives[i].tripwires \cap DOMAIN status : status[t] \in Failing)
               => card.status = "red"
        /\ \A i \in 1 .. Len(objectives) :
               objectives[i].counters = <<>> /\ objectives[i].primary.source \notin DOMAIN sources => card.rows[i].score = 0

(* One set of notes never vouches for two contents of a baseline.          *)
NoSilentBaseline(entries, paths, one, other) ==
    NotesProblems(entries, paths, one) = {} /\ NotesProblems(entries, paths, other) = {} =>
        \A p \in paths : one[p] = other[p]
=============================================================================
