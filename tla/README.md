# Verification of dc-runner-python

TLA+ models of `spec_runner`: of the parts whose correctness depends on order (nested
case runs, hooks and failures, thread pools and their watchdog, subprocesses, caches,
commands that leave files behind) and of the parts that several pieces of code must do
alike (the expression language, libraries, and the tools and checks that read the same
cases each with code of their own). TLC checks them on small instances; TLAPS proves
every safety property of those of the first kind for every value of the constants.

## Inventory

Paths are under `src/spec_runner/` unless they start with another directory.

| Component | State it keeps | Operations | Interacts with | What is hard, and what correct means | Module |
|---|---|---|---|---|---|
| Dispatcher and chain engine (`dispatcher.py`, `components/chain_engine.py`) | `SpecRunContext`: active cases, chain state and trace, payloads and imports per case, profile rows | `run_case`, `execute_chain_plan`, import resolution | call each other recursively; one context shared by all nested runs; the harness at the leaf | Reference loops, failures swallowed by MAY and MUST_NOT steps, aborts, state of an inner chain seen by an outer one. A case is never open twice, the guard is exact, no harness before its chain held | ChainExecution, CaseNesting |
| Assertion engine and hooks (`assertions.py`, `components/assertion_engine.py`, `components/hook_engine.py`) | totals, position in the clause tree, first failure | evaluate clauses, fire the four hooks | called by every harness | One failing inside the handler of another. A pass means that all required clauses held; totals and exception tell the truth | AssertionRun |
| Governance pool and watchdog (`governance_runtime.py` 11440-11891) | futures, active cases and progress stamp under a lock, results, report, trace | submit, wait, heartbeat, give up, cancel, join, report | pool threads run the checks; profiler; the report is read by CI | Threads between any two steps of the loop, stale stamps, hangs. Every case reported once, slow is not hung, a hang is noticed | GovernancePool |
| Subprocess watchdog (`components/liveness.py`) | pipes, clocks, event window, TERM and KILL | select, read, poll, terminate | the child's process group | Exit before the end of output, silent children that hold the pipe, ignored SIGTERM. Output whole, given up for a cause, everything ends | LivenessWatchdog |
| Profiler (`components/profiler.py`) | spans, events, progress stamp, heartbeat thread, closed flag | span, event, subprocess_run, close | every thread | Heartbeat and workers against close; a stall flag that is never reset. One closed trace that matches the run | Profiler |
| api.http scenarios (`harnesses/api_http.py`) | server, step results, teardown flag | setup, probe, requests, teardown, stop | subprocess, HTTP, assertion engine | Failure at any stage; swallowing; a teardown in `finally` that raises itself | ApiHttpScenario |
| OAuth token cache (`harnesses/api_http.py` 252-297) | tokens of the process by key | look up, fetch, store | cases on any thread | A token that expires between look and use, or is another case's | TokenCache |
| Chain caches (`components/chain_engine.py` 393-459, 558-615) | compiled documents of the process; a cache of exports that never gets one | stat, look up, load, store | all chains, on any thread | Stale keys, two threads that miss together, a document that goes between stat and load | ChainCaches |
| Scan caches (`governance_runtime.py` 378-439 and four more) | caches keyed by a token | reset, look up, store | checks on pool threads | The lock is released between miss and store | ScanCaches |
| Runtime context and cli.run (`runtime_context.py`, `harnesses/cli_run.py`) | undo stack, global patches, capture buffer | patch, undo, capture, run an entry point in process | every thread of the process | Process-wide patches, runs inside runs. Afterwards the process is as before | SideEffects |
| CI gate, smoke and freshness checks (`script_runtime_commands.py`) | rows, first failure, reports on disk | run steps, fail-fast, verdict, write | other commands as subprocesses | A program that cannot start, a kill between two reports, fields that must agree | GateCommands |
| docs_generate_specs (`docs_generate_specs.py`) | rows, trace, three reports on disk | select, a pool of `run_case`, reports | dispatcher, which has no runner for its cases | Exceptions and interrupts in the pool, reports that must agree | DocsGenerate |
| Conformance and parity (`conformance.py`, `conformance_parity.py`, ...) | reports of two implementations | run, compare | PHP runner | A difference that falls between two comparisons | Conformance |
| Upstream sync (`src/scripts/sync_*.sh`) | snapshot, manifest, lock | write, check | git | A crash between the three | SnapshotSync |
| Expression language (`spec_lang.py`) | budget, environments, symbols | evaluate, call builtins | assertion engine, hooks, checks | Counters at their limits, capture, currying, capabilities | SpecValues, SpecPaths, SpecSchema, SpecLang |
| Libraries (`spec_lang_libraries.py`, `virtual_paths.py`, `external_refs.py`) | symbols of a case | load, resolve, compile | evaluator | Cycles, visibility, order of loading | SpecLibraries |
| Hygiene, lint, format (`spec_lang_hygiene.py`) | none | rewrite or complain | cases on disk | A rewrite that changes what a case says | CaseRewriting, CaseLint |
| Compiler (`compiler.py`, `spec_lang_yaml_ast.py`) | none | refuse or translate | everything that runs cases | Other readers of the same fields | CaseCompiler |
| Normaliser (`normalize_repo_runtime.py`, `normalize_docs_layout.py`, `split_library_cases_per_symbol.py`) | a tree of files | --check, --write | formatter | One rewrite undoing another | RepoNormalizer |
| Governance checks of chains and of cases (`governance_runtime.py`) | none | one complaint list each | chain engine, lint, harnesses | They must refuse what will not run, and only that | ChainChecks, GovernanceCaseChecks |
| Quality metrics (`quality_metrics.py`, `spec_portability.py`) | baselines and notes | report, compare | governance checks | A check that passes although the thing it watches got worse | QualityMetrics |

`PROJECT.json` lists all components with their status, those without a module included,
and the hazards at their lines.

## Modules and the code

A module holds the model and, after a line, its properties. Definitions marked as *slips*,
right before the one they would replace, are plausible bugs; each property fails under at
least one of them.

**CaseNesting** is the abstract specification of `run_case`: cases are entered only
when not open, are left in reverse order with one profile row each, and an abort
(a `BaseException` that is no `Exception`) unwinds all of them. **ChainExecution** is the
detailed one: the Python stack is `stack`, a frame per `run_case` that has pushed its key;
`active`, `chainState`, `chainTrace`, `payloads` and `rows` are the fields of the shared
`SpecRunContext`. A frame goes through `StartChain` (lower and compile the plan, reset the
state, lines 671-680), the steps (`UnresolvedStep`, `CompileOnlyStep`, `RuntimeStep`), their
references (`SelfReference`, `CallRef`, `AfterRef`, `EndStep`), `ResolveImports` and
`RunHarness`; `Unwind` is the `finally` on an abort. Documents are records: whether a
reference resolves, a case loads (`Loads` is `compile_external_case`) or an export compiles is data,
text is not. A value exported by a step is represented by the case that produced it; as the code
stands no case that loads ever exports one (below, *Running*).

**AssertionRun** is `run_assertions_with_context` with `evaluate_internal_assert_tree`:
`Start` (health lint and shape of `harness.when`), `EvalCheck` for each predicate,
`ClausePasses`, `PassHook`, `FailHook`, `CompleteHook`. A check holds, fails, errs or is
interrupted; a hook does or does not. `log` is history: what ran, with the totals it was handed.

**GovernancePool** is the governance `main` from the start of its cases to its exit code. A
thread goes through the steps of `_run_one`: `Take`, `MarkStart`, `Execute`, `MarkFinish`,
`Return`; the stamp of `_mark_progress` is read before its lock is taken, so `lag` counts how
old it is when written. The main thread: `Begin`, then `Harvest` or `WaitTimeout`, `Snapshot`
under the lock and `Decide` after it, `LeaveLoop`, `Join`; or `RanSequentially`. `Tick` is time.

**LivenessWatchdog** is `run_subprocess_with_liveness`: the command is a leader and a child in its
process group (`Write`, `CloseOutput`, `Exits`); only the leader is waited for, so a child that
closed its pipes, or whose leader went by itself, may live on, and EndsClean says only what the code
promises of it. The loop is `Check`, `Read`/`ReadEnd`/ `SelectTimeout`, `Poll`, and
`GracePoll`/`GraceOver` are `_kill_process_tree`. Both pipes are one stream of chunks of bounded
room. `PlainReturn` is the path without a profiler. **Profiler** is `RunProfiler`: workers that open
and finish spans and run subprocesses (`Interrupted` is an exception out of `communicate` that is no
timeout: the child is left), the heartbeat thread, and `close()`, which seals the payload under the
lock and writes it without. **MCProcessRuns** runs one or the other.

**ApiHttpScenario** is `_run_scenario`: `NoSetup`, `SetupCommand` or `StartServer` with `Poll`
and `Probe`; `RenderFails`, `Send`, `Response`, `StepsDone`; the `finally` block `Teardown`,
`Stop`, `Terminated`, `Kill`; and `End`. The server may exit at any time, the runner may be
interrupted wherever it waits.

What a case or a command leaves for the next is in eight modules that **MCKeptState** runs one at a
time (`part`). **ChainCaches**: a document is rewritten, moved away or moved back between any two
steps of two chains: `Stat`, `Lookup`, `Discover` (no file: no cases, which are kept), `Read`,
`Store`, `Filter`. **ScanCaches**: look up under the lock, compute outside it, nested, store; the
tree and the token change in between. **TokenCache**: `_oauth_access_token` under a moving clock,
for answers that say how long a token lives and answers that do not. **SideEffects**: the undo
stack, the two reentrant locks, entry points that run cases; `Leave` is the exit of a context,
`Undo` takes back its patches one by one, last first, and `Release` gives the locks back.
**GateCommands**: the commands one after the other over one disk, with a kill between any two steps.
**Conformance**: loading, running, both reports, both comparisons, the artefact. **DocsGenerate**:
selection, the pool, exceptions on their way out, the trace and the three reports; what a page would
be rendered from is not modelled, since `run_case` raises for every docs.generate case.
**SnapshotSync**: remove, copy, manifest, lock, verify.

The pure parts take an input and answer it (**MCAlgorithms**). **SpecValues**, **SpecPaths**,
**SpecSchema** are the values and eager builtins; **SpecLang** the evaluator with its step budget,
environments (a heap of frames), currying, lazy builtins and the builtins that act on the world;
**SpecLibraries** the loader. A case is the value its YAML loads to. **CaseRewriting** is the
formatter, **CaseLint** the codes of the lint, **CaseCompiler** what the compiler refuses or builds,
**RepoNormalizer** the rewrites of `--write` in their order and the checks of `--check` (a spec file
is what its blocks load to; `Split` and `Formatted` look at blocks, `CasesOf` at the cases of a
suite), **ChainChecks** the governance checks of chains next to the part of the chain engine that
decides the same and what `compile_external_case` takes (`CompilerTakes`, `EngineResolves`),
**GovernanceCaseChecks** those of clauses, hooks, jobs, export docs, libraries and api.http cases
next to what the dispatcher and the harness refuse, **QualityMetrics** the seven reports, the
comparison with a baseline and the scorecard (a ratio is a whole number of 1/5040). What these owe
each other is in **CaseToolsProperties** and **SpecDataProperties**; the inputs are in
**CaseInputs**, **ChainCheckInputs**, **QualityMetricInputs**.

## Runs

Every run checks the properties PROJECT.json names with it; deadlock is checked in all of them
but those whose system may stop, which their cfg says. States are distinct ones.

| Run | Asks | States |
|---|---|---|
| chain_execution | Chains of every class over cases that pass, fail, are interrupted, loop or cannot run: re-entry, order, unwinding, the trace of a flat chain, the end of every run, and that all of it is a run of CaseNesting | 119,148 |
| chain_payload_scope (violation) | Does the payload of a case hold the rows of its own chain only? | |
| declared_imports (violation) | Does a case that imports what a loaded producer exports get to its harness? | |
| assertion_run | Do passes, totals and the raised failure tell what clauses and hooks did? | 101,428 |
| pool_run | Is every case reported truly once, is no healthy prompt run given up, is every hang noticed, does every other run end? | 379,830 |
| pool_hang (violation) | Does a run that was given up end? | |
| process_runs | The subprocess watchdog at every level, and the profiler against its own threads: whole output, nothing left behind, one true trace, and an end | 871,789 |
| api_scenario | Is a scenario's order kept, its server stopped, its teardown last, whatever fails? | 30,376 |
| api_server_leak (violation) | Is a server that was started always stopped? | |
| kept_state | What is left for the next: caches while what they hold changes, tokens while time passes, patches of nested runs; reports and snapshots on disk under every option, exit code and kill | 3,568,375 |
| algorithms_run | The pure parts on small inputs: the evaluator and its builtins, libraries, the checks of chains and cases, quality reports, and the tools that format, lint, compile, move and split cases | 553,510 |
| metric_blind (violation) | Does the metric see a governance case lose its symbols? | |

Several properties join small ones of one subject; the parts have names and comments of their
own in the module they come from:

- ReentryGuard: NoReentry and ActiveIsStack. PassMeansChainHeld: the chain held before the harness
  ran, and no failure is hidden by a pass.
- FailuresAreTold: the totals are true, and the first failure is the one raised.
- NoCaseIsLost: futures accounted for, every case reported, nothing dropped by a pass, trace and
  exit code agree; also the types. PoolProgresses: a hang is noticed and every other run ends.
- EndsClean: whole output, no leader left that runs, and no child of a leader that was killed for
  good; types. NothingLeftBehind: no span is left open inside a finished one, and a child is left
  only by a thread whose `communicate` was interrupted. TraceIsWhole: see Profiler.
- FlatChainsKeepTheirTrace: a case whose executed steps lead only to cases without a chain finds the
  rows of its own references in its payload; the nested ones are in chain_payload_scope.
- DocsCommandTellsTheTruth: the reports agree (ReportsAgree) and pass only where there is nothing to
  do (PassesOnNothing). ChainCachesAreTrue: never older than the start, nothing means gone, the
  entry of now is of now.
- LifecycleKept: requests only when ready, results in order, teardown attempted, server stopped.
- The properties of kept_state and algorithms_run are listed with their parts in MCKeptState and
  MCAlgorithms.

The properties of the pure parts are action properties of the one step that answers an input
(`Answering`), because each is an algorithm of its own; `output` only tells whether it has
been answered. A definition of the code is always held against one that does not follow it:
a law (sets, trees, normal forms), another reader of the same input, or the rewritten input
read again.

### Bounds

- Chains: three cases suffice for a case, one it calls and one below that calls back to either; two
  step ids let an inner and an outer chain collide on one; names are two exports and one reserved
  word. The libraries combine all classes, `allow_continue`, `fail_fast`, unresolved references and
  unknown types for execution, and importers with producers whose exports are documented, plain or
  malformed and whose clauses are a list or a mapping.
- Assertions: up to three clauses, required and optional in every order (a failing one before, at
  and after another), one or two checks, every subset of hooks, two fail hooks.
- Pool: two processors, up to three cases, so that one is queued while two run; one may fail and
  another hang. Windows are one and two ticks. With `prompt` off, threads may be delayed by any
  time; those instances are smaller.
- Watchdog: a leader and one child; room for two chunks, stall two, cap three, grace one tick;
  counters saturate one above their limit. Profiler: two threads with two spans each, or one with a
  subprocess inside a span; one tick of beat, silence and join limit; `communicate` is interrupted
  in the prompt instances only, and a child that was left is not followed further.
- Scenarios: up to three steps, templates that name no step, the one before, or one to come; three
  probes.
- Kept state: two threads and two rewrites (one before a lookup, one during it) with any number of
  removals; two tokens and two versions of the tree; two callers, a token that is dead on arrival,
  one that lives two ticks and one whose life is not said (one tick stands for 3600 s); two patches,
  cases and levels of nesting; three gate steps and two commands in a row; two cases; three docs
  cases on two threads; two files and three commits, four commands.
- Pure parts: every input built from the small sets of the input modules: lists to length three,
  paths to three parts, expressions and cases two or three levels deep, all graphs of three nodes.

### Fairness

- Chains run on one thread, and the harness is assumed to return or raise: weak fairness of the
  step. AssertionRun, the kept state and the pure parts have no liveness property and none.
- Pool: weak fairness of the main thread, and of the workers as a whole: while some thread has a
  step to take, some thread takes one. A hanging case has none. `Tick` has strong fairness: a wait
  that times out takes 250 ms or more, so time passes although no single instant is forced.
- Watchdog: weak fairness of the loop, whose `select` has a time limit, and of the exit of
  processes told to terminate that do not ignore it; strong fairness of `Tick`. Nothing is assumed
  of the command itself.
- Profiler: weak fairness of `close()` once it is called and of time; nothing of the heartbeat
  thread and the workers: that `close()` ends in spite of them is the property.
- Scenarios: weak fairness of the runner; commands end and requests are answered or time out. The
  server owes nothing.

`prompt` (pool, watchdog, profiler) restricts *safety* properties about causes to runs in which
time does not pass while the loop or a thread is ready to go on. Without it a delayed stamp can
make a healthy pool look idle, which HealthyRunNeverStalls excludes openly by naming it.

## Where code, documents and tools disagree

Five runs show a document's claim violated, or a bug: a chain's payload is not case-scoped
(chain_payload_scope), chain exports never arrive (declared_imports), a run that was given up does
not end (pool_hang), a teardown that raises leaves the server (api_server_leak), and a metric that
can never change (metric_blind). The following were met on the way; the models have them as the
code does, and the properties step around them by name.

*Running.* A case may refer to itself in a compile-only step. The complete hook runs after failed
optional clauses, and hook failures of an optional clause are swallowed. Without a profiler a
command has no watchdog. No chain export is ever bound: a contract.export case loads only with a
`doc` in each export (`compiler.py:173-176`), which `_expand_producer_exports` refuses
(`chain_engine.py:123-127`); any other case loads only if its clauses are no list
(`compiler.py:492`), which `_compile_assert_function` wants (489). `exports[]` at the root of a
suite (`04_harness.md:166`) is read by no chain. So whoever imports from a chain raises
(ExportsNeverArrive), and the cache of exports stays empty. A document that is moved away between
stat and load is loaded as an empty list and kept under the key it had: when it comes back
unchanged, a MUST step by path passes with nothing run. A token whose `expires_in` is missing or no
number is kept for 3600 s, whatever the server meant. A child of the watched command that closed its
pipes, or whose leader exits by itself, outlives the watchdog, and an interrupt in
`RunProfiler.subprocess_run` leaves the child running. `docs.generate` is in no table of runners
(`dispatcher.py:167-171`), and `docs_generate_specs.py` gives none: each selected surface fails in
the dispatcher, and the command passes only when nothing is selected and no `--surface` was given.
Interrupted in its pool, it closes the trace as a pass.

*Expression language.* Builtins that take functions cannot be curried (against
`03b_spec_lang_v1.md:246-255`). A malformed schema under `not` or `any_of` counts as "does not
fit". `within(".", "../x")` is true. `relativize` from a base that climbs does not lead back. The
node budget does not count what is inside dicts (104-118), `range`, `repeat` and pads are not
ticked, timeout 0 of exec has no limit, `dispatch_depth` can never fire. A binding named like a
canonical builtin, read before it has a value, is the builtin. `eq` and `in` take 1 for True,
`equals` and the set builtins do not. `let` cannot be written in the YAML form, and
`sexpr_to_yaml_ast` makes `["subject"]` a variable that does not evaluate. A public value that
reads a private one fails if it is evaluated at once; a consumer's `exports` may name private symbols.

*Case tools.* The formatter loses an import when one source has two local names, and the
predicates of clauses that have them; `_normalize_case` tests for `contract` but rewrites
`clauses`, so real cases are never formatted and a case with `contract` gets `clauses: null`.
Renaming ignores the parameters of `fn`; operator-shaped data in a `lit` changes meaning. Lint and
normaliser demand `clauses.steps`, the compiler reads `predicates`: clauses with steps compile to
an empty tree, which passes. Hooks have two sets of names (must, may, must_not and required,
optional), so only fail and complete suit all (HooksGoverned). The normaliser looks at exports only
when `harness.use` is given; `--write` does not run most checks, and `--check` tolerates rule files
that `--write` reports missing; a replacement whose result holds an earlier pattern never settles;
moving a document overwrites an `index.md` that is there. The splitter makes private-only cases
public. Splitter and formatter take each fence for a case, but a file that loads has one fence, a
suite (`codecs.py:34-105`): libraries in suites are never split and their cases never formatted, a
splitter that finds nothing says "library cases are one-public-symbol per case"
(`split_library_cases_per_symbol.py:main`) where governance still complains, and a file that it does
split into several fences does not load.

*Governance.* `_scan_library_colocated_symbol_tests_required` cannot count tests of the library
itself although its message says so; global and private references are searched in `clauses` only
when they are a list, which no case that loads has; an api.http case wrapped in a contract.check
keeps its own request for the scans while the dispatcher lets the config's take its place
(2874-2878, `dispatcher.py` 124-127), and the portable shape is never asked of it; a URL is live by
prefix for the scans and by scheme for the harness; the verb suite demands a method of the fixtures
that are exempt from having one. The chain checks load a document whose cases have no id, which the
engine, compiling all of them, refuses (`chain_engine.py:419`, `compiler.py:559`); they see no cycle
through such cases, no duplicate step ids, export paths or harness.use, look at `step.imports`,
which the engine forbids, refuse empty `steps`, which it runs, and complain of `params` in every
import entry of a step.

*Metrics.* The logic ratio is always 1 and native escapes always 0;
`_library_public_surface_ratio` looks for contract.export while libraries are spec_lang.export; an
epsilon or baseline that is no number disables the comparison; an unknown direction is
non_decrease and an unknown tripwire status never fails; `min_overall_ratio`, `min_segment_ratios`
and `enforce` are validated and never used; a file of two segments counts twice; removing a word
that only one document has improves token_sync.

## Proofs

All theorems are for arbitrary constants under the named assumptions of the modules, which TLC
evaluates in every run of them: `LibrariesAssumption`, `ReservedAssumption`, `CasesAssumption`,
`PoolAssumption`, `ScenarioAssumption`, and `ProcessRunsAssumption` and `KeptStateAssumption`,
which join those of the modules they run. They only say which sets are finite, that bounds and
windows are natural numbers, and what inputs look like. PROJECT.json says of each theorem which
property it establishes. The invariants as stated are seldom inductive; what they need is this.

**Chains.** *ChainProofs*: the guard of `run_case` looks at `active` only, so NoReentry needs that
`active` is what is on the stack, and that needs well-formed frames. `ControlInv` is the three
together. An action rewrites the top frame (`Goto`), pushes one (`CallRef`) or pops one
(`Finish`); two lemmas for the first and the last keep the case split short. *ChainPromises* adds to
it what the log of a frame says of the steps behind it and of the one under way (`ChainSoFar`), and
that each caller waits at the reference its callee runs (`CallersWait`); with both, a failure that
is handed up meets the frame that must not pass. RunsAreNested shows the refinement of
CaseNesting from the same invariant, action by action. The chain trace is shared, so that a flat
chain finds its own needs a second invariant, `FlatInv`: while such a case is at its steps, the trace
has the rows of its own log, because the cases its executed steps lead to have no chain and leave
the trace alone. ExportsNeverArrive is that of `NothingExported`: no case that loads is a producer
whose exports compile, so nothing is bound and no importer gets to its harness.

**Assertions.** A passing case must have evaluated what it skipped past, so `RunInv` says for
each place of the loop what the log already holds: clauses behind it, checks before the current
one, nothing blocking while a pass is possible. The log only grows, and what held is kept
(`LogGrows`, `HeldIsKept`). For the totals `CountInv` recounts the log: the counters are the
cardinalities of the sets of clauses that passed or failed in it, the clause under way excepted,
and every hook was told the count of the log before it. `ReportInv` names the entry that blocks:
it is the only one, or the fail hook's own.

**Pool.** `IInv` adds to types and futures what the main thread may rely on at each
phase: why it left the loop, and which phases the cases can be in then. That only hangs are given
up needs `QuietInv` besides: when time only passes while nobody has a step to take, a case that is
starting has age 0, a stamp being written lags by 0, and a quiet window ends with a case at work
that the heartbeat sees.

**Watchdog and profiler.** `WatchInv`: the end of the pipes is seen only when they are
empty and nobody can write, a reason is given exactly when the command is given up, and a loop that is
scheduled at once has been idle no longer than the processes were silent. `ProfInv`: every span on a
thread's stack is open, inside the one below it and on no other stack, and every open span is on one
(`SpansOK`); where a thread is tells how deep it is (`PlacesOK`) and a wait span to come has its room
(`RoomOK`); a warning is behind by no more than the next beat (`ClocksOK`); a trace sealed in quiet
still counts what the run holds (`TraceOK`).

**Scenarios.** Where the runner is and what of setup, teardown and server is behind it, and
the logs, by which requests and results differ by at most the one on its way. TypeOK needs
besides that a probe is only waited for when the deadline leaves time for it (`TypeInv`).

**Kept state.** One invariant per part; a step of one part leaves the others alone.
- *SyncInv*: no file is there twice; from the copy on, snapshot and manifest are on their way to
  what the commit has; a lock is only written over a whole manifest.
- *ScanInv*: what a thread computed is as old as its frame says, frames of nested lookups have
  tokens that do not fall, and an entry is no older than the reset that made its token current.
- *TokenInv*: an entry ends no later than its token, or than the default when its life was not said,
  unless it was dead on arrival, and is of its key.
- *ChainInv*: an entry is of the time of its key or later, the file's content if it has the file's
  mtime, and nothing only if the document was away at its time.
- *DocsInv*: a pool takes no more cases than it has workers; a report is written only when every case
  has ended and its error is collected; each file repeats the one before.
- *ParityInv*: the reports hold what the cases came to; the other one may lack a case or its outcome.
- *GateInv*: the first failure divides the rows, and a page is no newer than its trace, the trace no
  newer than its summary.
- *PatchInv*: undoing leads back (`LeadsBack`): for each key the first patch still to be undone
  holds the value on entry, or there is none and the key has that value; a run inside a run was
  entered with what the outer one wants; the locks let one thread in. *OutputInv*: what is unread
  belongs to the case that runs, or to one nobody could read.

Model-checked only: the liveness properties (Termination, PoolProgresses, CappedRunEnds,
CloseEnds, ScenarioEnds; the prover has neither fairness nor ENABLED), and the properties of
algorithms_run, whose operators are recursive: what a recursive definition computes for every
input is out of the prover's reach. The claims of the violation runs are false.

## Not modelled

The map covers about a third of the implementation's lines. Most of the rest is text: the governance
checks that search documents and sources for tokens (half of `governance_runtime.py`), report and
catalogue generators, YAML and Markdown codecs, the schema registry, command-line parsing, wording
and layout. A model of them would repeat their regular expressions and have nothing to be wrong
about but those. Of the modelled components these are left out:

- *chains*: values of exported symbols and the cache of exports, which stays empty; timing fields of
  profile rows.
- *docs*: `harnesses/docs_generate.py`, which no code path reaches.
- *pool and watchdog*: exceptions of the main thread outside `_run_one`; the second pipe as a stream
  of its own; a process that takes the pid of one waited for; process groups of grandchildren.
- *profiler*: redaction and rendering of the two artefacts.
- *api.http*: a single request outside a scenario; URLs, headers and bodies.
- *kept state*: hashes that collide, clocks coarser than two rewrites, undo steps that raise; the
  runner-spec sync scripts, which follow the scheme of the modelled one.
- *expression language*: floats, the builtins on texts, sorting, files and the wall clock.
- *case tools*: fences, the YAML that is written, places and texts of complaints, blanks and case
  of names, the walk over files.
- *metrics*: the reading of tokens out of texts.

## Plan

1. Lemmas about the parts of the pure modules that are not recursive: the comparison of metrics
   with a baseline, the checks of one chain step and one import.
2. A composition of GovernancePool with ScanCaches: the checks of the pool share the caches, and
   a run that was given up leaves threads behind that still store.
3. The single-request path of api.http outside a scenario.
