--------------------------- MODULE ChainExecution ---------------------------
(***************************************************************************)
(* One top-level run of a contract case: dispatcher.run_case and           *)
(* chain_engine.execute_chain_plan calling each other through run_case_fn, *)
(* all on one shared SpecRunContext.                                       *)
(*                                                                         *)
(* The Python call stack is `stack`, one frame per run_case that has       *)
(* pushed its key.  The context is shared by every frame: `active`         *)
(* (_active_case_keys), `chainState`, `chainTrace`, `payloads`             *)
(* (_case_chain_payloads and, written by the same two lines,               *)
(* _case_chain_imports) and `rows` (profile_rows, with profiling on).      *)
(*                                                                         *)
(* A value exported by a chain step is represented by the case that        *)
(* produced it, which is all that the properties tell apart.               *)
(***************************************************************************)
EXTENDS Naturals, Sequences

CONSTANTS
    Cases,      \* case keys: resolved document path :: id
    StepIds,
    Names,      \* exported and local symbol names
    Reserved,   \* _RESERVED_IMPORT_NAMES
    Libraries   \* the sets of case documents a run may find

Classes == {"MUST", "MAY", "MUST_NOT"}

\* refs: the cases the reference resolves to, in document order;
\* resolves: the reference names an existing file and a unique case.
Step == [id : StepIds, class : Classes, refs : Seq(Cases),
         resolves : BOOLEAN, cont : BOOLEAN]

\* One row per imported name; local is the alias or the name itself.
Import == [from : StepIds, name : Names, local : Names]

\* known: the dispatcher has a runner for the case's type.
\* entries: how harness.exports is written, "plain" with nothing but the keys
\*   _CHAIN_PRODUCER_EXPORT_KEYS, "documented" with a doc mapping in each entry,
\*   "malformed" with an entry that the engine refuses for another reason.
\* clauses: a list that has a MUST clause for each export, or anything else.
CaseDef == [known : BOOLEAN, type : {"contract.export", "other"},
            steps : Seq(Step), imports : Seq(Import), failFast : BOOLEAN,
            exports : SUBSET Names, required : SUBSET Names,
            entries : {"plain", "documented", "malformed"},
            clauses : {"list", "mapping"}]

ASSUME LibrariesAssumption == Libraries \subseteq [Cases -> CaseDef]
ASSUME ReservedAssumption == Reserved \subseteq Names

VARIABLES
    library,    \* the case documents, read only
    stack,      \* one frame per run_case in progress, outermost first
    active,     \* ctx._active_case_keys
    chainState, \* ctx.chain_state
    chainTrace, \* ctx.chain_trace
    payloads,   \* ctx._case_chain_payloads
    rows,       \* ctx.profile_rows
    verdict     \* how the top-level run_case ended, or "running"

vars == <<library, stack, active, chainState, chainTrace, payloads, rows, verdict>>
context == <<chainState, chainTrace, payloads>>

-----------------------------------------------------------------------------
\* The exports bound to a step: a partial function from names to producers.
Bindings == UNION {[S -> Cases] : S \in SUBSET Names}
NoBinding == [n \in {} |-> n]

\* chain_state.get(id, {}) does not tell an absent id from an empty one.
State == [StepIds -> Bindings]
EmptyState == [id \in StepIds |-> NoBinding]

NoCase == "no case"
TraceRow == [step : StepIds, class : Classes, ref : Cases \cup {NoCase},
             status : {"pass", "fail"}]

NoPayload == [state |-> EmptyState, trace |-> <<>>, imports |-> NoBinding, set |-> FALSE]
Payload == [state : State, trace : Seq(TraceRow), imports : Bindings, set : BOOLEAN]

Outcome == {"pass", "fail", "abort"}

\* pc: where the frame is in run_case / execute_chain_plan.  got: what the
\* last run_case_fn did.  log: history, the verdict on every reference tried;
\* reference 0 stands for a step that is only compiled.
LogEntry == [step : Nat, ref : Nat, passed : BOOLEAN]
Frame == [case : Cases,
          pc : {"plan", "step", "ref", "back", "harness"},
          step : Nat, ref : Nat, any : BOOLEAN,
          got : Outcome \cup {"none"},
          log : SUBSET LogEntry]

\* Slip: counting the steps from zero.
NewFrameFromZero(c) == [case |-> c, pc |-> "plan", step |-> 0, ref |-> 1, any |-> FALSE,
                        got |-> "none", log |-> {}]
NewFrame(c) == [case |-> c, pc |-> "plan", step |-> 1, ref |-> 1, any |-> FALSE,
                got |-> "none", log |-> {}]

Depth == Len(stack)
Top == stack[Depth]
Plan == library[Top.case]
ThisStep == Plan.steps[Top.step]
At(pc) == stack # <<>> /\ Top.pc = pc

-----------------------------------------------------------------------------
\* compile_chain_plan: the checks that make a declared plan a ValueError.
PlanCompiles(d) ==
    /\ \A i, j \in DOMAIN d.steps : d.steps[i].id = d.steps[j].id => i = j
    /\ \A i \in DOMAIN d.imports :
        /\ \E k \in DOMAIN d.steps : d.steps[k].id = d.imports[i].from
        /\ d.imports[i].local \notin Reserved
        /\ \A j \in DOMAIN d.imports : d.imports[i].local = d.imports[j].local => i = j

\* compile_external_case: a contract.export must document its exports; a case
\* of any other type must not have a list of clauses.
Loads(d) ==
    IF d.type = "contract.export" THEN d.exports # {} /\ d.entries = "documented"
                                  ELSE d.clauses = "mapping"

\* The engine compiles the document of a reference before it looks for a case.
Resolves(s) == s.resolves /\ \A i \in DOMAIN s.refs : Loads(library[s.refs[i]])

\* A step some import names is compiled for its exports and never executed.
CompileOnly(d, s) == \E i \in DOMAIN d.imports : d.imports[i].from = s.id

\* _expand_producer_exports: doc is no key of an entry the engine knows.
Declares(d) == d.exports = {} \/ d.entries = "plain"

\* _extract_assert_function_imports: a producer that does not compile is
\* passed over, the first producer of a name wins (setdefault), a required
\* name nobody provides is an error, and so is a step that exposes nothing.
\* With what Loads lets through there never is a producer that compiles.
Usable(refs) == {i \in DOMAIN refs : library[refs[i]].clauses = "list"}
Providers(refs, n) == {i \in Usable(refs) : n \in library[refs[i]].exports}
Provided(refs) == {n \in Names : Providers(refs, n) # {}}
Exports(refs) ==
    [n \in Provided(refs) |->
        refs[CHOOSE i \in Providers(refs, n) : \A j \in Providers(refs, n) : i <= j]]
ExportsCompile(refs) ==
    /\ \A i \in DOMAIN refs :
        /\ Declares(library[refs[i]])
        /\ library[refs[i]].required \cap library[refs[i]].exports \subseteq Provided(refs)
    /\ Provided(refs) # {}

\* fail_fast and not step.allow_continue.
Strict(d, s) == d.failFast /\ ~s.cont

\* A MUST or MUST_NOT step raises at the first reference that breaks it.
\* Slip: only the last reference of the step decides.
RaisesAtTheEnd(s, passed) ==
    ~passed /\ s.class # "MAY" /\ Strict(Plan, s) /\ Top.ref >= Len(s.refs)
Raises(s, passed) == ~passed /\ s.class # "MAY" /\ Strict(Plan, s)

\* What `except Exception` catches of run_case_fn.
\* Slip: except BaseException, which also takes in an interrupt.
CatchesAll(got) == got \in Outcome
Caught(got) == got \in {"pass", "fail"}

\* MAY stops at its first success, the other classes try every reference.
\* Slip: every class stops at its first success.
NextRefAnyClass(s, passed) == IF passed THEN Len(s.refs) + 1 ELSE Top.ref + 1
NextRef(s, passed) == IF s.class = "MAY" /\ passed THEN Len(s.refs) + 1 ELSE Top.ref + 1

\* Slip: a reference to a document without cases is tried again.
StepAfterRetry(s) == IF s.refs = <<>> THEN Top.step ELSE Top.step + 1
StepAfter(s) == Top.step + 1

\* run_case raises before its try: no runner for the type, or the key is
\* active (push_active_case).
\* Slip: only the calling case is looked at.
RefusedByCaller(c) == ~library[c].known \/ c = Top.case
Refused(c) == ~library[c].known \/ c \in active

Verdict(passed) == IF passed THEN "pass" ELSE "fail"
TraceOf(s, ref, passed) ==
    [step |-> s.id, class |-> s.class, ref |-> ref, status |-> Verdict(passed)]
FirstRef(s) == IF s.refs = <<>> THEN NoCase ELSE s.refs[1]
Logged(ref, passed) == Top.log \cup {[step |-> Top.step, ref |-> ref, passed |-> passed]}

-----------------------------------------------------------------------------
\* Control goes on inside the top frame.
Goto(frame) ==
    /\ stack' = [stack EXCEPT ![Depth] = frame]
    /\ UNCHANGED <<active, rows, verdict>>

\* The key is popped in the finally block, whatever the outcome.
Popped(outcome) == active \ {Top.case}

\* The finally block of run_case: add_profile_row, then pop_active_case; the
\* caller finds out how the run ended.
Finish(outcome) ==
    /\ stack' = [i \in 1 .. (Depth - 1) |->
                    IF i = Depth - 1 THEN [stack[i] EXCEPT !.got = outcome] ELSE stack[i]]
    /\ active' = Popped(outcome)
    /\ rows' = Append(rows, [case |-> Top.case, status |-> Verdict(outcome = "pass")])
    /\ verdict' = IF Depth = 1 THEN outcome ELSE verdict

\* ctx.chain_trace.clear(), before the first step of any chain.
\* Slip: a nested chain goes on with the rows of the chain around it.
TraceKept == chainTrace
FreshTrace == <<>>

\* execute_chain_plan up to its loop: a case without steps leaves the shared
\* chain state alone, any other one clears it for everybody.
StartChain ==
    /\ At("plan")
    /\ UNCHANGED <<library, payloads>>
    /\ \/ /\ ~PlanCompiles(Plan)
          /\ Finish("fail")
          /\ UNCHANGED <<chainState, chainTrace>>
       \/ /\ PlanCompiles(Plan)
          /\ Plan.steps = <<>>
          /\ Goto([Top EXCEPT !.pc = "harness"])
          /\ UNCHANGED <<chainState, chainTrace>>
       \/ /\ PlanCompiles(Plan)
          /\ Plan.steps # <<>>
          /\ Goto([Top EXCEPT !.pc = "step"])
          /\ chainState' = EmptyState
          /\ chainTrace' = FreshTrace

\* A reference that does not resolve, or whose document does not compile, raises whatever the step's class.
UnresolvedStep ==
    /\ At("step")
    /\ Top.step <= Len(Plan.steps)
    /\ ~Resolves(ThisStep)
    /\ Finish("fail")
    /\ UNCHANGED <<library, context>>

\* The compile-only branch of the loop.  A MAY step that fails raises nothing.
CompileOnlyStep ==
    /\ At("step")
    /\ Top.step <= Len(Plan.steps)
    /\ Resolves(ThisStep)
    /\ CompileOnly(Plan, ThisStep)
    /\ LET s == ThisStep
           compiled == ExportsCompile(s.refs)
           passed == IF s.class = "MUST_NOT" THEN ~compiled ELSE compiled
       IN /\ chainTrace' = Append(chainTrace, TraceOf(s, FirstRef(s), passed))
          /\ \/ /\ Raises(s, passed)
                /\ Finish("fail")
                /\ UNCHANGED chainState
             \/ /\ ~Raises(s, passed)
                /\ Goto([Top EXCEPT !.step = @ + 1, !.log = Logged(0, passed)])
                /\ chainState' = [chainState EXCEPT ![s.id] =
                     IF s.class # "MUST_NOT" /\ compiled THEN Exports(s.refs) ELSE NoBinding]
    /\ UNCHANGED <<library, payloads>>

\* The runtime branch starts on the first reference of the step.
RuntimeStep ==
    /\ At("step")
    /\ Top.step <= Len(Plan.steps)
    /\ Resolves(ThisStep)
    /\ ~CompileOnly(Plan, ThisStep)
    /\ Goto([Top EXCEPT !.pc = "ref", !.ref = 1, !.any = FALSE])
    /\ UNCHANGED <<library, context>>

\* A reference to the case itself raises outside the try.
SelfReference ==
    /\ At("ref")
    /\ Top.ref <= Len(ThisStep.refs)
    /\ ThisStep.refs[Top.ref] = Top.case
    /\ Finish("fail")
    /\ UNCHANGED <<library, context>>

\* run_case(ref): an unknown type and an active key raise before the try of
\* the callee, so they are failures of the reference that open no frame.
CallRef ==
    /\ At("ref")
    /\ Top.ref <= Len(ThisStep.refs)
    /\ UNCHANGED <<library, context, rows, verdict>>
    /\ LET c == ThisStep.refs[Top.ref]
       IN /\ c # Top.case
          /\ \/ /\ ~Refused(c)
                /\ stack' = Append([stack EXCEPT ![Depth] =
                                       [Top EXCEPT !.pc = "back", !.got = "none"]],
                                   NewFrame(c))
                /\ active' = active \cup {c}
             \/ /\ Refused(c)
                /\ stack' = [stack EXCEPT ![Depth] =
                                [Top EXCEPT !.pc = "back", !.got = "fail"]]
                /\ UNCHANGED active

\* Back from run_case_fn: `except Exception` turns a failure into a verdict
\* on the reference.
AfterRef ==
    /\ At("back")
    /\ Caught(Top.got)
    /\ LET s == ThisStep
           passed == IF s.class = "MUST_NOT" THEN Top.got = "fail" ELSE Top.got = "pass"
       IN /\ chainTrace' = Append(chainTrace, TraceOf(s, s.refs[Top.ref], passed))
          /\ \/ /\ Raises(s, passed)
                /\ Finish("fail")
             \/ /\ ~Raises(s, passed)
                /\ Goto([Top EXCEPT
                        !.pc = "ref",
                        !.ref = NextRef(s, passed),
                        !.any = @ \/ passed,
                        !.log = Logged(Top.ref, passed)])
    /\ UNCHANGED <<library, chainState, payloads>>

\* KeyboardInterrupt and SystemExit are not Exceptions: they pass through.
Unwind ==
    /\ At("back")
    /\ Top.got # "none" /\ ~Caught(Top.got)
    /\ Finish("abort")
    /\ UNCHANGED <<library, context>>

\* After the last reference of a runtime step, which exports nothing.
EndStep ==
    /\ At("ref")
    /\ Top.ref > Len(ThisStep.refs)
    /\ UNCHANGED <<library, chainTrace, payloads>>
    /\ LET s == ThisStep
           failed == s.class = "MAY" /\ ~Top.any /\ Strict(Plan, s)
       IN \/ /\ failed
             /\ Finish("fail")
             /\ UNCHANGED chainState
          \/ /\ ~failed
             /\ Goto([Top EXCEPT !.pc = "step", !.step = StepAfter(s)])
             /\ chainState' = [chainState EXCEPT ![s.id] = NoBinding]

\* The end of execute_chain_plan: the imports are looked up in the shared
\* chain state, then stored with a snapshot of it under the case's key.
Resolvable(d) ==
    \A i \in DOMAIN d.imports : d.imports[i].name \in DOMAIN chainState[d.imports[i].from]
ResolvedImports(d) ==
    [l \in {d.imports[i].local : i \in DOMAIN d.imports} |->
        LET i == CHOOSE j \in DOMAIN d.imports : d.imports[j].local = l
        IN chainState[d.imports[i].from][d.imports[i].name]]

ResolveImports ==
    /\ At("step")
    /\ Top.step > Len(Plan.steps)
    /\ UNCHANGED <<library, chainState, chainTrace>>
    /\ \/ /\ ~Resolvable(Plan)
          /\ Finish("fail")
          /\ UNCHANGED payloads
       \/ /\ Resolvable(Plan)
          /\ Goto([Top EXCEPT !.pc = "harness"])
          /\ payloads' = [payloads EXCEPT ![Top.case] =
                [state |-> chainState, trace |-> chainTrace,
                 imports |-> ResolvedImports(Plan), set |-> TRUE]]

\* The type runner: it may succeed, raise an Exception, or be interrupted.
RunHarness ==
    /\ At("harness")
    /\ \E outcome \in Outcome : Finish(outcome)
    /\ UNCHANGED <<library, context>>

-----------------------------------------------------------------------------
Init ==
    /\ library \in Libraries
    /\ \E c \in Cases :
        /\ library[c].known /\ Loads(library[c])
        /\ stack = <<NewFrame(c)>>
        /\ active = {c}
    /\ chainState = EmptyState
    /\ chainTrace = <<>>
    /\ payloads = [c \in Cases |-> NoPayload]
    /\ rows = <<>>
    /\ verdict = "running"

\* The top-level run_case has returned or raised: the program is done.
Done == stack = <<>> /\ UNCHANGED vars

Run ==
    \/ StartChain \/ UnresolvedStep \/ CompileOnlyStep \/ RuntimeStep
    \/ SelfReference \/ CallRef \/ AfterRef \/ Unwind \/ EndStep
    \/ ResolveImports \/ RunHarness

Next == Run \/ Done

Spec == Init /\ [][Next]_vars

\* One thread runs all of this; a harness is assumed to return.
FairSpec == Spec /\ WF_vars(Run)

-----------------------------------------------------------------------------
(* What a run of a library must keep.                                      *)

(***************************************************************************)
(* Every variable holds a value of its shape; frames point at steps and    *)
(* references their plan has.                                              *)
(***************************************************************************)
FrameOK(f) ==
    /\ f \in Frame
    /\ library[f.case].known
    /\ f.step \in 1 .. Len(library[f.case].steps) + 1
    /\ f.pc \in {"ref", "back"} =>
        /\ f.step <= Len(library[f.case].steps)
        /\ f.ref \in 1 .. Len(library[f.case].steps[f.step].refs) + 1
    /\ f.pc = "back" => f.ref <= Len(library[f.case].steps[f.step].refs)

ControlOK ==
    /\ library \in Libraries
    /\ stack \in Seq(Frame)
    /\ \A i \in DOMAIN stack : FrameOK(stack[i])
    /\ active \subseteq Cases
    /\ rows \in Seq([case : Cases, status : {"pass", "fail"}])
    /\ verdict \in Outcome \cup {"running"}

ContextOK ==
    /\ chainState \in State
    /\ chainTrace \in Seq(TraceRow)
    /\ payloads \in [Cases -> Payload]

TypeOK == ControlOK /\ ContextOK

(***************************************************************************)
(* "recursive re-entry during execution is forbidden": no case is on the   *)
(* call stack twice, however the references of the documents loop.         *)
(***************************************************************************)
NoReentry == \A i, j \in DOMAIN stack : stack[i].case = stack[j].case => i = j

(***************************************************************************)
(* The guard set is exact: a key is active while its run is on the stack   *)
(* and at no other time, so a case can be run again once it is left (also  *)
(* after an exception) and cannot while it is open.                        *)
(***************************************************************************)
ActiveIsStack == active = {stack[i].case : i \in DOMAIN stack}

(***************************************************************************)
(* The guard against recursion, exact and effective, at every moment of a  *)
(* run of run_case.                                                        *)
(***************************************************************************)
ReentryGuard == NoReentry /\ ActiveIsStack

(***************************************************************************)
(* A harness only starts when the chain held: with fail_fast, and for the  *)
(* steps without allow_continue, every reference of a MUST step ran and    *)
(* passed, every one of a MUST_NOT step ran and failed, and a MAY step     *)
(* that is executed has a reference that passed.                           *)
(***************************************************************************)
StepHeld(d, log, k) ==
    LET s == d.steps[k]
        tried == {e \in log : e.step = k}
    IN  IF s.class = "MAY"
        THEN CompileOnly(d, s) \/ \E e \in tried : e.passed
        ELSE /\ \A e \in tried : e.passed
             /\ {e.ref : e \in tried} = IF CompileOnly(d, s) THEN {0} ELSE DOMAIN s.refs

ChainHeldBeforeHarness ==
    \A i \in DOMAIN stack :
        stack[i].pc = "harness" =>
            LET d == library[stack[i].case]
            IN \A k \in DOMAIN d.steps :
                d.failFast /\ ~d.steps[k].cont => StepHeld(d, stack[i].log, k)

(***************************************************************************)
(* The trace a harness finds in the payload of its case is that of its own *)
(* chain: the verdicts on the references its own steps tried, and nothing  *)
(* else.  It holds for a case whose executed steps lead to cases without a *)
(* chain of their own, although all runs of a context share one trace.     *)
(***************************************************************************)
OwnRow(d, e) ==
    LET s == d.steps[e.step]
    IN  TraceOf(s, IF e.ref = 0 THEN FirstRef(s) ELSE s.refs[e.ref], e.passed)
OwnRows(d, log) == {OwnRow(d, e) : e \in log}
RowsIn(trace) == {trace[i] : i \in DOMAIN trace}

KeepsItsTrace(f) ==
    library[f.case].steps # <<>> =>
        /\ payloads[f.case].set
        /\ RowsIn(payloads[f.case].trace) = OwnRows(library[f.case], f.log)

Flat(c) ==
    LET d == library[c]
    IN \A k \in DOMAIN d.steps : ~CompileOnly(d, d.steps[k]) =>
        \A r \in DOMAIN d.steps[k].refs :
            LET e == library[d.steps[k].refs[r]] IN PlanCompiles(e) => e.steps = <<>>

FlatChainsKeepTheirTrace ==
    \A i \in DOMAIN stack :
        stack[i].pc = "harness" /\ Flat(stack[i].case) => KeepsItsTrace(stack[i])

(***************************************************************************)
(* The same without the restriction to flat chains.  The harness contract  *)
(* (04_harness.md) calls the chain payload case-scoped; the chain trace it *)
(* is taken from is shared, and a nested chain clears and refills it.      *)
(***************************************************************************)
ChainPayloadIsCaseScoped ==
    \A i \in DOMAIN stack : stack[i].pc = "harness" => KeepsItsTrace(stack[i])

(***************************************************************************)
(* Declared imports are delivered: a case all of whose steps are MUST      *)
(* steps named by an import, whose references are contract.export cases    *)
(* that load and declare every name asked of them, with a list clause for  *)
(* each, comes to its harness with its imports.  The schema (schema_v1.md) *)
(* gives this as the way chains share state.  The case a run began with is *)
(* the last to leave its row.                                              *)
(***************************************************************************)
DeclaredImporter(d) ==
    /\ PlanCompiles(d) /\ d.imports # <<>>
    /\ \A k \in DOMAIN d.steps :
        LET s == d.steps[k]
        IN  /\ CompileOnly(d, s) /\ s.class = "MUST" /\ Resolves(s)
            /\ \A r \in DOMAIN s.refs :
                LET e == library[s.refs[r]]
                IN  e.type = "contract.export" /\ e.clauses = "list"
    /\ \A i \in DOMAIN d.imports : \E k \in DOMAIN d.steps : \E r \in DOMAIN d.steps[k].refs :
        /\ d.steps[k].id = d.imports[i].from
        /\ d.imports[i].name \in library[d.steps[k].refs[r]].exports

DeclaredImportsArrive ==
    verdict # "running" =>
        LET c == rows[Len(rows)].case
        IN  DeclaredImporter(library[c]) => payloads[c].set

(***************************************************************************)
(* No failure is hidden: when the documents only have MUST steps that fail *)
(* fast, a run that passes has no failed row, at any depth.                *)
(***************************************************************************)
AllMust ==
    \A c \in Cases : \A k \in DOMAIN library[c].steps :
        /\ library[c].failFast
        /\ library[c].steps[k].class = "MUST"
        /\ ~library[c].steps[k].cont

PassHidesNoFailure ==
    AllMust /\ verdict = "pass" => \A i \in DOMAIN rows : rows[i].status = "pass"

(***************************************************************************)
(* What a pass says of the chain (execute_case_chain): the harness that    *)
(* passed was allowed to start, and no row below it failed unseen.         *)
(***************************************************************************)
PassMeansChainHeld == ChainHeldBeforeHarness /\ PassHidesNoFailure

(***************************************************************************)
(* Every top-level run ends, whatever loops the references make: the set   *)
(* of active keys bounds the depth and a frame never goes back a step.     *)
(***************************************************************************)
Termination == <>(verdict # "running")

(***************************************************************************)
(* ChainExecution does what run_case promises (CaseNesting).               *)
(***************************************************************************)
Nesting == INSTANCE CaseNesting WITH
    open <- [i \in DOMAIN stack |-> stack[i].case],
    unwinding <- stack # <<>> /\ Top.pc = "back" /\ Top.got = "abort"

ImplementsCaseNesting == Nesting!Spec
=============================================================================
