---------------------------- MODULE AssertionRun ----------------------------
(***************************************************************************)
(* How a harness decides a case once it has its subjects:                  *)
(* run_assertions_with_context and the clause loop of                      *)
(* evaluate_internal_assert_tree, with the lifecycle hooks of `when`.      *)
(* The outcome of a predicate or of a hook expression is the               *)
(* environment's choice; what is kept is the order of evaluation, what is  *)
(* counted, what is swallowed and what is raised.                          *)
(***************************************************************************)
EXTENDS Naturals, Sequences, FiniteSets

CONSTANT Cases  \* the case documents a run may start with

Events == {"required", "optional", "fail", "complete"}
Harnesses == {"text.file", "cli.run"}  \* text.file stands for every other one

Case == [clauses : Seq([required : BOOLEAN, checks : Nat \ {0}]),
         when : [Events -> Nat],        \* expressions per hook
         whenShape : {"ok", "invalid"},
         lint : {"clean", "refused"},
         harness : Harnesses]

ASSUME CasesAssumption == Cases \subseteq Case

VARIABLES
    case,     \* the case being decided
    pc,       \* "start", "check", "pass_hook", "fail_hook", "complete_hook", "done"
    clause,   \* index of the clause the loop is at
    at,       \* index of the check, or of the hook expression, that is next
    raised,   \* the exception in flight, or "none"
    totals,   \* the counters handed to the hooks
    verdict,  \* "running", then the outcome the caller sees
    log       \* every predicate and hook expression evaluated, in order

vars == <<case, pc, clause, at, raised, totals, verdict, log>>

Raised == {"none", "assertion", "error", "interrupt"}
NoTotals == [passed |-> 0, failed |-> 0, requiredPassed |-> 0, optionalPassed |-> 0]

(* A predicate leaf wraps whatever it raises: an interrupt, too, comes out *)
(* as a RuntimeError.                                                      *)
CheckResults == {"holds", "fails", "errs", "interrupted"}
RaisedByCheck(r) == IF r = "fails" THEN "assertion" ELSE "error"

(* A hook expression that errs or is falsy is a RuntimeError; an interrupt *)
(* is not an Exception and passes through.                                 *)
HookResults == {"holds", "falsy", "errs", "interrupted"}
RaisedByHook(r) == IF r = "interrupted" THEN "interrupt" ELSE "error"

(* cli.run hands the engine an empty raw case, so its hooks are not seen. *)
Hooks(event) == IF case.harness = "cli.run" THEN 0 ELSE case.when[event]

Logged(event, r) ==
    Append(log, [event |-> event, clause |-> clause, at |-> at, result |-> r, totals |-> totals])

Required == case.clauses[clause].required
PassEvent == IF Required THEN "required" ELSE "optional"

-----------------------------------------------------------------------------
(* Slip: the loop runs once more than there are clauses. *)
NextClauseTooFar ==
    /\ clause' = clause + 1
    /\ at' = 1
    /\ pc' = IF clause > Len(case.clauses) THEN "complete_hook" ELSE "check"
NextClause ==
    /\ clause' = clause + 1
    /\ at' = 1
    /\ pc' = IF clause = Len(case.clauses) THEN "complete_hook" ELSE "check"

CountFailed == [totals EXCEPT !.failed = @ + 1]

(* Slip: only a failed predicate blocks, not an error. *)
BlocksOnAssertion(e) == Required /\ e = "assertion"
Blocks(e) == Required

(* Slip: the loop is left at the first clause that fails, required or not. *)
ClauseBreaks(e) ==
    /\ totals' = CountFailed
    /\ pc' = IF Required THEN "fail_hook" ELSE "complete_hook"
    /\ clause' = IF Required THEN clause ELSE Len(case.clauses) + 1
    /\ at' = 1
    /\ raised' = IF Required THEN e ELSE raised

(* except BaseException around the clause: count it; a required clause     *)
(* runs the fail hook and raises, an optional one is left behind.          *)
ClauseRaises(e) ==
    /\ totals' = CountFailed
    /\ IF Blocks(e)
       THEN /\ pc' = "fail_hook"
            /\ at' = 1
            /\ raised' = e
            /\ UNCHANGED clause
       ELSE /\ NextClause
            /\ UNCHANGED raised

End(e) ==
    /\ pc' = "done"
    /\ raised' = e
    /\ verdict' = IF e = "none" THEN "pass" ELSE e

-----------------------------------------------------------------------------
(* Lint and hook parsing come first; a refusal evaluates nothing. *)
Start ==
    /\ pc = "start"
    /\ IF case.lint = "refused" THEN /\ End("assertion")
                                     /\ UNCHANGED <<clause, at>>
       ELSE IF case.whenShape = "invalid" /\ case.harness # "cli.run"
       THEN /\ End("error")
            /\ UNCHANGED <<clause, at>>
       ELSE /\ pc' = IF case.clauses = <<>> THEN "complete_hook" ELSE "check"
            /\ clause' = 1
            /\ at' = 1
            /\ UNCHANGED <<raised, verdict>>
    /\ UNCHANGED <<case, totals, log>>

(* The checks of a clause are a MUST group: in order, up to the first that *)
(* raises.                                                                 *)
EvalCheck ==
    /\ pc = "check"
    /\ at <= case.clauses[clause].checks
    /\ \E r \in CheckResults :
        /\ log' = Logged("check", r)
        /\ IF r = "holds"
           THEN /\ at' = at + 1
                /\ UNCHANGED <<pc, clause, raised, totals>>
           ELSE ClauseRaises(RaisedByCheck(r))
    /\ UNCHANGED <<case, verdict>>

CountedPassed ==
    IF Required THEN [totals EXCEPT !.passed = @ + 1, !.requiredPassed = @ + 1]
                ELSE [totals EXCEPT !.passed = @ + 1, !.optionalPassed = @ + 1]

ClausePasses ==
    /\ pc = "check"
    /\ at > case.clauses[clause].checks
    /\ totals' = CountedPassed
    /\ pc' = "pass_hook"
    /\ at' = 1
    /\ UNCHANGED <<case, clause, raised, verdict, log>>

(* The pass hook runs inside the clause's try: its failure is the clause's. *)
PassHook ==
    /\ pc = "pass_hook"
    /\ IF at > Hooks(PassEvent)
       THEN /\ NextClause
            /\ UNCHANGED <<raised, totals, log>>
       ELSE \E r \in HookResults :
            /\ log' = Logged(PassEvent, r)
            /\ IF r = "holds"
               THEN /\ at' = at + 1
                    /\ UNCHANGED <<pc, clause, raised, totals>>
               ELSE ClauseRaises(RaisedByHook(r))
    /\ UNCHANGED <<case, verdict>>

(* Slip: once the hook has handled the failure, its class is lost. *)
FailureHandled(e) == "error"
FailureAfterHook(e) == e

(* The fail hook runs in the handler; the clause's exception is raised     *)
(* again after it, unless the hook raises its own.                         *)
FailHook ==
    /\ pc = "fail_hook"
    /\ IF at > Hooks("fail")
       THEN /\ End(FailureAfterHook(raised))
            /\ UNCHANGED <<at, log>>
       ELSE \E r \in HookResults :
            /\ log' = Logged("fail", r)
            /\ IF r = "holds"
               THEN /\ at' = at + 1
                    /\ UNCHANGED <<pc, raised, verdict>>
               ELSE /\ End(RaisedByHook(r))
                    /\ UNCHANGED at
    /\ UNCHANGED <<case, clause, totals>>

CompleteHook ==
    /\ pc = "complete_hook"
    /\ IF at > Hooks("complete")
       THEN /\ End("none")
            /\ UNCHANGED <<at, log>>
       ELSE \E r \in HookResults :
            /\ log' = Logged("complete", r)
            /\ IF r = "holds"
               THEN /\ at' = at + 1
                    /\ UNCHANGED <<pc, raised, verdict>>
               ELSE /\ End(RaisedByHook(r))
                    /\ UNCHANGED at
    /\ UNCHANGED <<case, clause, totals>>

(* The caller has its verdict; the system stops here. *)
Finished == pc = "done" /\ UNCHANGED vars

-----------------------------------------------------------------------------
Init ==
    /\ case \in Cases
    /\ pc = "start"
    /\ clause = 0
    /\ at = 0
    /\ raised = "none"
    /\ totals = NoTotals
    /\ verdict = "running"
    /\ log = <<>>

Evaluate == Start \/ EvalCheck \/ ClausePasses \/ PassHook \/ FailHook \/ CompleteHook
Next == Evaluate \/ Finished

Spec == Init /\ [][Next]_vars

-----------------------------------------------------------------------------
(* What the run of a case must keep.                                       *)

Totals == [passed : Nat, failed : Nat, requiredPassed : Nat, optionalPassed : Nat]
Entry == [event : Events \cup {"check"}, clause : Nat, at : Nat,
          result : CheckResults \cup HookResults, totals : Totals]

(***************************************************************************)
(* Every variable has its shape, and the loop only ever stands at a clause *)
(* the case has, or behind the last one.                                   *)
(***************************************************************************)
ControlOK ==
    /\ case \in Cases
    /\ pc \in {"start", "check", "pass_hook", "fail_hook", "complete_hook", "done"}
    /\ clause \in 0 .. Len(case.clauses) + 1
    /\ at \in Nat
    /\ raised \in Raised
    /\ totals \in Totals
    /\ verdict \in {"running", "pass"} \cup (Raised \ {"none"})
    /\ pc \in {"check", "pass_hook", "fail_hook"} => clause \in DOMAIN case.clauses

TypeOK == ControlOK /\ log \in Seq(Entry)

-----------------------------------------------------------------------------
RequiredClause(i) == i \in DOMAIN case.clauses /\ case.clauses[i].required
Failed(e) == e.result # "holds"

(* Check c of clause i is in l, and held; all checks of clause i are. *)
CheckHeld(l, i, c) ==
    \E k \in DOMAIN l : /\ l[k].event = "check" /\ l[k].clause = i
                        /\ l[k].at = c /\ ~Failed(l[k])
Held(l, i) == \A c \in 1 .. case.clauses[i].checks : CheckHeld(l, i, c)

(* A failure the case must not survive. *)
Blocking(e) == Failed(e) /\ (e.event \in {"fail", "complete"} \/ RequiredClause(e.clause))

(***************************************************************************)
(* "`required: true` (or omitted): predicate failure fails the case": a    *)
(* case that passes evaluated every check of every required clause, and    *)
(* none of them, and none of the hooks of those clauses, failed.           *)
(***************************************************************************)
PassMeansRequiredHeld ==
    verdict = "pass" =>
        /\ \A i \in DOMAIN case.clauses : case.clauses[i].required => Held(log, i)
        /\ \A k \in DOMAIN log : ~Blocking(log[k])

(***************************************************************************)
(* After a blocking failure nothing but the fail hook is evaluated, and    *)
(* the case can no longer pass.                                            *)
(***************************************************************************)
OnlyFailHookRuns ==
    (\E k \in DOMAIN log : Blocking(log[k])) =>
        /\ log' # log => log'[Len(log')].event = "fail"
        /\ verdict' # "pass"

BlockingFailureStops == [][OnlyFailHookRuns]_vars

(***************************************************************************)
(* The counters: every hook is handed, and the run ends with, what really  *)
(* happened so far.  A clause whose pass hook failed counts on both sides. *)
(***************************************************************************)
Counts(l) ==
    LET passed == {i \in DOMAIN case.clauses : Held(l, i)}
        failed == {i \in DOMAIN case.clauses :
                    \E k \in DOMAIN l : /\ Failed(l[k]) /\ l[k].clause = i
                                        /\ l[k].event \notin {"fail", "complete"}}
    IN  [passed |-> Cardinality(passed),
         failed |-> Cardinality(failed),
         requiredPassed |-> Cardinality({i \in passed : case.clauses[i].required}),
         optionalPassed |-> Cardinality({i \in passed : ~case.clauses[i].required})]

TotalsAreTrue ==
    /\ \A k \in DOMAIN log :
        log[k].event # "check" => log[k].totals = Counts(SubSeq(log, 1, k - 1))
    /\ pc = "done" => totals = Counts(log)

(***************************************************************************)
(* What the caller sees is the first blocking failure, unless a hook that  *)
(* handled it failed itself: a failed assertion is not reported as a       *)
(* runtime error, nor the other way round.                                 *)
(***************************************************************************)
RaisedBy(e) ==
    IF e.event = "check" THEN RaisedByCheck(e.result) ELSE RaisedByHook(e.result)

FirstFailureReported ==
    (verdict \notin {"running", "pass"} /\ log # <<>>) =>
        LET blocking == {k \in DOMAIN log : Blocking(log[k])}
            reported == IF \E k \in blocking : log[k].event = "fail"
                        THEN CHOOSE k \in blocking : log[k].event = "fail"
                        ELSE CHOOSE k \in blocking : \A j \in blocking : k <= j
        IN  blocking # {} /\ verdict = RaisedBy(log[reported])

(***************************************************************************)
(* What is told of a failure, to hooks and to the caller, is true.         *)
(***************************************************************************)
FailuresAreTold == TotalsAreTrue /\ FirstFailureReported

-----------------------------------------------------------------------------
(* The inductive form of PassMeansRequiredHeld: as long as the run can      *)
(* still pass, nothing blocking is in the log and the required clauses      *)
(* behind the loop held, as did the checks of the clause it is at.          *)
CanPass == pc \in {"check", "pass_hook", "complete_hook"} \/ verdict = "pass"

RunInv ==
    /\ pc = "start" => log = <<>>
    /\ pc # "done" => verdict = "running"
    /\ pc = "fail_hook" => raised # "none"
    /\ CanPass => /\ clause # 0
                  /\ \A k \in DOMAIN log : ~Blocking(log[k])
                  /\ \A i \in DOMAIN case.clauses :
                        (i < clause /\ case.clauses[i].required) => Held(log, i)
    /\ pc = "check" => \A c \in 1 .. at - 1 : CheckHeld(log, clause, c)
    /\ pc = "pass_hook" => Held(log, clause)
    /\ (pc = "complete_hook" \/ verdict = "pass") => clause = Len(case.clauses) + 1
=============================================================================
