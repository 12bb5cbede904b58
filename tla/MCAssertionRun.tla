--------------------------- MODULE MCAssertionRun ---------------------------
(***************************************************************************)
(* Cases for AssertionRun: every one with up to three clauses and any      *)
(* combination of hooks, or the ones that show what a hook does not do.    *)
(***************************************************************************)
EXTENDS AssertionRun, TLC

Clause(required, checks) == [required |-> required, checks |-> checks]
When(r, o, f, c) == "required" :> r @@ "optional" :> o @@ "fail" :> f @@ "complete" :> c

BaseCase == [clauses |-> <<Clause(TRUE, 1)>>, when |-> When(0, 0, 0, 0),
             whenShape |-> "ok", lint |-> "clean", harness |-> "text.file"]
OfClauses(cs, w) == [BaseCase EXCEPT !.clauses = cs, !.when = w]

(* Optional and required clauses in every order, one or two checks each. *)
ClauseLists ==
    {<<>>} \cup
    {<<Clause(r, n)>> : r \in BOOLEAN, n \in 1 .. 2} \cup
    {<<Clause(r, 1), Clause(s, 2)>> : r, s \in BOOLEAN} \cup
    {<<Clause(r, 1), Clause(s, 1), Clause(t, 1)>> : r, s, t \in BOOLEAN}

HookSets == {When(r, o, f, c) : r, o \in 0 .. 1, f \in 0 .. 2, c \in 0 .. 1}

AllCases ==
    {OfClauses(cs, w) : cs \in ClauseLists, w \in HookSets} \cup
    {[BaseCase EXCEPT !.lint = "refused"],
     [BaseCase EXCEPT !.whenShape = "invalid"],
     [BaseCase EXCEPT !.whenShape = "invalid", !.harness = "cli.run"],
     [BaseCase EXCEPT !.when = When(1, 1, 1, 1), !.harness = "cli.run"]}
=============================================================================
