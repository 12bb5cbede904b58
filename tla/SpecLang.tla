------------------------------ MODULE SpecLang ------------------------------
(***************************************************************************)
(* The evaluator of the expression language (spec_lang.py): environments,  *)
(* the step budget, symbols and imports, functions and curried builtins,   *)
(* the lazy builtins, and the builtins that act on the world.              *)
(*                                                                         *)
(* An expression is a scalar value, a dict of expressions, [items |-> ...] *)
(* for a list that starts with no symbol, or a list that does:             *)
(* [op, std, names, args], where std tells a canonical name ("std.math.add")*)
(* from a short one, and names are the variables of var, fn and let.       *)
(* An evaluation threads a state s and gives [v, s].  Left out: the wall   *)
(* clock budget, sort and sort_by, and the white space around names.       *)
(***************************************************************************)
EXTENDS SpecValues

CONSTANTS
    Programs,  \* command -> [code, long]: its exit code, and whether it outlasts any timeout
    Helpers,   \* helper -> [kind |-> "error", "result", "exit", "echo", v |-> ...]
    Jobs,      \* job -> [helper, inputs]
    Overrides  \* the inputs the environment overrides

SpecialForms == {"if", "let", "fn", "call", "var", "lit"}
Higher == [op \in {"map", "filter", "reject", "find", "partition", "group_by", "uniq_by", "where", "default_to"} |-> 2]
          @@ [op \in {"reduce", "zip_with", "compose", "pipe"} |-> 3]
World == ("exec" :> 2) @@ ("exit_code" :> 0) @@ ("helper_call" :> 2) @@ ("job_dispatch" :> 1)
Arity == [op \in DOMAIN Signature |-> Len(Signature[op])] @@ Higher @@ World @@ ("subject" :> 0)
Builtins == DOMAIN Arity

Closure(params, body, env) == [fn |-> [params |-> params, body |-> body, env |-> env]]
Builtin(op, bound) == [builtin |-> [op |-> op, bound |-> bound]]
Callable(v) == Is("fn", v) \/ Is("builtin", v)
IsScalar(e) == DOMAIN e \cap {"null", "bool", "num", "str"} # {}

(* heap: the frames, [vars, up], 0 is no frame; ran: what was done outside. *)
Start(program) ==
    [heap |-> <<[vars |-> program.symbols, up |-> 0]>>, steps |-> 0, max |-> program.max,
     subject |-> program.subject, caps |-> program.caps, imports |-> program.imports,
     code |-> Null, ran |-> <<>>]

Ok(v, s) == [v |-> v, s |-> s]
Fail(kind, s) == [v |-> Err(kind), s |-> s]

Unset == [unset |-> TRUE]
RECURSIVE Lookup(_, _, _)
Lookup(heap, env, name) ==
    IF env = 0 THEN Err("undefined")
    ELSE IF name \in DOMAIN heap[env].vars
         THEN IF heap[env].vars[name] = Unset THEN Err("uninitialized") ELSE heap[env].vars[name]
    ELSE Lookup(heap, heap[env].up, name)
PushFrame(vars, up, s) == [s EXCEPT !.heap = Append(@, [vars |-> vars, up |-> up])]

(* A canonical name means its builtin; a short name means what it was      *)
(* imported as, and only then the builtin of that name.                    *)
Resolve(e, imports) ==
    CASE e.op \in SpecialForms -> e.op
      [] e.std -> IF e.op \in Builtins THEN e.op ELSE "unsupported"
      [] e.op \in DOMAIN imports -> imports[e.op]
      [] OTHER -> IF e.op \in Builtins THEN e.op ELSE "unsupported"

-----------------------------------------------------------------------------
(* Builtins that act on the world.                                         *)

Needs == [exec |-> "ops.os", exit_code |-> "ops.os", helper_call |-> "ops.helper", job_dispatch |-> "ops.job"]

(* A program is killed at its timeout, if it has one; timeout 0 has none.  *)
RunProgram(cmd, timeout, s) ==
    LET after == [s EXCEPT !.ran = Append(@, "program")]
    IN  IF Programs[cmd].long /\ timeout = 0 THEN Fail("hangs", after)
        ELSE LET code == Num(IF Programs[cmd].long THEN -9 ELSE Programs[cmd].code)
             IN  Ok(code, [after EXCEPT !.code = code])

HelperCall(helper, payload, s) ==
    IF helper \notin DOMAIN Helpers THEN Fail("helper", s)
    ELSE CASE Helpers[helper].kind = "error" -> Fail("helper", s)
           [] Helpers[helper].kind = "result" -> Ok(Helpers[helper].v, s)
           [] Helpers[helper].kind = "exit" -> Fail("helper", [s EXCEPT !.ran = Append(@, "helper")])
           [] Helpers[helper].kind = "echo" -> Ok(payload, [s EXCEPT !.ran = Append(@, "helper")])

(* The inputs of a job: its own, over them the environment's, over them    *)
(* the call's, over all of them the fields the dispatch itself sets.       *)
MergedInputs(job, overrides) == overrides @@ Overrides @@ Jobs[job].inputs
Dispatch(job, overrides, s) ==
    IF job \notin DOMAIN Jobs THEN Fail("job", s)
    ELSE HelperCall(Jobs[job].helper,
                    Dict(("_job_name" :> Str(job)) @@ MergedInputs(job, overrides)), s)

Act(op, args, s) ==
    CASE Needs[op] \notin s.caps -> Fail("capability", s)
      [] op = "exec" -> IF ~Is("list", args[1]) \/ args[1].list = <<>> \/ ~Is("num", args[2]) THEN Fail("type", s)
                        ELSE IF args[2].num < 0 THEN Fail("type", s)
                        ELSE RunProgram(KeyOf(Head(args[1].list)), args[2].num, s)
      [] op = "exit_code" -> Ok(s.code, s)
      [] ~Is("str", args[1]) -> Fail("type", s)
      [] op = "helper_call" -> HelperCall(args[1].str, args[2], s)
      [] op = "job_dispatch" ->
            IF Len(args) = 1 \/ args[2] = Null THEN Dispatch(args[1].str, <<>>, s)
            ELSE IF Is("dict", args[2]) THEN Dispatch(args[1].str, args[2].dict, s) ELSE Fail("type", s)

(* A builtin on evaluated arguments.  The builtins that take functions     *)
(* have an arity but no case here.                                         *)
EagerOp(op, args, s) ==
    CASE op \in DOMAIN World ->
            IF Len(args) = Arity[op] \/ (op = "job_dispatch" /\ Len(args) > 1) THEN Act(op, args, s)
            ELSE Fail("arity", s)
      [] op \in DOMAIN Higher -> Fail("unsupported", s)
      [] op = "subject" -> IF args = <<>> THEN Ok(s.subject, s) ELSE Fail("arity", s)
      [] OTHER -> Ok(Eager(op, args), s)

-----------------------------------------------------------------------------
(* Evaluation.                                                              *)

RECURSIVE EvalTail(_, _, _), EvalAll(_, _, _, _), EvalUntil(_, _, _, _), ApplyTo(_, _, _),
          ApplyEach(_, _, _, _), Reduce(_, _, _, _), WhereHolds(_, _, _, _)

(* Slip: the arguments beyond the arity are dropped. *)
DropsTheRest(fn, args, s) ==
    LET all == fn.bound \o args
        n == Arity[fn.op]
    IN  IF Len(all) < n THEN Ok(Builtin(fn.op, all), s)
        ELSE EagerOp(fn.op, SubSeq(all, 1, n), s)
(* Fewer arguments than the arity are kept for later; more are given to    *)
(* the result, which must be a function.                                   *)
ApplyCurried(fn, args, s) ==
    LET all == fn.bound \o args
        n == Arity[fn.op]
    IN  IF Len(all) < n THEN Ok(Builtin(fn.op, all), s)
        ELSE LET r == EagerOp(fn.op, SubSeq(all, 1, n), s)
             IN  IF Failed(r.v) \/ Len(all) = n THEN r
                 ELSE IF Callable(r.v) THEN ApplyTo(r.v, SubSeq(all, n + 1, Len(all)), r.s)
                 ELSE Fail("arity", r.s)

(* The text of a canonical name is as good as the builtin. *)
ApplyTo(f, args, s) ==
    CASE Is("fn", f) ->
            IF Len(args) # Len(f.fn.params) THEN Fail("arity", s)
            ELSE LET vars == [p \in ToSet(f.fn.params) |-> args[CHOOSE i \in 1 .. Len(args) : f.fn.params[i] = p]]
                     t == PushFrame(vars, f.fn.env, s)
                 IN  EvalTail(f.fn.body, Len(t.heap), t)
      [] Is("builtin", f) -> ApplyCurried(f.builtin, args, s)
      [] Is("str", f) /\ f.str \in Builtins -> ApplyCurried([op |-> f.str, bound |-> <<>>], args, s)
      [] OTHER -> Fail("type", s)

(* The expressions in their order; the first that fails is the result. *)
EvalAll(es, done, env, s) ==
    IF Len(done) = Len(es) THEN Ok(List(done), s)
    ELSE LET r == EvalTail(es[Len(done) + 1], env, s)
         IN  IF Failed(r.v) THEN r ELSE EvalAll(es, Append(done, r.v), env, r.s)

(* and, or, coalesce: no further than the first that decides. *)
Decides(op, v) ==
    CASE op = "and" -> ~Truthy(v)
      [] op = "or" -> Truthy(v)
      [] op = "coalesce" -> v \notin {Null, Str("")}
Decided(op, v) == IF op = "coalesce" THEN v ELSE Bool(op = "or")
Undecided(op) == IF op = "coalesce" THEN Null ELSE Bool(op = "and")
EvalUntil(op, es, env, s) ==
    IF es = <<>> THEN Ok(Undecided(op), s)
    ELSE LET r == EvalTail(Head(es), env, s)
         IN  IF Failed(r.v) THEN r
             ELSE IF Decides(op, r.v) THEN Ok(Decided(op, r.v), r.s)
             ELSE EvalUntil(op, Tail(es), env, r.s)

(* f on every tuple of arguments, or, to find, up to the first that holds. *)
ApplyEach(op, f, tuples, s) ==
    IF tuples = <<>> THEN Ok(List(<<>>), s)
    ELSE LET r == ApplyTo(f, Head(tuples), s)
         IN  IF Failed(r.v) THEN r
             ELSE IF op = "find" /\ Truthy(r.v) THEN Ok(List(<<r.v>>), r.s)
             ELSE LET rest == ApplyEach(op, f, Tail(tuples), r.s)
                  IN  IF Failed(rest.v) THEN rest ELSE Ok(List(<<r.v>> \o rest.v.list), rest.s)

Reduce(f, acc, items, s) ==
    IF items = <<>> THEN Ok(acc, s)
    ELSE LET r == ApplyTo(f, <<acc, Head(items)>>, s)
         IN  IF Failed(r.v) THEN r ELSE Reduce(f, r.v, Tail(items), r.s)

(* Every key of the map: a predicate that holds or a value that is equal. *)
WhereHolds(keys, want, have, s) ==
    IF keys = <<>> THEN Ok(Bool(TRUE), s)
    ELSE LET actual == OrElse(Step(Dict(have), Str(Head(keys))), Null)
             r == IF Callable(want[Head(keys)]) THEN ApplyTo(want[Head(keys)], <<actual>>, s)
                  ELSE Ok(Bool(DeepEquals(actual, want[Head(keys)])), s)
         IN  IF Failed(r.v) THEN r
             ELSE IF Truthy(r.v) THEN WhereHolds(Tail(keys), want, have, r.s)
             ELSE Ok(Bool(FALSE), r.s)

Wrap(items) == [i \in 1 .. Len(items) |-> <<items[i]>>]
Where(items, marks, wanted) ==
    LET places == SelectSeq([i \in 1 .. Len(items) |-> i], LAMBDA i : Truthy(marks[i]) = wanted)
    IN  [i \in 1 .. Len(places) |-> items[places[i]]]
FirstOfEach(items, marks) ==
    LET places == SelectSeq([i \in 1 .. Len(items) |-> i],
                            LAMBDA i : \A j \in 1 .. i - 1 : ~DeepEquals(marks[i], marks[j]))
    IN  [i \in 1 .. Len(places) |-> items[places[i]]]
GroupsOf(items, marks) ==
    [k \in KeysIn(marks) |->
        List(Where(items, [i \in 1 .. Len(marks) |-> Bool(KeyOf(marks[i]) = k)], TRUE))]

(* What the collection builtins make of the results of their function. *)
Collected(op, items, marks) ==
    CASE op = "map" -> List(marks)
      [] op = "filter" -> List(Where(items, marks, TRUE))
      [] op = "reject" -> List(Where(items, marks, FALSE))
      [] op = "find" -> IF marks # <<>> /\ Truthy(Last(marks)) THEN items[Len(marks)] ELSE Null
      [] op = "partition" -> List(<<List(Where(items, marks, TRUE)), List(Where(items, marks, FALSE))>>)
      [] op = "group_by" -> Dict(GroupsOf(items, marks))
      [] op = "uniq_by" -> List(FirstOfEach(items, marks))
OneItem == {"map", "filter", "reject", "find", "partition", "group_by", "uniq_by"}

(* The builtins with a function, on evaluated arguments. *)
ApplyHigher(op, a, s) ==
    CASE op \in OneItem ->
            IF ~Is("list", a[2]) THEN Fail("type", s)
            ELSE LET r == ApplyEach(op, a[1], Wrap(a[2].list), s)
                 IN  IF Failed(r.v) THEN r ELSE Ok(Collected(op, a[2].list, r.v.list), r.s)
      [] op = "reduce" -> IF Is("list", a[3]) THEN Reduce(a[1], a[2], a[3].list, s) ELSE Fail("type", s)
      [] op = "zip_with" -> IF Is("list", a[2]) /\ Is("list", a[3])
                            THEN LET pairs == Pair("zip", a[2].list, a[3].list).list
                                 IN  ApplyEach(op, a[1], [i \in 1 .. Len(pairs) |-> pairs[i].list], s)
                            ELSE Fail("type", s)
      [] op = "where" -> IF Is("dict", a[1]) /\ Is("dict", a[2])
                         THEN WhereHolds(EntriesOf(a[1].dict), a[1].dict, a[2].dict, s)
                         ELSE Fail("type", s)
      [] op = "default_to" -> Ok(IF a[2] \in {Null, Str("")} THEN a[1] ELSE a[2], s)
      [] op = "compose" -> LET r == ApplyTo(a[2], <<a[3]>>, s)
                           IN  IF Failed(r.v) THEN r ELSE ApplyTo(a[1], <<r.v>>, r.s)
      [] op = "pipe" -> LET r == ApplyTo(a[1], <<a[3]>>, s)
                        IN  IF Failed(r.v) THEN r ELSE ApplyTo(a[2], <<r.v>>, r.s)

OnSubject == {"json_type", "has_key"}

EvalBuiltin(op, es, env, s) ==
    CASE op \in {"and", "or", "coalesce"} ->
            IF es = <<>> THEN Fail("arity", s) ELSE EvalUntil(op, es, env, s)
      [] op \in OnSubject /\ Len(es) \notin {1, 2} -> Fail("arity", s)
      [] op \in DOMAIN Higher \cup {"not"} /\ Len(es) # Arity[op] -> Fail("arity", s)
      [] OTHER ->
            LET r == EvalAll(es, <<>>, env, s)
            IN  IF Failed(r.v) THEN r
                ELSE IF op \in DOMAIN Higher THEN ApplyHigher(op, r.v.list, r.s)
                ELSE EagerOp(op, IF op \in OnSubject /\ Len(es) = 1 THEN <<s.subject>> \o r.v.list
                                 ELSE r.v.list, r.s)

-----------------------------------------------------------------------------
(* The frame holds every name before any value: a value that reads a later *)
(* name fails, a function that is called later does not.                   *)
RECURSIVE FillFrame(_, _, _, _)
FillFrame(names, es, env, s) ==
    IF names = <<>> THEN Ok(Null, s)
    ELSE LET r == EvalTail(Head(es), env, s)
         IN  IF Failed(r.v) THEN r
             ELSE FillFrame(Tail(names), Tail(es), env, [r.s EXCEPT !.heap[env].vars[Head(names)] = r.v])

Repeats(names) == Len(names) # Cardinality(ToSet(names))
Frame(names, up, s) == PushFrame([n \in ToSet(names) |-> Unset], up, s)

EvalLet(e, env, s) ==
    IF Repeats(e.names) THEN Fail("duplicate", s)
    ELSE LET t == Frame(e.names, env, s)
             r == FillFrame(e.names, Front(e.args), Len(t.heap), t)
         IN  IF Failed(r.v) THEN r ELSE EvalTail(Last(e.args), Len(t.heap), r.s)

EvalCall(es, env, s) ==
    LET r == EvalAll(es, <<>>, env, s)
    IN  IF Failed(r.v) THEN r ELSE ApplyTo(Head(r.v.list), Tail(r.v.list), r.s)

EvalSymbol(e, env, s) ==
    LET op == Resolve(e, s.imports)
    IN  CASE op = "unsupported" -> Fail("unsupported", s)
          [] op = "if" -> LET r == EvalTail(e.args[1], env, s)
                          IN  IF Failed(r.v) THEN r ELSE EvalTail(e.args[IF Truthy(r.v) THEN 2 ELSE 3], env, r.s)
          [] op = "lit" -> Ok(e.args[1], s)
          [] op = "let" -> EvalLet(e, env, s)
          [] op = "fn" -> IF Repeats(e.names) THEN Fail("duplicate", s)
                          ELSE Ok(Closure(e.names, e.args[1], env), s)
          [] op = "call" -> EvalCall(e.args, env, s)
          [] op = "var" -> IF e.std THEN Ok(Builtin(e.names[1], <<>>), s)
                           ELSE Ok(Lookup(s.heap, env, e.names[1]), s)
          [] OTHER -> EvalBuiltin(op, e.args, env, s)

(* Slip: one step less is allowed. *)
StepTooFew(s) == s.steps >= s.max
Exhausted(s) == s.steps > s.max

(* One step for every expression, also for a tail call. *)
EvalTail(e, env, s0) ==
    LET s == [s0 EXCEPT !.steps = @ + 1]
    IN  CASE Exhausted(s) -> Fail("budget", s)
          [] IsScalar(e) -> Ok(e, s)
          [] Is("dict", e) ->
                LET keys == EntriesOf(e.dict)
                    r == EvalAll([i \in 1 .. Len(keys) |-> e.dict[keys[i]]], <<>>, env, s)
                IN  IF Failed(r.v) THEN r
                    ELSE Ok(Dict([k \in ToSet(keys) |-> r.v.list[CHOOSE i \in 1 .. Len(keys) : keys[i] = k]]), r.s)
          [] Is("items", e) -> EvalAll(e.items, <<>>, env, s)
          [] OTHER -> EvalSymbol(e, env, s)

(* compile_symbol_bindings: all names first, then the values in order. *)
CompileSymbols(names, es, s) ==
    IF Repeats(names) THEN Fail("duplicate", s)
    ELSE LET t == Frame(names, 0, s) IN FillFrame(names, es, Len(t.heap), t)

(* eval_expr: imported names are variables too, over the symbols given. *)
EvalExpr(program) ==
    LET s == Start(program)
        imported == [n \in DOMAIN program.imports |-> Builtin(program.imports[n], <<>>)]
    IN  EvalTail(program.expr, 1, [s EXCEPT !.heap[1].vars = imported @@ @])

-----------------------------------------------------------------------------
(* What the expression language promises of its evaluator. *)

E(op, args) == [op |-> op, std |-> TRUE, names |-> <<>>, args |-> args]
Short(op, args) == [op |-> op, std |-> FALSE, names |-> <<>>, args |-> args]
Lit(v) == E("lit", <<v>>)
Var(name) == [op |-> "var", std |-> FALSE, names |-> <<name>>, args |-> <<>>]
Fun(op) == [op |-> "var", std |-> TRUE, names |-> <<op>>, args |-> <<>>]
Fn(params, body) == [op |-> "fn", std |-> TRUE, names |-> params, args |-> <<body>>]
Let(names, es) == [op |-> "let", std |-> TRUE, names |-> names, args |-> es]
Call(f, es) == E("call", <<f>> \o es)

Plain(expr) == [expr |-> expr, subject |-> Num(7), max |-> 60, symbols |-> <<>>, imports |-> <<>>,
                caps |-> {"ops.os", "ops.helper", "ops.job"}]
ValueOf(expr) == EvalExpr(Plain(expr)).v
SameOutcome(a, b) == IF Failed(a) THEN Failed(b) ELSE a = b

(* The step budget only stops an evaluation: with as many steps as the     *)
(* program takes, and with more, its result and its effects are the same,  *)
(* with fewer it ends with a budget error and a prefix of the effects.     *)
BudgetOnlyStops(program) ==
    LET whole == EvalExpr(program)
    IN  \A max \in 1 .. program.max :
            LET r == EvalExpr([program EXCEPT !.max = max])
            IN  /\ IsPrefix(r.s.ran, whole.s.ran)
                /\ IF max >= whole.s.steps THEN r.v = whole.v /\ r.s.steps = whole.s.steps
                   ELSE r.v = Err("budget")

(* What a program does outside needs its capability, however the builtin   *)
(* is reached: by its name, by an import, as an argument, argument by      *)
(* argument.                                                               *)
NothingWithoutCapability(program) ==
    LET done == ToSet(EvalExpr(program).s.ran)
    IN  /\ "program" \in done => "ops.os" \in program.caps
        /\ "helper" \in done => program.caps \cap {"ops.helper", "ops.job"} # {}

(* A builtin called by its name, as a function value, and argument by      *)
(* argument comes to the same (the currying contract).                     *)
CallsAgree(op, es) ==
    LET direct == ValueOf(E(op, es))
        applied == ValueOf(Call(Fun(op), es))
        curried == ValueOf(FoldLeft(LAMBDA f, e : Call(f, <<e>>), Fun(op), es))
    IN  SameOutcome(direct, applied) /\ (es # <<>> => SameOutcome(applied, curried))

(* What is left over after the arity goes to the result, which must be a   *)
(* function.                                                               *)
OverApplies(op, es, more) ==
    LET r == ValueOf(Call(Fun(op), es))
        both == ValueOf(Call(Fun(op), es \o more))
    IN  IF Failed(r) \/ ~Callable(r) THEN Failed(both)
        ELSE SameOutcome(both, ValueOf(Call(Call(Fun(op), es), more)))

(* A function reads its free variable where it was made, not where it is   *)
(* called: calling it under another binding of the name is its body with   *)
(* the parameter bound.                                                    *)
ScopeIsLexical(body, outer, inner, arg) ==
    SameOutcome(
        ValueOf(Let(<<"v", "f">>, <<outer, Fn(<<"x">>, body),
                    Let(<<"v">>, <<inner, Call(Var("f"), <<arg>>)>>)>>)),
        ValueOf(Let(<<"v", "x">>, <<outer, arg, body>>)))

(* The functions of a let see each other in whatever order they are bound. *)
FunctionsSeeEachOther(one, other, body) ==
    SameOutcome(ValueOf(Let(<<"f", "g">>, <<Fn(<<"x">>, one), Fn(<<"x">>, other), body>>)),
                ValueOf(Let(<<"g", "f">>, <<Fn(<<"x">>, other), Fn(<<"x">>, one), body>>)))

(* A canonical name means its builtin whatever short names are imported as. *)
ImportsOnlyShorten(expr, imports) ==
    EvalExpr([Plain(expr) EXCEPT !.imports = imports]).v = ValueOf(expr)
=============================================================================
