-------------------------- MODULE MCChainExecution --------------------------
(***************************************************************************)
(* Small libraries for ChainExecution.  TLC starts a run for each of them. *)
(***************************************************************************)
EXTENDS ChainExecution, TLC

MCCases == {"a", "b", "c"}
MCStepIds == {"s", "t"}
MCNames == {"n", "m", "if"}
MCReserved == {"if"}

Leaf == [known |-> TRUE, type |-> "other", steps |-> <<>>, imports |-> <<>>,
         failFast |-> TRUE, exports |-> {}, required |-> {},
         entries |-> "plain", clauses |-> "mapping"]
UnknownType == [Leaf EXCEPT !.known = FALSE]
Producer(names, required, entries) ==
    [Leaf EXCEPT !.exports = names, !.required = required, !.entries = entries]
ContractExport(names, entries, clauses) ==
    [Producer(names, names, entries) EXCEPT !.type = "contract.export", !.clauses = clauses]

StepOn(id, class, refs) ==
    [id |-> id, class |-> class, refs |-> refs, resolves |-> TRUE, cont |-> FALSE]
ImportAs(from, name, local) == [from |-> from, name |-> name, local |-> local]
Chain(steps) == [Leaf EXCEPT !.steps = steps]
Importing(steps, imports) == [Leaf EXCEPT !.steps = steps, !.imports = imports]

-----------------------------------------------------------------------------
(* Executed steps: every class, with and without allow_continue and        *)
(* fail_fast, over references that pass, fail, loop, are of an unknown     *)
(* type or do not resolve; "b" may have a chain of its own, "c" may loop   *)
(* back to either.                                                         *)

ExecutedSteps ==
    {[StepOn("s", class, refs) EXCEPT !.cont = cont] :
        class \in Classes, cont \in BOOLEAN,
        refs \in {<<>>, <<"b">>, <<"b", "c">>, <<"c", "a">>}}

Outer == {[Chain(<<s>>) EXCEPT !.failFast = ff] : s \in ExecutedSteps, ff \in BOOLEAN}
         \cup {Chain(<<StepOn("s", "MUST", <<"b">>), StepOn("t", class, <<"c">>)>>) :
                class \in Classes}
         \cup {Chain(<<[StepOn("s", "MAY", <<"b">>) EXCEPT !.resolves = FALSE]>>),
               Chain(<<StepOn("s", "MUST", <<"b">>), StepOn("s", "MUST", <<"c">>)>>)}

Middle == {Leaf} \cup {Chain(<<StepOn("s", class, <<"c">>)>>) : class \in Classes}

Inner == {Leaf, UnknownType}
         \cup {Chain(<<StepOn("t", class, <<back>>)>>) :
                class \in {"MUST", "MUST_NOT"}, back \in {"a", "b"}}

ExecutionLibraries ==
    {[c \in MCCases |-> CASE c = "a" -> o [] c = "b" -> m [] c = "c" -> i] :
        o \in Outer, m \in Middle, i \in Inner}

-----------------------------------------------------------------------------
(* Imports: "a" imports from step "s" and, before or after it, executes    *)
(* "b", which may import on its own under the same step id.                *)

ImportSteps ==
    {[StepOn("s", class, refs) EXCEPT !.cont = cont] :
        class \in Classes, cont \in BOOLEAN, refs \in {<<"c">>, <<"c", "b">>, <<>>}}

Importers ==
    UNION {{Importing(<<s>>, <<ImportAs("s", "n", "m")>>),
            Importing(<<s, StepOn("t", "MUST", <<"b">>)>>, <<ImportAs("s", "n", "n")>>),
            Importing(<<StepOn("t", "MAY", <<"b">>), s>>,
                      <<ImportAs("s", "n", "n"), ImportAs("s", "m", "m")>>)} :
        s \in ImportSteps}
    \cup {Importing(<<StepOn("s", "MUST", <<"c">>)>>,
                    <<ImportAs("s", "n", "n"), ImportAs("s", "m", "n")>>),
          Importing(<<StepOn("s", "MUST", <<"c">>)>>, <<ImportAs("s", "n", "if")>>),
          Importing(<<StepOn("s", "MUST", <<"c">>)>>, <<ImportAs("t", "n", "n")>>),
          Importing(<<StepOn("s", "MUST", <<"c">>), StepOn("t", "MUST", <<"b">>)>>,
                    <<ImportAs("s", "n", "n"), ImportAs("t", "m", "m")>>)}

Executed ==
    {Leaf, Producer({"n"}, {"n"}, "plain"), Producer({"m"}, {}, "malformed"),
     [Producer({"n"}, {"n"}, "plain") EXCEPT !.clauses = "list"],
     [Importing(<<StepOn("s", "MUST", <<"c">>)>>, <<ImportAs("s", "n", "n")>>)
        EXCEPT !.exports = {"n"}],
     Chain(<<StepOn("t", "MUST", <<"c">>)>>)}

Producers ==
    {Producer({"n"}, {"n"}, entries) : entries \in {"plain", "documented", "malformed"}}
    \cup {[Producer({"n"}, {"n"}, "plain") EXCEPT !.clauses = "list"],
          Producer({"n", "m"}, {}, "plain"),
          ContractExport({"n", "m"}, "documented", "list"),
          ContractExport({"n", "m"}, "documented", "mapping"),
          ContractExport({"n"}, "plain", "list")}

ImportLibraries ==
    {[c \in MCCases |-> CASE c = "a" -> o [] c = "b" -> m [] c = "c" -> i] :
        o \in Importers, m \in Executed, i \in Producers}

AllLibraries == ExecutionLibraries \cup ImportLibraries
=============================================================================
