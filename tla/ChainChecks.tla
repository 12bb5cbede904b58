----------------------------- MODULE ChainChecks -----------------------------
(***************************************************************************)
(* The governance checks of harness.chain, which read the text of cases,   *)
(* and the part of the chain engine that decides the same when a case runs *)
(* (governance_runtime.py, chain_engine.py).  A tree is a sequence of      *)
(* cases [doc, id, type, chain, exports, public, clauses], as the loader   *)
(* hands them out: the id may be blank.  A field that may be missing or of *)
(* a wrong kind is None, Bad or [list |-> ...].                            *)
(***************************************************************************)
EXTENDS Naturals, Sequences, SequencesExt, FiniteSets

None == [none |-> TRUE]
Bad == [bad |-> TRUE]
Listed(seq) == [list |-> seq]
Is(kind, v) == kind \in DOMAIN v
IsList(v) == Is("list", v)
ItemsOf(v) == IF IsList(v) THEN v.list ELSE <<>>

Classes == {"MUST", "MAY", "MUST_NOT"}
Reserved == {"subject", "if", "let", "fn", "call", "var"}
Names(set) == set \ {""}

HasChain(case) == Is("steps", case.chain)
Node(case) == <<case.doc, case.id>>
Places(tree) == 1 .. Len(tree)
ChainPlaces(tree) == {i \in Places(tree) : HasChain(tree[i])}
StepsOf(case) == IF HasChain(case) THEN ItemsOf(case.chain.steps) ELSE <<>>
ImportsOf(case) == ItemsOf(case.chain.imports)

-----------------------------------------------------------------------------
(* What the checks take for the cases a step refers to: those of a         *)
(* document, or the one with an id, of the consumer's own document when    *)
(* none is named.  The document is loaded, and nothing of it compiled.     *)
NotFound == [found |-> <<>>, ok |-> FALSE]
ResolveStepCases(tree, consumer, ref) ==
    IF ~Is("doc", ref) \/ (ref.doc = "" /\ ref.id = "") THEN NotFound
    ELSE LET doc == IF ref.doc = "" THEN consumer.doc ELSE ref.doc
             loaded == SelectSeq(tree, LAMBDA c : c.doc = doc)
             named == SelectSeq(loaded, LAMBDA c : c.id = ref.id)
         IN  CASE loaded = <<>> -> NotFound
               [] ref.id = "" -> [found |-> loaded, ok |-> TRUE]
               [] Len(named) = 1 -> [found |-> named, ok |-> TRUE]
               [] OTHER -> NotFound

(* An entry of harness.exports is [as, from, path, doc]; as is prefixed    *)
(* with the domain, which is left out here; all exports are required ones. *)
(* A doc is an unsupported key.                                            *)
EntryOk(entry) == entry.as # "" /\ entry.from = "assert.function" /\ ~entry.doc
ExpandExports(exports) ==
    LET list == ItemsOf(exports)
        named == SelectSeq(list, LAMBDA x : x.as # "")
        names == [i \in 1 .. Len(named) |-> named[i].as]
    IN  [names |-> ToSet(names),
         ok |-> /\ exports = None \/ IsList(exports)
                /\ \A i \in 1 .. Len(list) : EntryOk(list[i])
                /\ Len(names) = Cardinality(ToSet(names))]

(* What a check takes for the exports of a step: those declared, and the   *)
(* public symbols of a library case.                                       *)
Implicit(case) == IF case.type = "spec_lang.export" THEN Names(case.public) ELSE {}
ProducerStepExports(tree, consumer, step) ==
    LET r == ResolveStepCases(tree, consumer, step.ref)
        cases == ToSet(r.found)
    IN  [names |-> UNION {IF ExpandExports(c.exports).ok
                          THEN ExpandExports(c.exports).names \cup Implicit(c) ELSE {} : c \in cases},
         ok |-> r.ok /\ \A c \in cases : ExpandExports(c.exports).ok]

-----------------------------------------------------------------------------
(* The checks: the places of the tree each complains of.                   *)

StepClassRequired(tree) ==
    {i \in ChainPlaces(tree) : \E s \in ToSet(StepsOf(tree[i])) : s.class \notin Classes}

ReferenceResolution(tree) ==
    {i \in ChainPlaces(tree) :
        IF tree[i].chain.exports /\ (~IsList(tree[i].chain.steps) \/ StepsOf(tree[i]) = <<>>) THEN FALSE
        ELSE \/ StepsOf(tree[i]) = <<>>
             \/ \E s \in ToSet(StepsOf(tree[i])) : ~ResolveStepCases(tree, tree[i], s.ref).ok}

(* The exports of a step whose producers have a mistake count as none, and *)
(* of two steps with one id the last one's count.                          *)
CheckedExports(tree, case, id) ==
    LET steps == StepsOf(case)
        last == SelectLastInSeq(steps, LAMBDA s : s.id = id)
        e == ProducerStepExports(tree, case, steps[last])
    IN  IF e.ok THEN e.names ELSE {}
Local(imp, name) == IF name \in DOMAIN imp.as THEN imp.as[name] ELSE name
LocalsOf(imports) ==
    FlattenSeq([k \in 1 .. Len(imports) |->
                   [j \in 1 .. Len(imports[k].names) |-> Local(imports[k], imports[k].names[j])]])
Once(seq) == Len(seq) = Cardinality(ToSet(seq))
(* Slip: the local names of each import are compared among themselves. *)
CollidesWithin(case) ==
    \E imp \in ToSet(ImportsOf(case)) : ~Once(LocalsOf(<<imp>>)) \/ ToSet(LocalsOf(<<imp>>)) \cap Reserved # {}
Collides(case) ==
    ~Once(LocalsOf(ImportsOf(case))) \/ ToSet(LocalsOf(ImportsOf(case))) \cap Reserved # {}

ImportAliasCollision(tree) ==
    {i \in ChainPlaces(tree) :
        LET case == tree[i]
            ids == {s.id : s \in ToSet(StepsOf(case))}
        IN  /\ IsList(case.chain.steps)
            /\ \/ case.chain.imports = Bad
               \/ Collides(case)
               \/ \E imp \in ToSet(ImportsOf(case)) :
                      \/ imp.from = "" \/ imp.from \notin ids \/ imp.names = <<>>
                      \/ ~DOMAIN imp.as \subseteq ToSet(imp.names) \/ "" \in ToSet(imp.names)
                      \/ \E n \in DOMAIN imp.as : imp.as[n] = ""
                      \/ ~ToSet(imp.names) \subseteq CheckedExports(tree, case, imp.from)}

SingleLocation(tree) == {i \in Places(tree) : tree[i].misplaced}
FailFastDefault(tree) == {i \in ChainPlaces(tree) : ~tree[i].chain.flags_ok}
ExportsLocation(tree) ==
    {i \in ChainPlaces(tree) : tree[i].chain.exports \/ (tree[i].type = "spec.export" /\ tree[i].exports = None)}
(* Only the exports of cases that have a chain themselves are looked at. *)
ExportsSchemaValid(tree) == {i \in ChainPlaces(tree) : ~ExpandExports(tree[i].exports).ok}

-----------------------------------------------------------------------------
(* The search for cycles; of two cases with one id in a document the last  *)
(* one is a node.                                                          *)
Graph(tree) ==
    LET nodes == {Node(tree[i]) : i \in {j \in Places(tree) : tree[j].id # ""}}
        CaseAt(n) == tree[CHOOSE i \in Places(tree) : Node(tree[i]) = n /\ \A j \in i + 1 .. Len(tree) : Node(tree[j]) # n]
        Targets(case) == UNION {ToSet(ResolveStepCases(tree, case, s.ref).found) : s \in ToSet(StepsOf(case))}
    IN  [n \in nodes |-> {Node(t) : t \in {x \in Targets(CaseAt(n)) : x.id # ""}}]

NoSearch == [visiting |-> {}, visited |-> {}, cycles |-> 0]
(* Slip: a node that was left is still in the stack. *)
RECURSIVE StaysInStack(_, _, _)
StaysInStack(graph, node, s) ==
    IF node \in s.visiting THEN [s EXCEPT !.cycles = @ + 1]
    ELSE FoldLeft(LAMBDA t, next : StaysInStack(graph, next, t),
                  [s EXCEPT !.visiting = @ \cup {node}], SetToSeq(graph[node]))
RECURSIVE Dfs(_, _, _)
Dfs(graph, node, s) ==
    CASE node \in s.visiting -> [s EXCEPT !.cycles = @ + 1]
      [] node \in s.visited -> s
      [] OTHER ->
            LET below == FoldLeft(LAMBDA t, next : Dfs(graph, next, t),
                                  [s EXCEPT !.visiting = @ \cup {node}], SetToSeq(graph[node]))
            IN  [below EXCEPT !.visiting = @ \ {node}, !.visited = @ \cup {node}]
HasCycle(graph) ==
    FoldLeft(LAMBDA s, node : Dfs(graph, node, s), NoSearch, SetToSeq(DOMAIN graph)).cycles > 0
CycleForbidden(tree) == HasCycle(Graph(tree))

ChainChecksPass(tree) ==
    /\ StepClassRequired(tree) = {} /\ ReferenceResolution(tree) = {} /\ ImportAliasCollision(tree) = {}
    /\ SingleLocation(tree) = {} /\ FailFastDefault(tree) = {} /\ ExportsLocation(tree) = {}
    /\ ExportsSchemaValid(tree) = {} /\ ~CycleForbidden(tree)

-----------------------------------------------------------------------------
(* The engine: compile_chain_plan, what a step refers to, and what a step  *)
(* that is imported from gives its consumer.                               *)
PlanCompiles(case) ==
    LET chain == case.chain
        ids == [k \in 1 .. Len(StepsOf(case)) |-> StepsOf(case)[k].id]
    IN  /\ ~chain.exports /\ chain.flags_ok /\ chain.steps # Bad /\ chain.imports # Bad
        /\ "" \notin ToSet(ids) /\ Once(ids)
        /\ \A s \in ToSet(StepsOf(case)) :
               s.class \in Classes /\ Is("doc", s.ref) /\ (s.ref.doc # "" \/ s.ref.id # "") /\ ~s.imports
        /\ \A imp \in ToSet(ImportsOf(case)) :
               /\ imp.from \in ToSet(ids) /\ imp.names # <<>> /\ "" \notin ToSet(imp.names)
               /\ DOMAIN imp.as \subseteq ToSet(imp.names) /\ \A n \in DOMAIN imp.as : imp.as[n] # ""
        /\ IsInjective(LocalsOf(ImportsOf(case))) /\ Reserved \cap ToSet(LocalsOf(ImportsOf(case))) = {}

(* A case is compiled before it is looked at: a contract.export needs a    *)
(* doc in every entry, and clauses are a mapping in every other type.      *)
CompilerTakes(case) ==
    /\ case.id # ""
    /\ IF case.type = "contract.export"
       THEN /\ ItemsOf(case.exports) # <<>>
            /\ \A entry \in ToSet(ItemsOf(case.exports)) : entry.as # "" /\ entry.doc
            /\ Once([k \in 1 .. Len(ItemsOf(case.exports)) |-> ItemsOf(case.exports)[k].as])
       ELSE case.clauses.kind = "mapping"

(* With one case of it that does not compile, none of a document is found. *)
EngineResolves(tree, consumer, ref) ==
    LET r == ResolveStepCases(tree, consumer, ref)
        docs == {c.doc : c \in ToSet(r.found)}
    IN  IF \A c \in ToSet(tree) : c.doc \in docs => CompilerTakes(c) THEN r ELSE NotFound

(* The exports of a producer, all of which must be well formed, and of     *)
(* these the ones that compile: all or none.  They name clauses of a list. *)
ExportsParse(case) ==
    ExpandExports(case.exports).ok /\ \A entry \in ToSet(ItemsOf(case.exports)) : entry.path # ""
Compiles(case, entry) ==
    /\ case.clauses.kind = "list"
    /\ entry.path \in DOMAIN case.clauses.class /\ case.clauses.class[entry.path] = "MUST"
ProducerExprs(case) ==
    IF \A entry \in ToSet(ItemsOf(case.exports)) : Compiles(case, entry)
    THEN ExpandExports(case.exports).names ELSE {}
StepExports(tree, case, step) ==
    LET r == EngineResolves(tree, case, step.ref)
        declared == UNION {ExpandExports(c.exports).names : c \in ToSet(r.found)}
        given == UNION {ProducerExprs(c) : c \in ToSet(r.found)}
    IN  IF r.ok /\ (\A c \in ToSet(r.found) : ExportsParse(c)) /\ declared \subseteq given
        THEN given ELSE {}

(* A consumer gets every name it imports; a MUST_NOT step gives none.      *)
ImportsArrive(tree, case) ==
    \A imp \in ToSet(ImportsOf(case)) :
        \E s \in ToSet(StepsOf(case)) :
            s.id = imp.from /\ s.class # "MUST_NOT" /\ ToSet(imp.names) \subseteq StepExports(tree, case, s)

ReferencesResolve(tree, case) == \A s \in ToSet(StepsOf(case)) : EngineResolves(tree, case, s.ref).ok

-----------------------------------------------------------------------------
(* What a clean report of the chain checks is worth when the cases run. *)

Consumers(tree) == {tree[i] : i \in ChainPlaces(tree)}

(* What no check looks at: the ids and the keys of steps, and whether the  *)
(* documents referred to compile.                                          *)
StepsOutOfSight(case) ==
    LET ids == [k \in 1 .. Len(StepsOf(case)) |-> StepsOf(case)[k].id]
    IN  ~Once(ids) \/ "" \in ToSet(ids) \/ \E s \in ToSet(StepsOf(case)) : s.imports
DocumentsOutOfSight(tree, case) ==
    \E s \in ToSet(StepsOf(case)) :
        \E c \in ToSet(ResolveStepCases(tree, case, s.ref).found), d \in ToSet(tree) :
            d.doc = c.doc /\ ~CompilerTakes(d)

(* A tree the checks pass has no chain whose plan or references fail:      *)
(* plans compile and references resolve, but for what is out of the        *)
(* checks' sight.                                                          *)
PassedChainsAreSound(tree) ==
    ChainChecksPass(tree) =>
        \A case \in Consumers(tree) :
            /\ PlanCompiles(case) \/ StepsOutOfSight(case)
            /\ ReferencesResolve(tree, case) \/ DocumentsOutOfSight(tree, case)

(* Of imports the checks promise nothing: they pass those of declared      *)
(* exports and of public symbols, and the engine delivers neither.         *)
ImportsNeverArrive(tree) ==
    \A case \in Consumers(tree) :
        PlanCompiles(case) /\ ImportsOf(case) # <<>> => ~ImportsArrive(tree, case)

(* A complaint is never about a chain the engine would run, unless the     *)
(* chain has no steps: of classes and flags and references the engine      *)
(* complains too, and an import complained of is refused or does not       *)
(* arrive.                                                                 *)
ComplaintsAreJustified(tree) ==
    /\ \A i \in StepClassRequired(tree) \cup FailFastDefault(tree) : ~PlanCompiles(tree[i])
    /\ \A i \in ReferenceResolution(tree) :
           StepsOf(tree[i]) # <<>> => ~PlanCompiles(tree[i]) \/ ~ReferencesResolve(tree, tree[i])
    /\ \A i \in ImportAliasCollision(tree) : ~PlanCompiles(tree[i]) \/ ~ImportsArrive(tree, tree[i])

RECURSIVE ReachedFrom(_, _)
ReachedFrom(graph, nodes) ==
    LET more == nodes \cup UNION {graph[n] \cap DOMAIN graph : n \in nodes \cap DOMAIN graph}
    IN  IF more = nodes THEN nodes ELSE ReachedFrom(graph, more)
(* The search reports a cycle exactly when some node reaches itself, from  *)
(* wherever it starts and however the paths join.                          *)
CyclesAreFound(graph) == HasCycle(graph) = \E n \in DOMAIN graph : n \in ReachedFrom(graph, graph[n])

(* Without a cycle no run nested in another comes back to its case; of a   *)
(* document with a case that has no id nothing runs (compile_external_case). *)
NestsIn(tree, case) ==
    LET imported == {imp.from : imp \in ToSet(ImportsOf(case))}
        nesting == {s \in ToSet(StepsOf(case)) : s.id \notin imported}
    IN  {Node(c) : c \in UNION {ToSet(EngineResolves(tree, case, s.ref).found) : s \in nesting}}
NoCycleNoReentry(tree) ==
    LET runs == {c \in Consumers(tree) : c.id # ""}
        nested == [n \in {Node(c) : c \in runs} |-> UNION {NestsIn(tree, c) : c \in {x \in runs : Node(x) = n}}]
        distinct == \A i, j \in Places(tree) : i # j => Node(tree[i]) # Node(tree[j])
    IN  distinct /\ ~CycleForbidden(tree) => \A n \in DOMAIN nested : n \notin ReachedFrom(nested, nested[n])
=============================================================================
