---------------------------- MODULE ChainPromises ----------------------------
(***************************************************************************)
(* What a run of a chain promises, for every library: it implements        *)
(* CaseNesting, a harness starts only when its chain held, no failure is   *)
(* hidden by a pass, a flat chain keeps its trace, and no export arrives.  *)
(***************************************************************************)
EXTENDS ChainProofs

-----------------------------------------------------------------------------
(* What a frame knows of its own chain.                                    *)

(***************************************************************************)
(* A frame that is past its plan has one that compiles; it has gone through *)
(* all steps when it is at its harness, and executes no step that is only   *)
(* compiled.                                                               *)
(***************************************************************************)
PlanFollowed(f) ==
    LET d == library[f.case]
    IN  /\ f.pc # "plan" => PlanCompiles(d)
        /\ f.pc = "plan" => f.step = 1 /\ f.log = {}
        /\ f.pc \in {"ref", "back"} => ~CompileOnly(d, d.steps[f.step])
        /\ f.pc = "harness" => f.step = Len(d.steps) + 1
        /\ f.pc \notin {"plan", "harness"} => d.steps # <<>>

Tried(log, k) == {e \in log : e.step = k}

(***************************************************************************)
(* Of the step under way: every reference before the current one held, or, *)
(* for MAY, `any` tells the truth.                                         *)
(***************************************************************************)
StepHeldSoFar(f) ==
    LET tried == Tried(f.log, f.step)
    IN  IF library[f.case].steps[f.step].class = "MAY"
        THEN f.any => \E e \in tried : e.passed
        ELSE /\ \A e \in tried : e.passed
             /\ {e.ref : e \in tried} = 1 .. (f.ref - 1)

(***************************************************************************)
(* The log of a frame only speaks of steps it has reached, the steps it    *)
(* has left held, and the one under way holds so far.                      *)
(***************************************************************************)
ChainSoFar(f) ==
    LET d == library[f.case]
        executing == f.pc \in {"ref", "back"}
    IN  /\ \A e \in f.log : e.step < f.step \/ (executing /\ e.step = f.step)
        /\ \A k \in 1 .. (f.step - 1) : Strict(d, d.steps[k]) => StepHeld(d, f.log, k)
        /\ executing /\ Strict(d, d.steps[f.step]) => StepHeldSoFar(f)

FrameHolds(f) == FrameOK(f) /\ PlanFollowed(f) /\ ChainSoFar(f)

(***************************************************************************)
(* A frame below the top waits for its callee, which runs the reference    *)
(* the frame stands at, and has not heard of it yet.                       *)
(***************************************************************************)
CallersWait ==
    \A i \in 1 .. (Depth - 1) :
        LET f == stack[i]
        IN  /\ f.pc = "back" /\ f.got = "none"
            /\ stack[i + 1].case = library[f.case].steps[f.step].refs[f.ref]

Running == verdict = "running" <=> stack # <<>>

ChainInv ==
    /\ ControlInv
    /\ \A i \in DOMAIN stack : FrameHolds(stack[i])
    /\ CallersWait
    /\ Running

-----------------------------------------------------------------------------
(* Three kinds of move.                                                    *)

Aborting(f) == f.pc = "back" /\ f.got = "abort"
Failing(f) == f.pc = "back" /\ f.got \in {"fail", "abort"}

(* The top frame is left; an abort stays one, and where every step must    *)
(* hold a failure is no pass.                                              *)
Returns(o) ==
    /\ Finish(o)
    /\ Aborting(Top) => o = "abort"
    /\ AllMust /\ Failing(Top) => o # "pass"

(* The top frame goes on with its own case.                                *)
GoesOn(g) ==
    /\ Goto(g)
    /\ g.case = Top.case
    /\ FrameHolds(g)
    /\ ~Aborting(Top) /\ ~Aborting(g)
    /\ AllMust => ~Failing(Top)

(* The top frame opens one for the case its reference names.               *)
Waiting == [Top EXCEPT !.pc = "back", !.got = "none"]
Calls(c) ==
    /\ Top.pc = "ref"
    /\ Top.ref <= Len(ThisStep.refs)
    /\ c = ThisStep.refs[Top.ref]
    /\ ~Refused(c)
    /\ stack' = Append([stack EXCEPT ![Depth] = Waiting], NewFrame(c))
    /\ active' = active \cup {c}
    /\ UNCHANGED <<rows, verdict>>
    /\ FrameHolds(Waiting) /\ FrameHolds(NewFrame(c))

(***************************************************************************)
(* What a step held depends on what the log says of that step alone.       *)
(***************************************************************************)
LEMMA HeldByItsOwnEntries ==
    ASSUME NEW d, NEW k, NEW log, NEW log2, Tried(log, k) = Tried(log2, k), StepHeld(d, log, k)
    PROVE  StepHeld(d, log2, k)
    BY DEF StepHeld, Tried

(***************************************************************************)
(* A frame that changes nothing but what it was told, or where it is       *)
(* between a reference and its callee, holds what it held.                 *)
(***************************************************************************)
LEMMA SameChainHolds ==
    ASSUME NEW f \in Frame, FrameHolds(f), NEW g \in Frame,
           g.case = f.case, g.step = f.step, g.ref = f.ref, g.any = f.any, g.log = f.log,
           \/ g.pc = f.pc
           \/ f.pc = "ref" /\ g.pc = "back" /\ f.ref <= Len(library[f.case].steps[f.step].refs)
    PROVE  FrameHolds(g)
<1>1. FrameOK(g)
    BY DEF FrameHolds, FrameOK
<1>2. PlanFollowed(g)
    BY DEF FrameHolds, PlanFollowed
<1>3. StepHeldSoFar(f) => StepHeldSoFar(g)
    BY DEF StepHeldSoFar
<1>4. ChainSoFar(g)
    BY <1>3 DEF FrameHolds, ChainSoFar
<1> QED
    BY <1>1, <1>2, <1>4 DEF FrameHolds

(* A place in a list, the next one, and the one past the end.              *)
LEMMA PlaceInRange ==
    ASSUME NEW r \in Nat, NEW n \in Nat, r >= 1, r <= n
    PROVE  n + 1 \in 1 .. n + 1 /\ r + 1 \in 1 .. n + 1
    OBVIOUS

LEMMA LastPlace ==
    ASSUME NEW k \in Nat, NEW m \in Nat, k \in 1 .. m + 1,
           NEW r \in Nat, NEW n \in Nat, r \in 1 .. n + 1, r > n
    PROVE  k >= 1 /\ r = n + 1
    OBVIOUS

(***************************************************************************)
(* Compiling a step that is not executed settles it at once.               *)
(***************************************************************************)
LEMMA CompiledStepHolds ==
    ASSUME NEW f \in Frame, FrameHolds(f), f.pc = "step",
           NEW d, d = library[f.case], d.steps \in Seq(Step), f.step <= Len(d.steps),
           CompileOnly(d, d.steps[f.step]),
           NEW p \in BOOLEAN,
           Strict(d, d.steps[f.step]) /\ d.steps[f.step].class # "MAY" => p,
           NEW g \in Frame, g.case = f.case, g.pc = "step", g.step = f.step + 1,
           g.log = f.log \cup {[step |-> f.step, ref |-> 0, passed |-> p]}
    PROVE  FrameHolds(g)
<1>1. f.step \in Nat /\ f.step >= 1 /\ f.step \in 1 .. Len(d.steps) /\ Len(d.steps) \in Nat
    BY DEF FrameHolds, FrameOK, Frame
<1>2. FrameOK(g)
    BY <1>1 DEF FrameHolds, FrameOK
<1>3. PlanFollowed(g)
    BY DEF FrameHolds, PlanFollowed
<1> DEFINE new == [step |-> f.step, ref |-> 0, passed |-> p]
<1>4. \A e \in f.log : e.step < f.step /\ e.step \in Nat
    BY DEF FrameHolds, ChainSoFar, Frame, LogEntry
<1>5. new.step = f.step /\ new.ref = 0 /\ new.passed = p
    OBVIOUS
<1> HIDE DEF new
<1>6. Tried(g.log, f.step) = {new}
    BY <1>4, <1>5 DEF Tried, new
<1>7. Strict(d, d.steps[f.step]) => StepHeld(d, g.log, f.step)
    <2> SUFFICES ASSUME Strict(d, d.steps[f.step])
                 PROVE  StepHeld(d, g.log, f.step)
        OBVIOUS
    <2>1. {e \in g.log : e.step = f.step} = {new}
        BY <1>6 DEF Tried
    <2>2. CASE d.steps[f.step].class = "MAY"
        BY <2>2 DEF StepHeld
    <2>3. CASE d.steps[f.step].class # "MAY"
        BY <2>1, <2>3, <1>5 DEF StepHeld
    <2> QED
        BY <2>2, <2>3
<1>8. ASSUME NEW k \in 1 .. (g.step - 1), Strict(d, d.steps[k])
      PROVE  StepHeld(d, g.log, k)
    <2>1. CASE k = f.step
        BY <2>1, <1>7, <1>8
    <2>2. CASE k # f.step
        <3>1. k \in 1 .. (f.step - 1)
            BY <2>2, <1>1
        <3>2. StepHeld(d, f.log, k)
            BY <3>1, <1>8 DEF FrameHolds, ChainSoFar
        <3>3. Tried(g.log, k) = Tried(f.log, k)
            BY <2>2, <1>5 DEF Tried, new
        <3> QED
            BY <3>2, <3>3, HeldByItsOwnEntries
    <2> QED
        BY <2>1, <2>2
<1>9. \A e \in g.log : e.step < g.step
    BY <1>1, <1>4, <1>5 DEF new
<1>10. ChainSoFar(g)
    BY <1>8, <1>9 DEF ChainSoFar
<1> QED
    BY <1>2, <1>3, <1>10 DEF FrameHolds

(***************************************************************************)
(* A reference that came back, and that raises nothing, holds: the step is *)
(* as far as its log says.                                                 *)
(***************************************************************************)
LEMMA TriedReferenceHolds ==
    ASSUME NEW f \in Frame, FrameHolds(f), f.pc = "back",
           NEW d, d = library[f.case], d.steps \in Seq(Step), f.step <= Len(d.steps),
           NEW s \in Step, s = d.steps[f.step],
           NEW p \in BOOLEAN, Strict(d, s) /\ s.class # "MAY" => p,
           NEW g \in Frame, g.case = f.case, g.pc = "ref", g.step = f.step,
           g.ref = IF s.class = "MAY" /\ p THEN Len(s.refs) + 1 ELSE f.ref + 1,
           g.any = (f.any \/ p),
           g.log = f.log \cup {[step |-> f.step, ref |-> f.ref, passed |-> p]}
    PROVE  FrameHolds(g)
<1>1. /\ f.step \in Nat \ {0} /\ f.ref \in Nat \ {0} /\ Len(s.refs) \in Nat
      /\ f.ref <= Len(s.refs) /\ g.ref \in 1 .. Len(s.refs) + 1
    <2>1. f.step \in Nat /\ f.ref \in Nat /\ Len(s.refs) \in Nat
        BY DEF Frame, Step
    <2>2. f.step \in 1 .. Len(d.steps) + 1 /\ f.ref \in 1 .. Len(s.refs) + 1 /\ f.ref <= Len(s.refs)
        BY DEF FrameHolds, FrameOK
    <2>3. f.step >= 1 /\ f.ref >= 1 /\ f.ref <= Len(s.refs)
        BY <2>1, <2>2
    <2>4. g.ref \in 1 .. Len(s.refs) + 1
        <3>1. Len(s.refs) + 1 \in 1 .. Len(s.refs) + 1 /\ f.ref + 1 \in 1 .. Len(s.refs) + 1
            BY <2>1, <2>3, PlaceInRange, Zenon
        <3> QED
            BY <3>1, Zenon
    <2> QED
        BY <2>1, <2>3, <2>4
<1>2. FrameOK(g)
    BY <1>1 DEF FrameHolds, FrameOK
<1>3. PlanFollowed(g)
    BY DEF FrameHolds, PlanFollowed
<1> DEFINE new == [step |-> f.step, ref |-> f.ref, passed |-> p]
<1>4. new.step = f.step /\ new.ref = f.ref /\ new.passed = p /\ g.log = f.log \cup {new}
    OBVIOUS
<1> HIDE DEF new
<1>5. Tried(g.log, f.step) = Tried(f.log, f.step) \cup {new}
    BY <1>4 DEF Tried
<1>6. ASSUME Strict(d, s) PROVE StepHeldSoFar(g)
    <2>1. StepHeldSoFar(f)
        BY <1>6 DEF FrameHolds, ChainSoFar
    <2>2. CASE s.class = "MAY"
        <3>1. f.any => \E e \in Tried(f.log, f.step) : e.passed
            BY <2>1, <2>2 DEF StepHeldSoFar
        <3>2. g.any => \E e \in Tried(g.log, f.step) : e.passed
            BY <3>1, <1>4, <1>5
        <3> QED
            BY <3>2, <2>2 DEF StepHeldSoFar
    <2>3. CASE s.class # "MAY"
        <3>1. /\ \A e \in Tried(f.log, f.step) : e.passed
              /\ {e.ref : e \in Tried(f.log, f.step)} = 1 .. (f.ref - 1)
            BY <2>1, <2>3 DEF StepHeldSoFar
        <3>2. \A e \in Tried(g.log, f.step) : e.passed
            BY <3>1, <1>4, <1>5, <1>6, <2>3
        <3>3. {e.ref : e \in Tried(g.log, f.step)}
                = {e.ref : e \in Tried(f.log, f.step)} \cup {f.ref}
            BY <1>4, <1>5
        <3>4. (1 .. (f.ref - 1)) \cup {f.ref} = 1 .. (g.ref - 1)
            BY <1>1, <2>3
        <3> QED
            BY <3>1, <3>2, <3>3, <3>4, <2>3 DEF StepHeldSoFar
    <2> QED
        BY <2>2, <2>3
<1>7. \A k \in 1 .. (f.step - 1) : Strict(d, d.steps[k]) => StepHeld(d, g.log, k)
    <2> TAKE k \in 1 .. (f.step - 1)
    <2>1. Tried(g.log, k) = Tried(f.log, k)
        BY <1>1, <1>4 DEF Tried
    <2> QED
        BY <2>1, HeldByItsOwnEntries DEF FrameHolds, ChainSoFar
<1>8. \A e \in g.log : e.step < g.step \/ e.step = g.step
    BY <1>4 DEF FrameHolds, ChainSoFar
<1>9. ChainSoFar(g)
    BY <1>6, <1>7, <1>8 DEF ChainSoFar
<1> QED
    BY <1>2, <1>3, <1>9 DEF FrameHolds

(***************************************************************************)
(* A step whose references are all tried, and which does not fail, held.   *)
(***************************************************************************)
LEMMA EndedStepHolds ==
    ASSUME NEW f \in Frame, FrameHolds(f), f.pc = "ref",
           NEW d, d = library[f.case], d.steps \in Seq(Step),
           NEW s \in Step, s = d.steps[f.step],
           f.ref > Len(s.refs), Strict(d, s) /\ s.class = "MAY" => f.any,
           NEW g \in Frame, g.case = f.case, g.pc = "step", g.step = f.step + 1, g.log = f.log
    PROVE  FrameHolds(g)
<1>1. /\ f.step \in Nat \ {0} /\ Len(s.refs) \in Nat /\ f.ref = Len(s.refs) + 1
      /\ f.step <= Len(d.steps) /\ Len(d.steps) \in Nat
    <2>1. f.step \in Nat /\ f.ref \in Nat /\ Len(s.refs) \in Nat /\ Len(d.steps) \in Nat
        BY DEF Frame, Step
    <2>2. /\ f.step \in 1 .. Len(d.steps) + 1 /\ f.step <= Len(d.steps)
          /\ f.ref \in 1 .. Len(s.refs) + 1
        BY DEF FrameHolds, FrameOK
    <2>3. f.step >= 1 /\ f.ref = Len(s.refs) + 1
        BY <2>1, <2>2, LastPlace, Zenon
    <2> QED
        BY <2>1, <2>2, <2>3
<1>2. FrameOK(g)
    BY <1>1 DEF FrameHolds, FrameOK
<1>3. PlanFollowed(g)
    BY DEF FrameHolds, PlanFollowed
<1>4. ASSUME Strict(d, s) PROVE StepHeld(d, g.log, f.step)
    <2>1. StepHeldSoFar(f) /\ ~CompileOnly(d, s)
        BY <1>4 DEF FrameHolds, ChainSoFar, PlanFollowed
    <2>2. DOMAIN s.refs = 1 .. (f.ref - 1)
        BY <1>1 DEF Step
    <2> QED
        BY <2>1, <2>2, <1>4 DEF StepHeldSoFar, StepHeld, Tried
<1>5. ASSUME NEW k \in 1 .. (g.step - 1), Strict(d, d.steps[k])
      PROVE  StepHeld(d, g.log, k)
    <2>1. CASE k = f.step
        BY <2>1, <1>4, <1>5
    <2>2. CASE k # f.step
        <3>1. k \in 1 .. (f.step - 1)
            BY <2>2, <1>1
        <3> QED
            BY <3>1, <1>5 DEF FrameHolds, ChainSoFar
    <2> QED
        BY <2>1, <2>2
<1>6. \A e \in g.log : e.step < g.step
    BY <1>1 DEF FrameHolds, ChainSoFar, Frame, LogEntry
<1>7. ChainSoFar(g)
    BY <1>5, <1>6 DEF ChainSoFar
<1> QED
    BY <1>2, <1>3, <1>7 DEF FrameHolds

-----------------------------------------------------------------------------
(* Every step of a run is one of the three moves.                          *)

LEMMA ChainTopFacts ==
    ASSUME ChainInv, stack # <<>>
    PROVE  /\ FrameHolds(Top) /\ Top \in Frame /\ Top.case \in Cases
           /\ Plan \in CaseDef /\ Plan = library[Top.case] /\ Plan.steps \in Seq(Step)
           /\ Depth \in Nat \ {0} /\ Depth \in DOMAIN stack
           /\ Top.step <= Len(Plan.steps) => ThisStep \in Step /\ ThisStep = Plan.steps[Top.step]
<1>1. ControlOK
    BY DEF ChainInv, ControlInv
<1>2. Depth \in Nat \ {0} /\ Depth \in DOMAIN stack
    BY <1>1 DEF ControlOK, Depth
<1>3. FrameHolds(Top)
    BY <1>2 DEF ChainInv, Top
<1> QED
    BY <1>1, <1>2, <1>3, TopFacts DEF Plan, ThisStep, CaseDef

(***************************************************************************)
(* Only AfterRef and Unwind start from a frame that was told something,    *)
(* and where every step must hold, what AfterRef does with a failure is to *)
(* raise it.                                                               *)
(***************************************************************************)
LEMMA RunMoves ==
    ASSUME ChainInv, Run
    PROVE  /\ stack # <<>> /\ library' = library
           /\ \/ \E o \in Outcome : Returns(o)
              \/ \E g : GoesOn(g)
              \/ \E c \in Cases : Calls(c)
<1>1. stack # <<>> /\ library' = library
    BY DEF Run, At, StartChain, UnresolvedStep, CompileOnlyStep, RuntimeStep,
           SelfReference, CallRef, AfterRef, Unwind, EndStep, ResolveImports, RunHarness
<1>2. /\ FrameHolds(Top) /\ Top \in Frame /\ Top.case \in Cases
      /\ Plan \in CaseDef /\ Plan = library[Top.case] /\ Plan.steps \in Seq(Step)
      /\ Top.step <= Len(Plan.steps) => ThisStep \in Step /\ ThisStep = Plan.steps[Top.step]
    BY <1>1, ChainTopFacts
<1>3. /\ Top.step \in Nat /\ Top.ref \in Nat /\ Len(Plan.steps) \in Nat
      /\ Top.pc \in {"ref", "back"} => Top.step <= Len(Plan.steps) /\ ThisStep \in Step
    BY <1>2 DEF Frame, FrameHolds, FrameOK
<1>4. {"pass", "fail", "abort"} = Outcome
    BY DEF Outcome
<1>5. ASSUME NEW o \in Outcome, Finish(o), Top.pc # "back" PROVE Returns(o)
    BY <1>5 DEF Returns, Aborting, Failing
<1>6. ASSUME NEW g, Goto(g), g.case = Top.case, FrameHolds(g), Top.pc # "back", g.pc # "back"
      PROVE  GoesOn(g)
    BY <1>6 DEF GoesOn, Aborting, Failing
<1>7. CASE StartChain
    <2>1. Top.pc = "plan"
        BY <1>7 DEF StartChain, At
    <2>2. CASE Finish("fail")
        BY <2>1, <2>2, <1>1, <1>4, <1>5
    <2>3. CASE PlanCompiles(Plan) /\ Plan.steps = <<>> /\ Goto([Top EXCEPT !.pc = "harness"])
        <3> DEFINE g == [Top EXCEPT !.pc = "harness"]
        <3>1. /\ g \in Frame /\ g.case = Top.case /\ g.pc = "harness"
              /\ g.step = Top.step /\ g.log = Top.log
            BY <1>2 DEF Frame
        <3>2. Goto(g)
            BY <2>3
        <3> HIDE DEF g
        <3>3. Top.step = 1 /\ Top.log = {} /\ Plan.known
            BY <1>2, <2>1 DEF FrameHolds, PlanFollowed, FrameOK
        <3>4. FrameOK(g)
            BY <1>2, <1>3, <3>1, <3>3 DEF FrameOK
        <3>5. PlanFollowed(g)
            BY <1>2, <2>3, <3>1, <3>3 DEF PlanFollowed
        <3>6. ChainSoFar(g)
            BY <3>1, <3>3 DEF ChainSoFar
        <3> QED
            BY <2>1, <3>1, <3>2, <3>4, <3>5, <3>6, <1>1, <1>6 DEF FrameHolds
    <2>4. CASE PlanCompiles(Plan) /\ Plan.steps # <<>> /\ Goto([Top EXCEPT !.pc = "step"])
        <3> DEFINE g == [Top EXCEPT !.pc = "step"]
        <3>1. /\ g \in Frame /\ g.case = Top.case /\ g.pc = "step"
              /\ g.step = Top.step /\ g.log = Top.log
            BY <1>2 DEF Frame
        <3>2. Goto(g)
            BY <2>4
        <3> HIDE DEF g
        <3>3. Top.step = 1 /\ Top.log = {} /\ Plan.known
            BY <1>2, <2>1 DEF FrameHolds, PlanFollowed, FrameOK
        <3>4. FrameOK(g)
            BY <1>2, <1>3, <3>1, <3>3 DEF FrameOK
        <3>5. PlanFollowed(g)
            BY <1>2, <2>4, <3>1 DEF PlanFollowed
        <3>6. ChainSoFar(g)
            BY <3>1, <3>3 DEF ChainSoFar
        <3> QED
            BY <2>1, <3>1, <3>2, <3>4, <3>5, <3>6, <1>1, <1>6 DEF FrameHolds
    <2> QED
        BY <1>7, <2>2, <2>3, <2>4 DEF StartChain
<1>8. CASE UnresolvedStep
    BY <1>8, <1>4, <1>5 DEF UnresolvedStep, At
<1>9. CASE CompileOnlyStep
    <2> DEFINE s == ThisStep
               p == IF s.class = "MUST_NOT" THEN ~ExportsCompile(s.refs) ELSE ExportsCompile(s.refs)
               g == [Top EXCEPT !.step = @ + 1, !.log = Logged(0, p)]
    <2>1. /\ Top.pc = "step" /\ Top.step <= Len(Plan.steps) /\ CompileOnly(Plan, s)
          /\ Finish("fail") \/ (~Raises(s, p) /\ Goto(g))
        BY <1>9 DEF CompileOnlyStep, At
    <2>2. p \in BOOLEAN
        BY DEF ExportsCompile
    <2>3. s \in Step /\ s = Plan.steps[Top.step]
        BY <1>2, <2>1
    <2> HIDE DEF s, p
    <2>4. CASE Finish("fail")
        BY <2>1, <2>4, <1>1, <1>4, <1>5
    <2>5. CASE ~Raises(s, p) /\ Goto(g)
        <3>1. Strict(Plan, s) /\ s.class # "MAY" => p
            BY <2>5 DEF Raises
        <3>2. Logged(0, p) \subseteq LogEntry
            BY <1>2, <1>3, <2>2 DEF Logged, Frame, LogEntry
        <3>3. /\ g \in Frame /\ g.case = Top.case /\ g.pc = "step" /\ g.step = Top.step + 1
              /\ g.log = Logged(0, p)
            <4>1. PICK n \in Nat : n = Top.step + 1
                BY <1>3
            <4>2. g = [Top EXCEPT !.step = n, !.log = Logged(0, p)]
                BY <4>1
            <4> QED
                BY <1>2, <2>1, <3>2, <4>1, <4>2 DEF Frame
        <3> HIDE DEF g
        <3>4. FrameHolds(g)
            BY <1>2, <2>1, <2>2, <2>3, <3>1, <3>3, CompiledStepHolds DEF Logged
        <3> QED
            BY <2>1, <2>5, <3>3, <3>4, <1>1, <1>6
    <2> QED
        BY <2>1, <2>4, <2>5
<1>10. CASE RuntimeStep
    <2> DEFINE g == [Top EXCEPT !.pc = "ref", !.ref = 1, !.any = FALSE]
    <2>1. /\ Top.pc = "step" /\ Top.step <= Len(Plan.steps)
          /\ ~CompileOnly(Plan, ThisStep) /\ Goto(g)
        BY <1>10 DEF RuntimeStep, At
    <2>2. /\ g \in Frame /\ g.case = Top.case /\ g.pc = "ref" /\ g.step = Top.step /\ g.ref = 1
          /\ g.any = FALSE /\ g.log = Top.log
        BY <1>2 DEF Frame
    <2> HIDE DEF g
    <2>3. Len(ThisStep.refs) \in Nat /\ ThisStep = Plan.steps[Top.step]
        BY <1>2, <2>1 DEF Step
    <2>4. FrameOK(g)
        <3>1. library[g.case] = Plan /\ Plan.steps[g.step] = ThisStep
            BY <1>2, <2>2, <2>3
        <3>2. 1 \in 1 .. Len(ThisStep.refs) + 1
            BY <2>3
        <3>3. Plan.known /\ Top.step \in 1 .. Len(Plan.steps) + 1
            BY <1>2 DEF FrameHolds, FrameOK
        <3> QED
            BY <2>1, <2>2, <3>1, <3>2, <3>3 DEF FrameOK
    <2>5. PlanFollowed(g)
        BY <1>2, <2>1, <2>2, <2>3 DEF FrameHolds, PlanFollowed
    <2>6. ChainSoFar(g)
        <3>1. \A e \in g.log : e.step < g.step
            BY <1>2, <2>1, <2>2 DEF FrameHolds, ChainSoFar
        <3>2. Tried(g.log, g.step) = {}
            BY <3>1, <1>2, <1>3, <2>2 DEF Tried, Frame, LogEntry
        <3>3. StepHeldSoFar(g)
            BY <2>2, <3>2 DEF StepHeldSoFar
        <3> QED
            BY <1>2, <2>2, <3>1, <3>3 DEF FrameHolds, ChainSoFar
    <2> QED
        BY <2>1, <2>2, <2>4, <2>5, <2>6, <1>1, <1>6 DEF FrameHolds
<1>11. CASE SelfReference
    BY <1>11, <1>4, <1>5 DEF SelfReference, At
<1>12. CASE CallRef
    <2> DEFINE c == ThisStep.refs[Top.ref]
               g(r) == [Top EXCEPT !.pc = "back", !.got = r]
    <2>1. Top.pc = "ref" /\ Top.ref <= Len(ThisStep.refs)
        BY <1>12 DEF CallRef, At
    <2>2. c \in Cases
        <3>1. Top.ref \in 1 .. Len(ThisStep.refs) + 1
            BY <1>2, <1>3, <2>1 DEF FrameHolds, FrameOK
        <3>2. ThisStep.refs \in Seq(Cases)
            BY <1>3, <2>1 DEF Step
        <3> QED
            BY <3>1, <3>2, <2>1, <1>3
    <2>3. ASSUME NEW r \in {"none", "fail"}
          PROVE  FrameHolds(g(r)) /\ g(r).case = Top.case /\ g(r).pc = "back" /\ g(r).got = r
        <3>1. /\ g(r) \in Frame /\ g(r).case = Top.case /\ g(r).step = Top.step
              /\ g(r).ref = Top.ref /\ g(r).any = Top.any /\ g(r).log = Top.log
              /\ g(r).pc = "back" /\ g(r).got = r
            BY <1>2 DEF Frame, Outcome
        <3> HIDE DEF g
        <3>2. Top.ref <= Len(library[Top.case].steps[Top.step].refs)
            BY <1>2, <1>3, <2>1
        <3> QED
            BY <1>2, <2>1, <3>1, <3>2, SameChainHolds
    <2>4. CASE Refused(c)
        <3>1. Goto(g("fail"))
            BY <1>12, <2>4 DEF CallRef, Goto
        <3>2. GoesOn(g("fail"))
            BY <2>1, <2>3, <3>1 DEF GoesOn, Aborting, Failing
        <3> QED
            BY <1>1, <3>2
    <2>5. CASE ~Refused(c)
        <3>1. /\ NewFrame(c) \in Frame /\ NewFrame(c).case = c /\ NewFrame(c).pc = "plan"
              /\ NewFrame(c).step = 1 /\ NewFrame(c).log = {}
            BY <2>2 DEF NewFrame, Frame, Outcome
        <3>2. library[c] \in CaseDef /\ Len(library[c].steps) \in Nat
            BY <2>2, LibrariesAssumption DEF ChainInv, ControlInv, ControlOK, CaseDef
        <3>3. FrameHolds(NewFrame(c))
            BY <3>1, <3>2, <2>5 DEF FrameHolds, FrameOK, PlanFollowed, ChainSoFar, Refused
        <3>4. FrameHolds(Waiting)
            BY <2>3 DEF Waiting
        <3>5. Calls(c)
            BY <1>12, <2>1, <2>5, <3>3, <3>4 DEF CallRef, Calls, Waiting
        <3> QED
            BY <1>1, <2>2, <3>5
    <2> QED
        BY <2>4, <2>5
<1>13. CASE AfterRef
    <2> DEFINE s == ThisStep
               p == IF s.class = "MUST_NOT" THEN Top.got = "fail" ELSE Top.got = "pass"
               g == [Top EXCEPT !.pc = "ref", !.ref = NextRef(s, p),
                                !.any = @ \/ p, !.log = Logged(Top.ref, p)]
    <2>1. /\ Top.pc = "back" /\ Top.got \in {"pass", "fail"}
          /\ Finish("fail") \/ (~Raises(s, p) /\ Goto(g))
        BY <1>13 DEF AfterRef, At, Caught
    <2>2. s \in Step /\ s = Plan.steps[Top.step] /\ Top.step <= Len(Plan.steps)
        BY <1>2, <1>3, <2>1
    <2>3. Top.step \in DOMAIN Plan.steps /\ Len(s.refs) \in Nat
        BY <1>2, <1>3, <2>2 DEF FrameHolds, FrameOK, Step
    <2>4. p \in BOOLEAN
        OBVIOUS
    <2>5. CASE Finish("fail")
        BY <2>1, <2>5, <1>1, <1>4 DEF Returns, Aborting
    <2>6. CASE ~Raises(s, p) /\ Goto(g)
        <3>1. Strict(Plan, s) /\ s.class # "MAY" => p
            BY <2>6, <2>4 DEF Raises
        <3>2. AllMust => ~Failing(Top)
            <4> SUFFICES ASSUME AllMust PROVE Top.got = "pass"
                BY DEF Failing
            <4>1. Strict(Plan, s) /\ s.class = "MUST"
                BY <1>2, <2>2, <2>3 DEF AllMust, Strict
            <4> QED
                BY <3>1, <4>1
        <3> HIDE DEF p
        <3>3. Logged(Top.ref, p) \subseteq LogEntry /\ (Top.any \/ p) \in BOOLEAN
            BY <1>2, <1>3, <2>4 DEF Logged, Frame, LogEntry
        <3>4. NextRef(s, p) \in Nat
            BY <1>3, <2>3 DEF NextRef
        <3> HIDE DEF s
        <3>5. /\ g \in Frame /\ g.case = Top.case /\ g.pc = "ref" /\ g.step = Top.step
              /\ g.ref = NextRef(s, p) /\ g.any = (Top.any \/ p) /\ g.log = Logged(Top.ref, p)
            <4>1. PICK n \in Nat : n = NextRef(s, p)
                BY <3>4
            <4>2. PICK b \in BOOLEAN : b = (Top.any \/ p)
                BY <3>3
            <4>3. PICK l \in SUBSET LogEntry : l = Logged(Top.ref, p)
                BY <3>3
            <4>4. g = [Top EXCEPT !.pc = "ref", !.ref = n, !.any = b, !.log = l]
                BY <4>1, <4>2, <4>3
            <4> HIDE DEF g
            <4>5. /\ g \in Frame /\ g.case = Top.case /\ g.pc = "ref" /\ g.step = Top.step
                  /\ g.ref = n /\ g.any = b /\ g.log = l
                BY <1>2, <4>4 DEF Frame
            <4> QED
                BY <4>1, <4>2, <4>3, <4>5
        <3> HIDE DEF g
        <3>6. FrameHolds(g)
            <4>1. g.ref = IF s.class = "MAY" /\ p THEN Len(s.refs) + 1 ELSE Top.ref + 1
                BY <3>5 DEF NextRef
            <4>2. g.log = Top.log \cup {[step |-> Top.step, ref |-> Top.ref, passed |-> p]}
                BY <3>5 DEF Logged
            <4> QED
                BY <1>2, <2>1, <2>2, <2>4, <3>1, <3>5, <4>1, <4>2, TriedReferenceHolds
        <3>7. GoesOn(g)
            BY <2>1, <2>6, <3>2, <3>5, <3>6 DEF GoesOn, Aborting
        <3> QED
            BY <1>1, <3>7
    <2> QED
        BY <2>1, <2>5, <2>6
<1>14. CASE Unwind
    <2>1. Returns("abort")
        BY <1>14 DEF Unwind, Returns
    <2> QED
        BY <1>1, <1>4, <2>1
<1>15. CASE EndStep
    <2> DEFINE g == [Top EXCEPT !.pc = "step", !.step = StepAfter(ThisStep)]
    <2>1. /\ Top.pc = "ref" /\ Top.ref > Len(ThisStep.refs)
          /\ \/ Finish("fail")
             \/ Goto(g) /\ (Strict(Plan, ThisStep) /\ ThisStep.class = "MAY" => Top.any)
        BY <1>15 DEF EndStep, At
    <2>2. CASE Finish("fail")
        BY <2>1, <2>2, <1>1, <1>4, <1>5
    <2>3. CASE Goto(g) /\ (Strict(Plan, ThisStep) /\ ThisStep.class = "MAY" => Top.any)
        <3>1. g \in Frame /\ g.case = Top.case /\ g.pc = "step" /\ g.step = Top.step + 1
              /\ g.log = Top.log
            <4>1. PICK n \in Nat : n = Top.step + 1
                BY <1>3
            <4>2. g = [Top EXCEPT !.pc = "step", !.step = n]
                BY <4>1 DEF StepAfter
            <4> QED
                BY <1>2, <4>1, <4>2 DEF Frame
        <3> HIDE DEF g
        <3>2. FrameHolds(g)
            BY <1>2, <1>3, <2>1, <2>3, <3>1, EndedStepHolds
        <3> QED
            BY <2>1, <2>3, <3>1, <3>2, <1>1, <1>6
    <2> QED
        BY <2>1, <2>2, <2>3
<1>16. CASE ResolveImports
    <2> DEFINE g == [Top EXCEPT !.pc = "harness"]
    <2>1. Top.pc = "step" /\ Top.step > Len(Plan.steps) /\ (Finish("fail") \/ Goto(g))
        BY <1>16 DEF ResolveImports, At
    <2>2. CASE Finish("fail")
        BY <2>1, <2>2, <1>1, <1>4, <1>5
    <2>3. CASE Goto(g)
        <3>1. /\ g \in Frame /\ g.case = Top.case /\ g.pc = "harness" /\ g.step = Top.step
              /\ g.log = Top.log
            BY <1>2 DEF Frame
        <3> HIDE DEF g
        <3>2. Top.step = Len(Plan.steps) + 1
            BY <1>2, <1>3, <2>1 DEF FrameHolds, FrameOK
        <3>3. FrameOK(g)
            BY <1>2, <3>1 DEF FrameHolds, FrameOK
        <3>4. PlanFollowed(g)
            BY <1>2, <2>1, <3>1, <3>2 DEF FrameHolds, PlanFollowed
        <3>5. ChainSoFar(g)
            BY <1>2, <2>1, <3>1 DEF FrameHolds, ChainSoFar
        <3> QED
            BY <2>1, <2>3, <3>1, <3>3, <3>4, <3>5, <1>1, <1>6 DEF FrameHolds
    <2> QED
        BY <2>1, <2>2, <2>3
<1>17. CASE RunHarness
    BY <1>17, <1>1, <1>5 DEF RunHarness, At
<1> QED
    BY <1>1, <1>7, <1>8, <1>9, <1>10, <1>11, <1>12, <1>13, <1>14, <1>15, <1>16, <1>17 DEF Run

-----------------------------------------------------------------------------
(* The invariant is kept by each move.                                     *)

(***************************************************************************)
(* What the three moves do to the stack.                                   *)
(***************************************************************************)
LEMMA ReturnsShape ==
    ASSUME ChainInv, stack # <<>>, NEW o \in Outcome, Finish(o)
    PROVE  /\ DOMAIN stack' = 1 .. (Depth - 1) /\ Depth' = Depth - 1
           /\ stack' \in Seq(Frame)
           /\ \A i \in 1 .. (Depth - 2) : stack'[i] = stack[i]
           /\ Depth > 1 => stack'[Depth - 1] = [stack[Depth - 1] EXCEPT !.got = o]
<1>1. Depth \in Nat \ {0} /\ stack \in Seq(Frame) /\ Depth = Len(stack)
    BY ChainTopFacts DEF Depth, ChainInv, ControlInv, ControlOK
<1>2. PICK n \in Nat : n = Depth - 1
    BY <1>1
<1>3. stack' = [i \in 1 .. n |-> IF i = n THEN [stack[i] EXCEPT !.got = o] ELSE stack[i]]
    BY <1>2 DEF Finish
<1>4. \A i \in 1 .. n : stack[i] \in Frame /\ [stack[i] EXCEPT !.got = o] \in Frame
    <2> TAKE i \in 1 .. n
    <2>1. stack[i] \in Frame
        BY <1>1, <1>2
    <2> QED
        BY <2>1 DEF Frame
<1>5. stack' \in [1 .. n -> Frame]
    BY <1>3, <1>4
<1>6. n \in Nat /\ stack' \in Seq(Frame) /\ Len(stack') = n /\ DOMAIN stack' = 1 .. n
    BY <1>1, <1>2, <1>5
<1>7. \A i \in 1 .. (n - 1) : stack'[i] = stack[i]
    BY <1>3, <1>6
<1>8. n >= 1 => stack'[n] = [stack[n] EXCEPT !.got = o]
    BY <1>3, <1>6
<1>9. n - 1 = Depth - 2 /\ (Depth > 1 <=> n >= 1)
    BY <1>1, <1>2
<1> QED
    BY <1>2, <1>6, <1>7, <1>8, <1>9 DEF Depth

LEMMA GoesOnShape ==
    ASSUME ChainInv, stack # <<>>, NEW g, Goto(g)
    PROVE  /\ DOMAIN stack' = 1 .. Depth /\ Depth' = Depth
           /\ \A i \in 1 .. (Depth - 1) : stack'[i] = stack[i]
           /\ stack'[Depth] = g
<1>1. Depth \in Nat \ {0} /\ stack \in Seq(Frame) /\ Depth = Len(stack)
    BY ChainTopFacts DEF Depth, ChainInv, ControlInv, ControlOK
<1>2. stack' = [stack EXCEPT ![Depth] = g]
    BY DEF Goto
<1>3. /\ stack' \in Seq(Frame \cup {g}) /\ Len(stack') = Depth /\ DOMAIN stack' = 1 .. Depth
      /\ \A i \in 1 .. (Depth - 1) : stack'[i] = stack[i]
      /\ stack'[Depth] = g
    BY <1>1, <1>2
<1>4. Depth' = Depth
    BY <1>3 DEF Depth
<1> QED
    BY <1>3, <1>4

LEMMA CallsShape ==
    ASSUME ChainInv, stack # <<>>, NEW c \in Cases,
           stack' = Append([stack EXCEPT ![Depth] = Waiting], NewFrame(c))
    PROVE  /\ DOMAIN stack' = 1 .. (Depth + 1) /\ Depth' = Depth + 1
           /\ \A i \in 1 .. (Depth - 1) : stack'[i] = stack[i]
           /\ stack'[Depth] = Waiting
           /\ stack'[Depth + 1] = NewFrame(c)
<1>1. Depth \in Nat \ {0} /\ stack \in Seq(Frame) /\ Depth = Len(stack)
    BY ChainTopFacts DEF Depth, ChainInv, ControlInv, ControlOK
<1> DEFINE base == [stack EXCEPT ![Depth] = Waiting]
<1>2. base \in Seq(Frame \cup {Waiting}) /\ Len(base) = Depth
      /\ base[Depth] = Waiting /\ \A i \in 1 .. (Depth - 1) : base[i] = stack[i]
    BY <1>1
<1>3. stack' = Append(base, NewFrame(c))
    OBVIOUS
<1> HIDE DEF base
<1>4. Len(stack') = Depth + 1 /\ DOMAIN stack' = 1 .. (Depth + 1)
    BY <1>1, <1>2, <1>3
<1>5. \A i \in 1 .. Depth : stack'[i] = base[i]
    BY <1>1, <1>2, <1>3
<1>6. stack'[Depth + 1] = NewFrame(c)
    BY <1>1, <1>2, <1>3
<1> QED
    BY <1>1, <1>2, <1>4, <1>5, <1>6 DEF Depth

(***************************************************************************)
(* Frames that hold in a stack of the same library hold in the next state. *)
(***************************************************************************)
LEMMA FramesStay ==
    ASSUME library' = library, \A i \in DOMAIN stack' : FrameHolds(stack'[i])
    PROVE  \A i \in DOMAIN stack' : FrameHolds(stack[i])'
    BY DEF FrameHolds, FrameOK, Frame, PlanFollowed, ChainSoFar, StepHeldSoFar

LEMMA RunKeepsChain == ChainInv /\ Run => ChainInv'
<1> SUFFICES ASSUME ChainInv, Run PROVE ChainInv'
    OBVIOUS
<1>1. ControlInv'
    BY RunKeepsControl, RunKeepsGuard DEF ChainInv, ControlInv
<1>2. /\ stack # <<>> /\ library' = library
      /\ \/ \E o \in Outcome : Returns(o)
         \/ \E g : GoesOn(g)
         \/ \E c \in Cases : Calls(c)
    BY RunMoves
<1>3. /\ FrameHolds(Top) /\ Top \in Frame
      /\ Depth \in Nat \ {0} /\ DOMAIN stack = 1 .. Depth /\ stack \in Seq(Frame)
      /\ Top = stack[Depth] /\ Plan = library[Top.case] /\ ThisStep = Plan.steps[Top.step]
    BY <1>2, ChainTopFacts DEF Depth, Top, Plan, ThisStep, ChainInv, ControlInv, ControlOK
<1>4. \A i \in 1 .. Depth : FrameHolds(stack[i]) /\ stack[i] \in Frame
    BY <1>3 DEF ChainInv
<1>5. CASE \E o \in Outcome : Returns(o)
    <2>1. PICK o \in Outcome : Finish(o)
        BY <1>5 DEF Returns
    <2>2. /\ DOMAIN stack' = 1 .. (Depth - 1) /\ Depth' = Depth - 1
          /\ \A i \in 1 .. (Depth - 2) : stack'[i] = stack[i]
          /\ Depth > 1 => stack'[Depth - 1] = [stack[Depth - 1] EXCEPT !.got = o]
        BY <2>1, <1>2, ReturnsShape
    <2>3. ASSUME Depth > 1
          PROVE  LET f == stack[Depth - 1] g == stack'[Depth - 1]
                 IN  /\ g \in Frame /\ g.case = f.case /\ g.step = f.step /\ g.ref = f.ref
                     /\ g.any = f.any /\ g.log = f.log /\ g.pc = f.pc
                     /\ FrameHolds(g)
        <3> DEFINE f == stack[Depth - 1]
                   g == stack'[Depth - 1]
        <3>1. Depth - 1 \in 1 .. Depth
            BY <1>3, <2>3
        <3>2. f \in Frame /\ FrameHolds(f)
            BY <3>1, <1>4
        <3>3. /\ g \in Frame /\ g.case = f.case /\ g.step = f.step /\ g.ref = f.ref
              /\ g.any = f.any /\ g.log = f.log /\ g.pc = f.pc
            BY <2>2, <2>3, <3>2 DEF Frame
        <3> HIDE DEF f, g
        <3>4. FrameHolds(g)
            BY <3>2, <3>3, SameChainHolds
        <3> QED
            BY <3>3, <3>4 DEF f, g
    <2>4. \A i \in DOMAIN stack' : FrameHolds(stack'[i])
        <3> TAKE i \in DOMAIN stack'
        <3>1. CASE i = Depth - 1
            BY <3>1, <2>2, <2>3, <1>3
        <3>2. CASE i # Depth - 1
            <4>1. i \in 1 .. (Depth - 2) /\ i \in 1 .. Depth
                BY <3>2, <2>2, <1>3
            <4> QED
                BY <4>1, <2>2, <1>4
        <3> QED
            BY <3>1, <3>2
    <2>5. \A i \in DOMAIN stack' : FrameHolds(stack[i])'
        BY <2>4, <1>2, FramesStay
    <2>6. CallersWait'
        <3> SUFFICES ASSUME NEW i \in 1 .. (Depth - 2)
                     PROVE  LET f == stack'[i]
                            IN  /\ f.pc = "back" /\ f.got = "none"
                                /\ stack'[i + 1].case = library[f.case].steps[f.step].refs[f.ref]
            <4>1. Depth' - 1 = Depth - 2
                BY <2>2, <1>3
            <4> QED
                BY <4>1, <1>2 DEF CallersWait
        <3>1. stack'[i] = stack[i] /\ i \in 1 .. (Depth - 1) /\ Depth > 1
            BY <2>2, <1>3
        <3>2. stack'[i + 1].case = stack[i + 1].case
            <4>1. CASE i + 1 = Depth - 1
                BY <4>1, <2>3, <3>1
            <4>2. CASE i + 1 # Depth - 1
                <5>1. i + 1 \in 1 .. (Depth - 2)
                    BY <4>2, <1>3
                <5> QED
                    BY <5>1, <2>2
            <4> QED
                BY <4>1, <4>2
        <3> QED
            BY <3>1, <3>2 DEF ChainInv, CallersWait
    <2>7. Running'
        <3>1. verdict = "running"
            BY <1>2 DEF ChainInv, Running
        <3>2. stack' = <<>> <=> Depth = 1
            <4>1. stack' \in Seq(Frame) /\ Len(stack') = Depth - 1
                BY <2>1, <1>2, ReturnsShape DEF Depth
            <4> QED
                BY <4>1, <1>3
        <3>3. verdict' = IF Depth = 1 THEN o ELSE verdict
            BY <2>1 DEF Finish
        <3> QED
            BY <3>1, <3>2, <3>3 DEF Running, Outcome
    <2> QED
        BY <1>1, <2>5, <2>6, <2>7 DEF ChainInv
<1>6. CASE \E g : GoesOn(g)
    <2>1. PICK g : GoesOn(g)
        BY <1>6
    <2>2. /\ DOMAIN stack' = 1 .. Depth /\ Depth' = Depth
          /\ \A i \in 1 .. (Depth - 1) : stack'[i] = stack[i]
          /\ stack'[Depth] = g
        BY <2>1, <1>2, GoesOnShape DEF GoesOn
    <2>3. \A i \in DOMAIN stack' : FrameHolds(stack'[i])
        <3> TAKE i \in DOMAIN stack'
        <3>1. CASE i = Depth
            BY <3>1, <2>1, <2>2 DEF GoesOn
        <3>2. CASE i # Depth
            <4>1. i \in 1 .. (Depth - 1) /\ i \in 1 .. Depth
                BY <3>2, <2>2, <1>3
            <4> QED
                BY <4>1, <2>2, <1>4
        <3> QED
            BY <3>1, <3>2
    <2>4. \A i \in DOMAIN stack' : FrameHolds(stack[i])'
        BY <2>3, <1>2, FramesStay
    <2>5. CallersWait'
        <3> SUFFICES ASSUME NEW i \in 1 .. (Depth - 1)
                     PROVE  LET f == stack'[i]
                            IN  /\ f.pc = "back" /\ f.got = "none"
                                /\ stack'[i + 1].case = library[f.case].steps[f.step].refs[f.ref]
            BY <2>2, <1>2 DEF CallersWait
        <3>1. stack'[i] = stack[i]
            BY <2>2
        <3>2. stack'[i + 1].case = stack[i + 1].case
            <4>1. CASE i + 1 = Depth
                BY <4>1, <2>1, <2>2, <1>3 DEF GoesOn
            <4>2. CASE i + 1 # Depth
                <5>1. i + 1 \in 1 .. (Depth - 1)
                    BY <4>2, <1>3
                <5> QED
                    BY <5>1, <2>2
            <4> QED
                BY <4>1, <4>2
        <3> QED
            BY <3>1, <3>2 DEF ChainInv, CallersWait
    <2>6. Running'
        <3>1. stack' # <<>>
            BY <2>2, <1>3
        <3> QED
            BY <3>1, <2>1, <1>2 DEF GoesOn, Goto, ChainInv, Running
    <2> QED
        BY <1>1, <2>4, <2>5, <2>6 DEF ChainInv
<1>7. CASE \E c \in Cases : Calls(c)
    <2>1. PICK c \in Cases : Calls(c)
        BY <1>7
    <2>2. /\ DOMAIN stack' = 1 .. (Depth + 1) /\ Depth' = Depth + 1
          /\ \A i \in 1 .. (Depth - 1) : stack'[i] = stack[i]
          /\ stack'[Depth] = Waiting
          /\ stack'[Depth + 1] = NewFrame(c)
        BY <2>1, <1>2, CallsShape DEF Calls
    <2>3. \A i \in DOMAIN stack' : FrameHolds(stack'[i])
        <3> TAKE i \in DOMAIN stack'
        <3>1. CASE i = Depth \/ i = Depth + 1
            BY <3>1, <2>1, <2>2 DEF Calls
        <3>2. CASE ~(i = Depth \/ i = Depth + 1)
            <4>1. i \in 1 .. (Depth - 1) /\ i \in 1 .. Depth
                BY <3>2, <2>2, <1>3
            <4> QED
                BY <4>1, <2>2, <1>4
        <3> QED
            BY <3>1, <3>2
    <2>4. \A i \in DOMAIN stack' : FrameHolds(stack[i])'
        BY <2>3, <1>2, FramesStay
    <2>5. /\ Waiting.case = Top.case /\ Waiting.pc = "back" /\ Waiting.got = "none"
          /\ Waiting.step = Top.step /\ Waiting.ref = Top.ref
          /\ NewFrame(c).case = c
        BY <1>3 DEF Waiting, Frame, NewFrame
    <2>6. CallersWait'
        <3> SUFFICES ASSUME NEW i \in 1 .. Depth
                     PROVE  LET f == stack'[i]
                            IN  /\ f.pc = "back" /\ f.got = "none"
                                /\ stack'[i + 1].case = library[f.case].steps[f.step].refs[f.ref]
            <4>1. Depth' - 1 = Depth
                BY <2>2, <1>3
            <4> QED
                BY <4>1, <1>2 DEF CallersWait
        <3>1. CASE i = Depth
            <4>1. stack'[i] = Waiting /\ stack'[i + 1].case = c
                BY <3>1, <2>2, <2>5
            <4>2. c = library[Top.case].steps[Top.step].refs[Top.ref]
                BY <2>1, <1>3 DEF Calls
            <4> QED
                BY <4>1, <4>2, <2>5
        <3>2. CASE i # Depth
            <4>1. stack'[i] = stack[i] /\ i \in 1 .. (Depth - 1)
                BY <3>2, <2>2, <1>3
            <4>2. stack'[i + 1].case = stack[i + 1].case
                <5>1. CASE i + 1 = Depth
                    BY <5>1, <2>2, <2>5, <1>3
                <5>2. CASE i + 1 # Depth
                    <6>1. i + 1 \in 1 .. (Depth - 1)
                        BY <5>2, <4>1, <1>3
                    <6> QED
                        BY <6>1, <2>2
                <5> QED
                    BY <5>1, <5>2
            <4> QED
                BY <4>1, <4>2 DEF ChainInv, CallersWait
        <3> QED
            BY <3>1, <3>2
    <2>7. Running'
        <3>1. stack' # <<>>
            BY <2>2, <1>3
        <3> QED
            BY <3>1, <2>1, <1>2 DEF Calls, ChainInv, Running
    <2> QED
        BY <1>1, <2>4, <2>6, <2>7 DEF ChainInv
<1> QED
    BY <1>2, <1>5, <1>6, <1>7

LEMMA InitEstablishesChain == Init => ChainInv
<1> SUFFICES ASSUME Init PROVE ChainInv
    OBVIOUS
<1>1. ControlInv
    BY InitEstablishesControl
<1>2. PICK c \in Cases : stack = <<NewFrame(c)>>
    BY DEF Init
<1>3. /\ NewFrame(c).case = c /\ NewFrame(c).pc = "plan" /\ NewFrame(c).step = 1
      /\ NewFrame(c).log = {}
    BY DEF NewFrame
<1>4. DOMAIN stack = {1} /\ stack[1] = NewFrame(c) /\ stack # <<>> /\ Depth = 1
    BY <1>2 DEF Depth
<1>5. FrameHolds(NewFrame(c))
    BY <1>1, <1>3, <1>4 DEF ControlInv, ControlOK, FrameHolds, PlanFollowed, ChainSoFar
<1> QED
    BY <1>1, <1>4, <1>5 DEF Init, ChainInv, CallersWait, Running

LEMMA ChainInvariant == Spec => []ChainInv
<1>1. ChainInv /\ [Next]_vars => ChainInv'
    <2> SUFFICES ASSUME ChainInv, [Next]_vars PROVE ChainInv'
        OBVIOUS
    <2>1. CASE Run
        BY <2>1, RunKeepsChain
    <2>2. CASE UNCHANGED vars
        <3>1. ControlInv'
            BY <2>2 DEF ChainInv, ControlInv, ControlOK, Guard, NoReentry, ActiveIsStack,
                        FrameOK, Frame, vars
        <3>2. \A i \in DOMAIN stack' : FrameHolds(stack[i])'
            BY <2>2, FramesStay DEF ChainInv, vars
        <3>3. CallersWait' /\ Running'
            BY <2>2 DEF ChainInv, CallersWait, Depth, Running, vars
        <3> QED
            BY <3>1, <3>2, <3>3 DEF ChainInv
    <2> QED
        BY <2>1, <2>2 DEF Next, Done
<1> QED
    BY InitEstablishesChain, <1>1, PTL DEF Spec

-----------------------------------------------------------------------------
(* The refinement of CaseNesting.                                          *)

Open == [i \in DOMAIN stack |-> stack[i].case]
Unwinding == stack # <<>> /\ Top.pc = "back" /\ Top.got = "abort"

LEMMA ReturnIsLeave ==
    ASSUME ChainInv, stack # <<>>, NEW o \in Outcome, Returns(o)
    PROVE  Nesting!Leave(o)
<1>1. /\ DOMAIN stack' = 1 .. (Depth - 1) /\ Depth' = Depth - 1
      /\ stack' \in Seq(Frame)
      /\ \A i \in 1 .. (Depth - 2) : stack'[i] = stack[i]
      /\ Depth > 1 => stack'[Depth - 1] = [stack[Depth - 1] EXCEPT !.got = o]
    BY ReturnsShape DEF Returns
<1>2. /\ Depth \in Nat \ {0} /\ DOMAIN stack = 1 .. Depth /\ Top = stack[Depth]
      /\ Top \in Frame /\ Top.case \in Cases
      /\ \A i \in 1 .. Depth : stack[i] \in Frame
    BY ChainTopFacts DEF ChainInv, ControlInv, ControlOK, Depth, Top
<1>3. /\ Open \in Seq(Cases) /\ Len(Open) = Depth /\ Open[Depth] = Top.case
      /\ \A i \in 1 .. Depth : Open[i] = stack[i].case
    <2>1. \A i \in 1 .. Depth : stack[i].case \in Cases
        BY <1>2 DEF Frame
    <2>2. Open = [i \in 1 .. Depth |-> stack[i].case]
        BY <1>2 DEF Open
    <2>3. Open \in Seq(Cases) /\ Len(Open) = Depth
        BY <1>2, <2>1, <2>2
    <2> QED
        BY <1>2, <2>2, <2>3
<1>4. \A i \in 1 .. (Depth - 1) : stack'[i].case = stack[i].case
    <2> TAKE i \in 1 .. (Depth - 1)
    <2>1. CASE i = Depth - 1
        <3>1. i \in 1 .. Depth /\ Depth > 1
            BY <1>2
        <3> QED
            BY <1>1, <1>2, <2>1, <3>1 DEF Frame
    <2>2. CASE i # Depth - 1
        <3>1. i \in 1 .. (Depth - 2)
            BY <1>2, <2>2
        <3> QED
            BY <1>1, <3>1
    <2> QED
        BY <2>1, <2>2
<1>5. Open' = SubSeq(Open, 1, Len(Open) - 1)
    <2>1. Open' = [i \in 1 .. (Depth - 1) |-> stack[i].case]
        BY <1>1, <1>4 DEF Open
    <2>2. PICK n \in Nat : n = Depth - 1
        BY <1>2
    <2>3. SubSeq(Open, 1, n) \in Seq(Cases) /\ Len(SubSeq(Open, 1, n)) = n
          /\ \A i \in 1 .. n : SubSeq(Open, 1, n)[i] = Open[i]
        BY <1>2, <1>3, <2>2
    <2>4. \A i \in 1 .. n : Open[i] = stack[i].case
        BY <1>2, <1>3, <2>2
    <2> DEFINE front == SubSeq(Open, 1, n)
    <2>5. front = [i \in 1 .. n |-> front[i]] /\ \A i \in 1 .. n : front[i] = stack[i].case
        BY <2>3, <2>4
    <2> HIDE DEF front
    <2>6. front = [i \in 1 .. n |-> stack[i].case]
        BY <2>5
    <2> QED
        BY <1>3, <2>1, <2>2, <2>6 DEF front
<1>6. Unwinding = Aborting(Top)
    BY DEF Unwinding, Aborting
<1>7. Unwinding' = (o = "abort" /\ Depth > 1)
    <2>1. CASE Depth = 1
        <3>1. stack' = <<>>
            BY <1>1, <1>2, <2>1
        <3> QED
            BY <3>1, <2>1 DEF Unwinding
    <2>2. CASE Depth > 1
        <3>1. stack' # <<>> /\ Top' = stack'[Depth - 1]
            BY <1>1, <1>2, <2>2 DEF Top
        <3>2. stack[Depth - 1].pc = "back" /\ stack[Depth - 1] \in Frame
            <4>1. Depth - 1 \in 1 .. (Depth - 1) /\ Depth - 1 \in 1 .. Depth
                BY <1>2, <2>2
            <4> QED
                BY <4>1, <1>2 DEF ChainInv, CallersWait
        <3>3. Top'.pc = "back" /\ Top'.got = o
            BY <1>1, <2>2, <3>1, <3>2 DEF Frame
        <3> QED
            BY <2>2, <3>1, <3>3 DEF Unwinding
    <2> QED
        BY <1>2, <2>1, <2>2
<1>8. rows' = Append(rows, [case |-> Open[Len(Open)], status |-> Nesting!RowStatus(o)])
    BY <1>3 DEF Returns, Finish, Verdict, Nesting!RowStatus
<1>9. verdict' = IF Len(Open) = 1 THEN o ELSE verdict
    BY <1>3 DEF Returns, Finish
<1>10. Open # <<>>
    BY <1>2, <1>3
<1>11. Unwinding => o = "abort"
    BY <1>6 DEF Returns
<1> QED
    BY <1>3, <1>5, <1>7, <1>8, <1>9, <1>10, <1>11 DEF Nesting!Leave, Open, Unwinding

LEMMA GoingOnIsNoStep ==
    ASSUME ChainInv, stack # <<>>, NEW g, GoesOn(g)
    PROVE  UNCHANGED Nesting!vars
<1>1. /\ DOMAIN stack' = 1 .. Depth /\ Depth' = Depth
      /\ \A i \in 1 .. (Depth - 1) : stack'[i] = stack[i]
      /\ stack'[Depth] = g
    BY GoesOnShape DEF GoesOn
<1>2. /\ Depth \in Nat \ {0} /\ DOMAIN stack = 1 .. Depth /\ Top = stack[Depth]
    BY ChainTopFacts DEF ChainInv, ControlInv, ControlOK, Depth, Top
<1>3. \A i \in 1 .. Depth : stack'[i].case = stack[i].case
    <2> TAKE i \in 1 .. Depth
    <2>1. CASE i = Depth
        BY <1>1, <1>2, <2>1 DEF GoesOn
    <2>2. CASE i # Depth
        <3>1. i \in 1 .. (Depth - 1)
            BY <1>2, <2>2
        <3> QED
            BY <1>1, <3>1
    <2> QED
        BY <2>1, <2>2
<1>4. Open' = Open
    BY <1>1, <1>2, <1>3 DEF Open
<1>5. Unwinding' = FALSE /\ Unwinding = FALSE
    BY <1>1 DEF Unwinding, GoesOn, Aborting, Top
<1>6. UNCHANGED <<rows, verdict>>
    BY DEF GoesOn, Goto
<1> QED
    BY <1>4, <1>5, <1>6 DEF Nesting!vars, Open, Unwinding

LEMMA CallIsEnter ==
    ASSUME ChainInv, stack # <<>>, NEW c \in Cases, Calls(c)
    PROVE  Nesting!Enter(c)
<1>1. /\ DOMAIN stack' = 1 .. (Depth + 1) /\ Depth' = Depth + 1
      /\ \A i \in 1 .. (Depth - 1) : stack'[i] = stack[i]
      /\ stack'[Depth] = Waiting
      /\ stack'[Depth + 1] = NewFrame(c)
    BY CallsShape DEF Calls
<1>2. /\ Depth \in Nat \ {0} /\ DOMAIN stack = 1 .. Depth /\ Top = stack[Depth]
      /\ Top \in Frame
      /\ \A i \in 1 .. Depth : stack[i] \in Frame
    BY ChainTopFacts DEF ChainInv, ControlInv, ControlOK, Depth, Top
<1>3. Waiting.case = Top.case /\ NewFrame(c).case = c /\ NewFrame(c).pc = "plan"
    BY <1>2 DEF Waiting, Frame, NewFrame
<1>4. \A i \in 1 .. Depth : stack'[i].case = stack[i].case
    <2> TAKE i \in 1 .. Depth
    <2>1. CASE i = Depth
        BY <1>1, <1>2, <1>3, <2>1
    <2>2. CASE i # Depth
        <3>1. i \in 1 .. (Depth - 1)
            BY <1>2, <2>2
        <3> QED
            BY <1>1, <3>1
    <2> QED
        BY <2>1, <2>2
<1>5. Open \in Seq(Cases) /\ Len(Open) = Depth /\ \A i \in 1 .. Depth : Open[i] = stack[i].case
    <2>1. \A i \in 1 .. Depth : stack[i].case \in Cases
        BY <1>2 DEF Frame
    <2>2. Open = [i \in 1 .. Depth |-> stack[i].case]
        BY <1>2 DEF Open
    <2>3. Open \in Seq(Cases) /\ Len(Open) = Depth
        BY <1>2, <2>1, <2>2
    <2> QED
        BY <1>2, <2>2, <2>3
<1>6. Open' = Append(Open, c)
    <2>1. Open' = [i \in 1 .. (Depth + 1) |-> stack'[i].case]
        BY <1>1 DEF Open
    <2> DEFINE longer == Append(Open, c)
    <2>2. /\ longer \in Seq(Cases) /\ DOMAIN longer = 1 .. (Depth + 1)
          /\ \A i \in 1 .. Depth : longer[i] = Open[i]
          /\ longer[Depth + 1] = c
        BY <1>2, <1>5
    <2> HIDE DEF longer
    <2>3. \A i \in 1 .. (Depth + 1) : longer[i] = stack'[i].case
        <3> TAKE i \in 1 .. (Depth + 1)
        <3>1. CASE i = Depth + 1
            BY <1>1, <1>3, <2>2, <3>1
        <3>2. CASE i # Depth + 1
            <4>1. i \in 1 .. Depth
                BY <1>2, <3>2
            <4> QED
                BY <4>1, <1>4, <1>5, <2>2
        <3> QED
            BY <3>1, <3>2
    <2>4. longer = [i \in 1 .. (Depth + 1) |-> longer[i]]
        BY <2>2
    <2>5. longer = [i \in 1 .. (Depth + 1) |-> stack'[i].case]
        BY <2>3, <2>4
    <2> QED
        BY <2>1, <2>5 DEF longer
<1>7. Unwinding = FALSE /\ Unwinding' = FALSE
    BY <1>1, <1>3 DEF Unwinding, Calls, Top
<1>8. \A i \in DOMAIN Open : Open[i] # c
    <2>1. c \notin active
        BY DEF Calls, Refused
    <2> QED
        BY <2>1, <1>2, <1>5 DEF ChainInv, ControlInv, Guard, ActiveIsStack
<1>9. Open # <<>>
    BY <1>2, <1>5
<1>10. UNCHANGED <<rows, verdict>>
    BY DEF Calls
<1> QED
    BY <1>6, <1>7, <1>8, <1>9, <1>10 DEF Nesting!Enter, Open, Unwinding

(***************************************************************************)
(* Whatever the chains between the cases say, a run of run_case is one of  *)
(* CaseNesting: entering a case that is not open, leaving the innermost    *)
(* one with its row, and unwinding all of them on an abort.  Every other   *)
(* step goes on inside the innermost case.                                 *)
(***************************************************************************)
THEOREM RunsAreNested == Spec => ImplementsCaseNesting
<1>1. Init => Nesting!Init
    <2> SUFFICES ASSUME Init PROVE Nesting!Init
        OBVIOUS
    <2>1. PICK c \in Cases : stack = <<NewFrame(c)>>
        BY DEF Init
    <2>2. DOMAIN stack = {1} /\ stack[1].case = c /\ Top.pc = "plan"
        BY <2>1 DEF NewFrame, Top, Depth
    <2>3. Open = <<c>>
        BY <2>2 DEF Open
    <2>4. Unwinding = FALSE
        BY <2>2 DEF Unwinding
    <2> QED
        BY <2>3, <2>4 DEF Init, Nesting!Init, Open, Unwinding
<1>2. ChainInv /\ [Next]_vars => [Nesting!Next]_(Nesting!vars)
    <2> SUFFICES ASSUME ChainInv, [Next]_vars PROVE [Nesting!Next]_(Nesting!vars)
        OBVIOUS
    <2>1. CASE Run
        <3>1. /\ stack # <<>>
              /\ \/ \E o \in Outcome : Returns(o)
                 \/ \E g : GoesOn(g)
                 \/ \E c \in Cases : Calls(c)
            BY <2>1, RunMoves
        <3>2. CASE \E o \in Outcome : Returns(o)
            <4>1. \E o \in Outcome : Nesting!Leave(o)
                BY <3>1, <3>2, ReturnIsLeave
            <4> QED
                BY <4>1 DEF Nesting!Next, Nesting!Status, Outcome
        <3>3. CASE \E g : GoesOn(g)
            BY <3>1, <3>3, GoingOnIsNoStep
        <3>4. CASE \E c \in Cases : Calls(c)
            BY <3>1, <3>4, CallIsEnter DEF Nesting!Next
        <3> QED
            BY <3>1, <3>2, <3>3, <3>4
    <2>2. CASE UNCHANGED vars
        BY <2>2 DEF vars, Nesting!vars, Top, Depth
    <2> QED
        BY <2>1, <2>2 DEF Next, Done
<1> QED
    BY <1>1, <1>2, ChainInvariant, PTL DEF Spec, ImplementsCaseNesting, Nesting!Spec

-----------------------------------------------------------------------------
(* What a pass says.                                                       *)

(***************************************************************************)
(* Where every step must hold, a failed row is followed by nothing but     *)
(* failures until the run is over.                                         *)
(***************************************************************************)
FailureTravels ==
    AllMust /\ (\E i \in DOMAIN rows : rows[i].status = "fail") =>
        IF stack = <<>> THEN verdict \in {"fail", "abort"} ELSE Failing(Top)

LEMMA RunKeepsFailure == ChainInv /\ FailureTravels /\ Run => FailureTravels'
<1> SUFFICES ASSUME ChainInv, FailureTravels, Run, AllMust',
                    \E i \in DOMAIN rows' : rows'[i].status = "fail"
             PROVE  IF stack' = <<>> THEN verdict' \in {"fail", "abort"} ELSE Failing(Top)'
    BY DEF FailureTravels
<1>1. /\ stack # <<>> /\ library' = library
      /\ \/ \E o \in Outcome : Returns(o)
         \/ \E g : GoesOn(g)
         \/ \E c \in Cases : Calls(c)
    BY RunMoves
<1>2. AllMust
    BY <1>1 DEF AllMust
<1>3. rows \in Seq([case : Cases, status : {"pass", "fail"}])
    BY DEF ChainInv, ControlInv, ControlOK
<1>4. ASSUME \E i \in DOMAIN rows : rows[i].status = "fail" PROVE Failing(Top)
    BY <1>1, <1>2, <1>4 DEF FailureTravels
<1>5. ASSUME NEW o \in Outcome, Returns(o)
      PROVE  IF stack' = <<>> THEN verdict' \in {"fail", "abort"} ELSE Failing(Top)'
    <2>1. /\ DOMAIN stack' = 1 .. (Depth - 1) /\ Depth' = Depth - 1
          /\ Depth > 1 => stack'[Depth - 1] = [stack[Depth - 1] EXCEPT !.got = o]
        BY <1>1, <1>5, ReturnsShape DEF Returns
    <2>2. Depth \in Nat \ {0} /\ \A i \in 1 .. Depth : stack[i] \in Frame
        BY <1>1, ChainTopFacts DEF ChainInv, ControlInv, ControlOK, Depth
    <2>3. o # "pass"
        <3> SUFFICES ASSUME o = "pass" PROVE FALSE
            OBVIOUS
        <3>1. rows' = Append(rows, [case |-> Top.case, status |-> "pass"])
            BY <1>5 DEF Returns, Finish, Verdict
        <3>2. \E i \in DOMAIN rows : rows[i].status = "fail"
            <4>1. Top.case \in Cases
                BY <1>1, ChainTopFacts
            <4>2. PICK i \in DOMAIN rows' : rows'[i].status = "fail"
                OBVIOUS
            <4>3. i \in DOMAIN rows /\ rows[i] = rows'[i]
                BY <1>3, <3>1, <4>1, <4>2
            <4> QED
                BY <4>2, <4>3
        <3> QED
            BY <1>2, <1>4, <1>5, <3>2 DEF Returns
    <2>4. o \in {"fail", "abort"}
        BY <2>3 DEF Outcome
    <2>5. CASE Depth = 1
        <3>1. verdict' = o
            BY <1>5, <2>5 DEF Returns, Finish
        <3>2. stack' = <<>>
            BY <1>1, <1>5, <2>1, <2>5, ReturnsShape DEF Returns
        <3> QED
            BY <2>4, <3>1, <3>2
    <2>6. CASE Depth > 1
        <3>1. stack' # <<>> /\ Top' = stack'[Depth - 1]
            BY <2>1, <2>2, <2>6 DEF Top
        <3>2. stack[Depth - 1].pc = "back" /\ stack[Depth - 1] \in Frame
            <4>1. Depth - 1 \in 1 .. (Depth - 1) /\ Depth - 1 \in 1 .. Depth
                BY <2>2, <2>6
            <4> QED
                BY <4>1, <2>2 DEF ChainInv, CallersWait
        <3>3. Top'.pc = "back" /\ Top'.got = o
            BY <2>1, <2>6, <3>1, <3>2 DEF Frame
        <3> QED
            BY <2>4, <3>1, <3>3 DEF Failing
    <2> QED
        BY <2>2, <2>5, <2>6
<1>6. ASSUME NEW g, GoesOn(g) PROVE FALSE
    BY <1>2, <1>4, <1>6 DEF GoesOn, Goto
<1>7. ASSUME NEW c \in Cases, Calls(c) PROVE FALSE
    BY <1>4, <1>7 DEF Calls, Failing
<1> QED
    BY <1>1, <1>5, <1>6, <1>7

(***************************************************************************)
(* The harness that passed was allowed to start, and no row below it       *)
(* failed unseen, for every library of cases.                              *)
(***************************************************************************)
THEOREM PassMeansTheChainHeld == Spec => []PassMeansChainHeld
<1>1. Init => FailureTravels
    BY DEF Init, FailureTravels
<1>2. ChainInv /\ FailureTravels /\ [Next]_vars => FailureTravels'
    <2> SUFFICES ASSUME ChainInv, FailureTravels, [Next]_vars PROVE FailureTravels'
        OBVIOUS
    <2>1. CASE Run
        BY <2>1, RunKeepsFailure
    <2>2. CASE UNCHANGED vars
        BY <2>2 DEF vars, FailureTravels, Failing, Top, Depth, AllMust
    <2> QED
        BY <2>1, <2>2 DEF Next, Done
<1>3. ChainInv => ChainHeldBeforeHarness
    <2> SUFFICES ASSUME ChainInv, NEW i \in DOMAIN stack, stack[i].pc = "harness",
                        NEW k \in DOMAIN library[stack[i].case].steps,
                        Strict(library[stack[i].case], library[stack[i].case].steps[k])
                 PROVE  StepHeld(library[stack[i].case], stack[i].log, k)
        BY DEF ChainHeldBeforeHarness, Strict
    <2> DEFINE f == stack[i]
               d == library[f.case]
    <2>1. FrameHolds(f)
        BY DEF ChainInv
    <2>2. d.steps \in Seq(Step)
        <3>1. f.case \in Cases
            BY <2>1 DEF FrameHolds, FrameOK, Frame
        <3> QED
            BY <3>1, LibrariesAssumption DEF ChainInv, ControlInv, ControlOK, CaseDef
    <2>3. f.step = Len(d.steps) + 1
        BY <2>1 DEF FrameHolds, PlanFollowed
    <2>4. k \in 1 .. (f.step - 1)
        BY <2>2, <2>3
    <2> QED
        BY <2>1, <2>4 DEF FrameHolds, ChainSoFar
<1>4. ChainInv /\ FailureTravels => PassHidesNoFailure
    <2> SUFFICES ASSUME ChainInv, FailureTravels, AllMust, verdict = "pass",
                        NEW i \in DOMAIN rows
                 PROVE  rows[i].status = "pass"
        BY DEF PassHidesNoFailure
    <2>1. stack = <<>>
        BY DEF ChainInv, Running
    <2>2. rows[i].status # "fail"
        BY <2>1 DEF FailureTravels
    <2>3. rows[i].status \in {"pass", "fail"}
        <3> DEFINE Row == [case : Cases, status : {"pass", "fail"}]
        <3>1. rows \in Seq(Row)
            BY DEF ChainInv, ControlInv, ControlOK
        <3>2. \A r \in Row : r.status \in {"pass", "fail"}
            OBVIOUS
        <3> HIDE DEF Row
        <3>3. rows[i] \in Row
            BY <3>1
        <3> QED
            BY <3>2, <3>3
    <2> QED
        BY <2>2, <2>3
<1> QED
    BY <1>1, <1>2, <1>3, <1>4, ChainInvariant, PTL DEF Spec, PassMeansChainHeld

-----------------------------------------------------------------------------
(* The trace of a flat chain.                                              *)

(***************************************************************************)
(* The chain trace has the rows of the frame's own log, and a frame that   *)
(* has not started its chain has logged nothing.                           *)
(***************************************************************************)
TraceBound(f, trace) ==
    /\ f.pc = "plan" => f.log = {}
    /\ f.pc \in {"step", "ref", "back"} => RowsIn(trace) = OwnRows(library[f.case], f.log)

FlatTracesAreBound ==
    \A i \in DOMAIN stack : Flat(stack[i].case) => TraceBound(stack[i], chainTrace)

FlatInv == FlatTracesAreBound /\ FlatChainsKeepTheirTrace

\* KeepsItsTrace, of a plan, a log and a payload that are given.
TraceKeptIn(d, log, payload) ==
    d.steps # <<>> => payload.set /\ RowsIn(payload.trace) = OwnRows(d, log)

(***************************************************************************)
(* A row more in the trace is a row more of the log it was written for.    *)
(***************************************************************************)
LEMMA RowIsAdded ==
    ASSUME NEW S, NEW trace \in Seq(S), NEW d, NEW log, NEW e,
           RowsIn(trace) = OwnRows(d, log)
    PROVE  RowsIn(Append(trace, OwnRow(d, e))) = OwnRows(d, log \cup {e})
<1> DEFINE r == OwnRow(d, e)
<1>1. trace \in Seq(S \cup {r})
    OBVIOUS
<1>2. OwnRows(d, log \cup {e}) = OwnRows(d, log) \cup {r}
    BY DEF OwnRows
<1> HIDE DEF r
<1>3. RowsIn(Append(trace, r)) = RowsIn(trace) \cup {r}
    <2>1. /\ Len(trace) \in Nat /\ DOMAIN trace = 1 .. Len(trace)
          /\ DOMAIN Append(trace, r) = 1 .. (Len(trace) + 1)
          /\ \A i \in 1 .. Len(trace) : Append(trace, r)[i] = trace[i]
          /\ Append(trace, r)[Len(trace) + 1] = r
        BY <1>1
    <2>2. \A i \in 1 .. (Len(trace) + 1) : i \in 1 .. Len(trace) \/ i = Len(trace) + 1
        BY <2>1
    <2> QED
        BY <2>1, <2>2 DEF RowsIn
<1> QED
    BY <1>2, <1>3 DEF r

(***************************************************************************)
(* A frame that waits for its callee stands at a reference of a step.      *)
(***************************************************************************)
LEMMA WaitingFrameIsInPlan ==
    ASSUME NEW f \in Frame, FrameHolds(f), f.pc = "back",
           NEW d \in CaseDef, d = library[f.case]
    PROVE  /\ f.step \in DOMAIN d.steps /\ f.ref \in DOMAIN d.steps[f.step].refs
           /\ ~CompileOnly(d, d.steps[f.step])
<1>1. /\ f.step \in 1 .. Len(d.steps) + 1 /\ f.step <= Len(d.steps)
      /\ f.ref \in 1 .. Len(d.steps[f.step].refs) + 1
      /\ f.ref <= Len(d.steps[f.step].refs)
      /\ ~CompileOnly(d, d.steps[f.step])
    BY DEF FrameHolds, FrameOK, PlanFollowed
<1>2. d.steps \in Seq(Step) /\ f.step \in Nat /\ f.ref \in Nat
    BY DEF CaseDef, Frame
<1>3. f.step \in DOMAIN d.steps
    BY <1>1, <1>2
<1>4. PICK s \in Step : s = d.steps[f.step]
    BY <1>2, <1>3
<1>5. s.refs \in Seq(Cases)
    BY DEF Step
<1>6. f.ref \in DOMAIN s.refs
    <2>1. f.ref \in 1 .. Len(s.refs) + 1 /\ f.ref <= Len(s.refs)
        BY <1>1, <1>4
    <2>2. Len(s.refs) \in Nat /\ DOMAIN s.refs = 1 .. Len(s.refs)
        BY <1>5
    <2> HIDE <1>1, <1>2, <1>3
    <2> QED
        BY <2>1, <2>2
<1> QED
    BY <1>1, <1>3, <1>4, <1>6

(***************************************************************************)
(* Below the top there is at most one flat chain, the caller of the top    *)
(* frame, which then has no chain of its own.                              *)
(***************************************************************************)
LEMMA FlatCallsChainless ==
    ASSUME ChainInv, stack # <<>>, NEW i \in 1 .. (Depth - 1), Flat(stack[i].case)
    PROVE  Top.pc \in {"plan", "harness"} /\ (PlanCompiles(Plan) => Plan.steps = <<>>)
<1>1. /\ Depth \in Nat \ {0} /\ DOMAIN stack = 1 .. Depth /\ Top = stack[Depth]
      /\ Plan = library[Top.case]
      /\ \A j \in 1 .. Depth : stack[j] \in Frame /\ FrameHolds(stack[j])
    BY ChainTopFacts DEF ChainInv, ControlInv, ControlOK, Depth, Top
<1> DEFINE f == stack[i]
           d == library[f.case]
           g == stack[i + 1]
<1>2. i \in 1 .. Depth /\ i + 1 \in 1 .. Depth
    BY <1>1
<1>3. f.pc = "back" /\ g.case = d.steps[f.step].refs[f.ref]
    BY DEF ChainInv, CallersWait
<1>4. f \in Frame /\ FrameHolds(f) /\ library[f.case] \in CaseDef
    BY <1>1, <1>2, LibrariesAssumption DEF Frame, ChainInv, ControlInv, ControlOK
<1>5. /\ f.step \in DOMAIN d.steps /\ f.ref \in DOMAIN d.steps[f.step].refs
      /\ ~CompileOnly(d, d.steps[f.step])
    BY <1>3, <1>4, WaitingFrameIsInPlan
<1>6. PlanCompiles(library[g.case]) => library[g.case].steps = <<>>
    <2>1. \A k \in DOMAIN library[stack[i].case].steps :
             ~CompileOnly(library[stack[i].case], library[stack[i].case].steps[k]) =>
                \A r \in DOMAIN library[stack[i].case].steps[k].refs :
                    LET e == library[library[stack[i].case].steps[k].refs[r]]
                    IN  PlanCompiles(e) => e.steps = <<>>
        BY Zenon DEF Flat
    <2> QED
        BY <2>1, <1>3, <1>5, Zenon
<1>7. FrameHolds(g)
    BY <1>1, <1>2
<1>8. g.pc \in {"plan", "harness"}
    BY <1>6, <1>7 DEF FrameHolds, PlanFollowed
<1>9. i + 1 = Depth
    <2> SUFFICES ASSUME i + 1 # Depth PROVE FALSE
        OBVIOUS
    <2>1. i + 1 \in 1 .. (Depth - 1)
        BY <1>1, <1>2
    <2>2. g.pc = "back"
        BY <2>1 DEF ChainInv, CallersWait
    <2> QED
        BY <2>2, <1>8
<1>10. g = Top
    BY <1>1, <1>9
<1> QED
    BY <1>1, <1>6, <1>8, <1>10

(***************************************************************************)
(* The documents do not change: what the next frames have in the trace can *)
(* be said with the library of today.                                      *)
(***************************************************************************)
LEMMA FlatNext ==
    ASSUME library' = library
    PROVE  FlatTracesAreBound' <=>
             \A i \in DOMAIN stack' :
                Flat(stack'[i].case) => TraceBound(stack'[i], chainTrace')
    BY DEF FlatTracesAreBound, Flat, CompileOnly, PlanCompiles, TraceBound

LEMMA HarnessNext ==
    ASSUME library' = library
    PROVE  FlatChainsKeepTheirTrace' <=>
             \A i \in DOMAIN stack' :
                stack'[i].pc = "harness" /\ Flat(stack'[i].case) =>
                    TraceKeptIn(library[stack'[i].case], stack'[i].log,
                                payloads'[stack'[i].case])
    BY DEF FlatChainsKeepTheirTrace, Flat, CompileOnly, PlanCompiles, KeepsItsTrace, TraceKeptIn

(***************************************************************************)
(* Leaving a frame puts no caller at its harness; the row the frame may    *)
(* have written last is not in the trace of a flat caller, for the frame   *)
(* had a chain.                                                            *)
(***************************************************************************)
LEMMA LeavingKeepsFlat ==
    ASSUME ChainInv, FlatInv, stack # <<>>, library' = library,
           (PlanCompiles(Plan) => Plan.steps = <<>>) => chainTrace' = chainTrace,
           NEW o \in Outcome, Finish(o)
    PROVE  FlatInv'
<1>1. /\ DOMAIN stack' = 1 .. (Depth - 1)
      /\ \A i \in 1 .. (Depth - 2) : stack'[i] = stack[i]
      /\ Depth > 1 => stack'[Depth - 1] = [stack[Depth - 1] EXCEPT !.got = o]
    BY ReturnsShape
<1>2. /\ Depth \in Nat \ {0} /\ DOMAIN stack = 1 .. Depth
      /\ \A i \in 1 .. Depth : stack[i] \in Frame
    BY ChainTopFacts DEF ChainInv, ControlInv, ControlOK, Depth
<1>3. \A i \in 1 .. (Depth - 1) :
        /\ i \in DOMAIN stack /\ stack[i].pc = "back"
        /\ stack'[i].case = stack[i].case
        /\ stack'[i].pc = stack[i].pc
        /\ stack'[i].log = stack[i].log
    <2> TAKE i \in 1 .. (Depth - 1)
    <2>1. i \in 1 .. Depth /\ stack[i] \in Frame /\ stack[i].pc = "back"
        BY <1>2 DEF ChainInv, CallersWait
    <2>2. CASE i = Depth - 1
        <3>1. Depth > 1
            BY <1>2
        <3>2. stack'[i] = [stack[i] EXCEPT !.got = o]
            BY <3>1, <1>1, <2>2
        <3> QED
            BY <3>2, <2>1, <1>2 DEF Frame
    <2>3. CASE i # Depth - 1
        <3>1. i \in 1 .. (Depth - 2)
            BY <2>3, <1>2
        <3> QED
            BY <3>1, <2>1, <1>1, <1>2
    <2> QED
        BY <2>2, <2>3
<1>4. FlatTracesAreBound'
    <2> SUFFICES ASSUME NEW i \in 1 .. (Depth - 1), Flat(stack'[i].case)
                 PROVE  TraceBound(stack'[i], chainTrace')
        BY <1>1, FlatNext
    <2>1. Flat(stack[i].case)
        BY <1>3, Zenon
    <2>2. TraceBound(stack[i], chainTrace)
        BY <2>1, <1>3 DEF FlatInv, FlatTracesAreBound
    <2>3. chainTrace' = chainTrace
        BY <2>1, FlatCallsChainless
    <2> QED
        BY <2>2, <2>3, <1>3 DEF TraceBound
<1>5. FlatChainsKeepTheirTrace'
    BY <1>1, <1>3 DEF FlatChainsKeepTheirTrace
<1> QED
    BY <1>4, <1>5 DEF FlatInv

(***************************************************************************)
(* Calling a case leaves the trace to it.                                  *)
(***************************************************************************)
LEMMA CallingKeepsFlat ==
    ASSUME ChainInv, FlatInv, stack # <<>>, UNCHANGED <<library, chainTrace>>,
           Top.pc = "ref", NEW c \in Cases,
           stack' = Append([stack EXCEPT ![Depth] = Waiting], NewFrame(c))
    PROVE  FlatInv'
<1>1. /\ DOMAIN stack' = 1 .. (Depth + 1)
      /\ \A i \in 1 .. (Depth - 1) : stack'[i] = stack[i]
      /\ stack'[Depth] = Waiting
      /\ stack'[Depth + 1] = NewFrame(c)
    BY CallsShape
<1>2. /\ Depth \in Nat \ {0} /\ DOMAIN stack = 1 .. Depth /\ Top = stack[Depth]
      /\ Top \in Frame
    BY ChainTopFacts DEF ChainInv, ControlInv, ControlOK, Depth, Top
<1>3. /\ Waiting.case = Top.case /\ Waiting.log = Top.log /\ Waiting.pc = "back"
      /\ Top.pc = "ref" /\ NewFrame(c).pc = "plan" /\ NewFrame(c).log = {}
    BY <1>2 DEF Waiting, Frame, NewFrame
<1>4. \A i \in 1 .. (Depth - 1) : i \in DOMAIN stack /\ stack[i].pc = "back"
    BY <1>2 DEF ChainInv, CallersWait
<1>5. \A i \in 1 .. (Depth + 1) : i \in 1 .. (Depth - 1) \/ i = Depth \/ i = Depth + 1
    BY <1>2
<1>6. FlatTracesAreBound'
    <2> SUFFICES ASSUME NEW i \in 1 .. (Depth + 1), Flat(stack'[i].case)
                 PROVE  TraceBound(stack'[i], chainTrace')
        BY <1>1, FlatNext
    <2>1. CASE i \in 1 .. (Depth - 1)
        BY <2>1, <1>1, <1>4, Zenon DEF FlatInv, FlatTracesAreBound
    <2>2. CASE i = Depth
        <3>1. Flat(Top.case) /\ Depth \in DOMAIN stack
            BY <2>2, <1>1, <1>2, <1>3
        <3>2. TraceBound(Top, chainTrace)
            BY <3>1, <1>2 DEF FlatInv, FlatTracesAreBound
        <3> QED
            BY <2>2, <3>2, <1>1, <1>3 DEF TraceBound
    <2>3. CASE i = Depth + 1
        <3>1. stack'[i].pc = "plan" /\ stack'[i].log = {}
            BY <2>3, <1>1, <1>3
        <3> QED
            BY <3>1 DEF TraceBound
    <2> QED
        BY <2>1, <2>2, <2>3, <1>5
<1>7. \A i \in 1 .. (Depth + 1) : stack'[i].pc # "harness"
    BY <1>1, <1>3, <1>4, <1>5
<1>8. FlatChainsKeepTheirTrace'
    BY <1>1, <1>7 DEF FlatChainsKeepTheirTrace
<1> QED
    BY <1>6, <1>8 DEF FlatInv

(***************************************************************************)
(* Going on in the top frame: it answers for its own chain alone, for only *)
(* a frame without one has a flat caller.                                  *)
(***************************************************************************)
LEMMA GoingOnKeepsFlat ==
    ASSUME ChainInv, FlatInv, stack # <<>>, library' = library,
           NEW g, Goto(g), NEW c, c = Top.case, g.case = c,
           (PlanCompiles(Plan) => Plan.steps = <<>>) => chainTrace' = chainTrace,
           Flat(c) => TraceBound(g, chainTrace'),
           g.pc = "harness" /\ Flat(c) => TraceKeptIn(Plan, g.log, payloads'[c])
    PROVE  FlatInv'
<1>1. /\ DOMAIN stack' = 1 .. Depth
      /\ \A i \in 1 .. (Depth - 1) : stack'[i] = stack[i]
      /\ stack'[Depth] = g
    BY GoesOnShape
<1>2. /\ Depth \in Nat \ {0} /\ DOMAIN stack = 1 .. Depth /\ Top = stack[Depth]
    BY ChainTopFacts DEF ChainInv, ControlInv, ControlOK, Depth, Top
<1>3. \A i \in 1 .. (Depth - 1) : i \in DOMAIN stack /\ stack[i].pc = "back"
    BY <1>2 DEF ChainInv, CallersWait
<1>4. \A i \in 1 .. Depth : i \in 1 .. (Depth - 1) \/ i = Depth
    BY <1>2
<1>5. FlatTracesAreBound'
    <2> SUFFICES ASSUME NEW i \in 1 .. Depth, Flat(stack'[i].case)
                 PROVE  TraceBound(stack'[i], chainTrace')
        BY <1>1, FlatNext
    <2>1. CASE i \in 1 .. (Depth - 1)
        <3>1. stack'[i] = stack[i] /\ Flat(stack[i].case) /\ i \in DOMAIN stack
            BY <2>1, <1>1, <1>3
        <3>2. chainTrace' = chainTrace
            BY <3>1, <2>1, FlatCallsChainless
        <3> QED
            BY <3>1, <3>2 DEF FlatInv, FlatTracesAreBound
    <2>2. CASE i = Depth
        BY <2>2, <1>1
    <2> QED
        BY <2>1, <2>2, <1>4
<1>6. FlatChainsKeepTheirTrace'
    <2> SUFFICES ASSUME NEW i \in 1 .. Depth, stack'[i].pc = "harness", Flat(stack'[i].case)
                 PROVE  TraceKeptIn(library[stack'[i].case], stack'[i].log,
                                    payloads'[stack'[i].case])
        BY <1>1, HarnessNext
    <2>1. i = Depth
        BY <1>1, <1>3, <1>4
    <2>2. stack'[i] = g /\ Plan = library[c]
        BY <2>1, <1>1 DEF Plan
    <2> QED
        BY <2>2
<1> QED
    BY <1>5, <1>6 DEF FlatInv

(***************************************************************************)
(* Every step of a run keeps the trace of a flat chain its own, and a flat *)
(* case comes to its harness with it.                                      *)
(***************************************************************************)
LEMMA RunKeepsFlat == ChainInv /\ ContextOK /\ FlatInv /\ Run => FlatInv'
<1> SUFFICES ASSUME ChainInv, ContextOK, FlatInv, Run PROVE FlatInv'
    OBVIOUS
<1>1. stack # <<>> /\ library' = library
    BY RunMoves
<1>2. /\ FrameHolds(Top) /\ Top \in Frame /\ Top.case \in Cases
      /\ Plan \in CaseDef /\ Plan = library[Top.case] /\ Plan.steps \in Seq(Step)
      /\ Depth \in DOMAIN stack /\ Top = stack[Depth]
    BY <1>1, ChainTopFacts DEF Top
<1>3. chainTrace \in Seq(TraceRow)
    BY DEF ContextOK
<1>4. PICK c : c = Top.case
    OBVIOUS
<1>5. Flat(c) => TraceBound(Top, chainTrace)
    BY <1>2, <1>4 DEF FlatInv, FlatTracesAreBound
<1>6. Top.pc \in {"step", "ref", "back"} => PlanCompiles(Plan) /\ Plan.steps # <<>>
    BY <1>2 DEF FrameHolds, PlanFollowed
<1>7. ASSUME NEW o \in Outcome, Finish(o),
             UNCHANGED chainTrace \/ Top.pc \in {"step", "ref", "back"}
      PROVE  FlatInv'
    BY <1>1, <1>6, <1>7, LeavingKeepsFlat
<1>8. "fail" \in Outcome /\ "abort" \in Outcome
    BY DEF Outcome
<1>9. ASSUME NEW g, Goto(g), g.case = c, UNCHANGED chainTrace, g.pc \in {"step", "ref", "back"},
             g.log = Top.log, Top.pc \in {"step", "ref", "back"}
      PROVE  FlatInv'
    <2>1. Flat(c) => TraceBound(g, chainTrace')
        BY <1>2, <1>4, <1>5, <1>9 DEF TraceBound
    <2> QED
        BY <1>1, <1>4, <1>9, <2>1, GoingOnKeepsFlat
<1>10. ASSUME NEW g, Goto(g), g.case = c, g.pc \in {"step", "ref"},
              Top.pc \in {"step", "ref", "back"},
              NEW e, g.log = Top.log \cup {e},
              chainTrace' = Append(chainTrace, OwnRow(Plan, e))
       PROVE  FlatInv'
    <2>1. Flat(c) => TraceBound(g, chainTrace')
        <3> SUFFICES ASSUME Flat(c) PROVE TraceBound(g, chainTrace')
            OBVIOUS
        <3>1. RowsIn(chainTrace) = OwnRows(Plan, Top.log)
            BY <1>2, <1>5, <1>10 DEF TraceBound
        <3>2. RowsIn(chainTrace') = OwnRows(Plan, g.log)
            BY <3>1, <1>3, <1>10, RowIsAdded
        <3> QED
            BY <3>2, <1>2, <1>4, <1>10 DEF TraceBound
    <2>2. (PlanCompiles(Plan) => Plan.steps = <<>>) => chainTrace' = chainTrace
        BY <1>6, <1>10
    <2>3. g.pc = "harness" => FALSE
        BY <1>10
    <2> QED
        BY <1>1, <1>4, <1>10, <2>1, <2>2, <2>3, GoingOnKeepsFlat
<1>11. CASE StartChain
    <2>1. CASE Finish("fail") /\ UNCHANGED chainTrace
        BY <2>1, <1>7, <1>8
    <2>2. CASE /\ Plan.steps = <<>>
               /\ Goto([Top EXCEPT !.pc = "harness"])
               /\ UNCHANGED chainTrace
        <3> DEFINE g == [Top EXCEPT !.pc = "harness"]
        <3>1. g.pc = "harness" /\ g.case = c /\ Goto(g)
            BY <2>2, <1>2, <1>4 DEF Frame
        <3> HIDE DEF g
        <3>2. TraceBound(g, chainTrace') /\ TraceKeptIn(Plan, g.log, payloads'[c])
            BY <2>2, <3>1 DEF TraceBound, TraceKeptIn
        <3> QED
            BY <1>1, <1>4, <2>2, <3>1, <3>2, GoingOnKeepsFlat
    <2>3. CASE /\ PlanCompiles(Plan) /\ Plan.steps # <<>>
               /\ Goto([Top EXCEPT !.pc = "step"])
               /\ Top.pc = "plan" /\ chainTrace' = <<>>
        <3> DEFINE g == [Top EXCEPT !.pc = "step"]
        <3>1. g.pc = "step" /\ g.case = c /\ Goto(g) /\ g.log = Top.log
            BY <2>3, <1>2, <1>4 DEF Frame
        <3> HIDE DEF g
        <3>2. Flat(c) => TraceBound(g, chainTrace')
            <4>1. RowsIn(chainTrace') = {}
                BY <2>3 DEF RowsIn
            <4>2. \A d : OwnRows(d, {}) = {}
                BY DEF OwnRows
            <4> QED
                BY <4>1, <4>2, <1>5, <2>3, <3>1 DEF TraceBound
        <3> QED
            BY <1>1, <1>4, <2>3, <3>1, <3>2, GoingOnKeepsFlat
    <2> QED
        BY <1>11, <2>1, <2>2, <2>3 DEF StartChain, At, FreshTrace
<1>12. CASE UnresolvedStep
    BY <1>12, <1>7, <1>8 DEF UnresolvedStep, context
<1>13. CASE CompileOnlyStep
    <2> DEFINE s == ThisStep
               p == IF s.class = "MUST_NOT" THEN ~ExportsCompile(s.refs) ELSE ExportsCompile(s.refs)
               g == [Top EXCEPT !.step = @ + 1, !.log = Logged(0, p)]
               e == [step |-> Top.step, ref |-> 0, passed |-> p]
    <2>1. /\ Top.pc = "step"
          /\ chainTrace' = Append(chainTrace, TraceOf(s, FirstRef(s), p))
          /\ Finish("fail") \/ Goto(g)
        BY <1>13 DEF CompileOnlyStep, At
    <2>2. OwnRow(Plan, e) = TraceOf(s, FirstRef(s), p)
        BY DEF OwnRow, ThisStep
    <2>3. CASE Goto(g)
        <3>1. g.pc = "step" /\ g.case = c /\ g.log = Top.log \cup {e}
            BY <2>1, <1>2, <1>4 DEF Frame, Logged
        <3>2. PICK gg : gg = g
            OBVIOUS
        <3>3. PICK ee : ee = e
            OBVIOUS
        <3> HIDE DEF g, e, p
        <3> QED
            BY <2>1, <2>2, <2>3, <3>1, <3>2, <3>3, <1>10
    <2> QED
        BY <2>1, <2>3, <1>7, <1>8
<1>14. CASE RuntimeStep
    <2> DEFINE g == [Top EXCEPT !.pc = "ref", !.ref = 1, !.any = FALSE]
    <2>1. /\ Goto(g) /\ UNCHANGED chainTrace /\ Top.pc = "step"
          /\ g.pc = "ref" /\ g.case = c /\ g.log = Top.log
        BY <1>14, <1>2, <1>4 DEF RuntimeStep, At, Frame, context
    <2> HIDE DEF g
    <2> QED
        BY <2>1, <1>9
<1>15. CASE SelfReference
    BY <1>15, <1>7, <1>8 DEF SelfReference, context
<1>16. CASE CallRef
    <2> DEFINE e == ThisStep.refs[Top.ref]
               g == [Top EXCEPT !.pc = "back", !.got = "fail"]
    <2>1. CASE Refused(e)
        <3>1. /\ Goto(g) /\ UNCHANGED chainTrace /\ Top.pc = "ref"
              /\ g.pc = "back" /\ g.case = c /\ g.log = Top.log
            BY <1>16, <2>1, <1>2, <1>4 DEF CallRef, Goto, At, Frame, context
        <3> HIDE DEF g
        <3> QED
            BY <3>1, <1>9
    <2>2. CASE ~Refused(e)
        <3>1. /\ UNCHANGED chainTrace /\ Top.pc = "ref" /\ Top.ref <= Len(ThisStep.refs)
              /\ stack' = Append([stack EXCEPT ![Depth] = Waiting], NewFrame(e))
            BY <1>16, <2>2 DEF CallRef, At, Waiting, context
        <3>2. e \in Cases
            <4>1. Top.ref \in 1 .. Len(ThisStep.refs) + 1 /\ Top.step <= Len(Plan.steps)
                BY <1>2, <3>1 DEF FrameHolds, FrameOK, ThisStep
            <4>2. ThisStep \in Step /\ Top.ref \in Nat
                BY <1>1, <1>2, <4>1, ChainTopFacts DEF Frame
            <4>3. ThisStep.refs \in Seq(Cases)
                BY <4>2 DEF Step
            <4> QED
                BY <3>1, <4>1, <4>2, <4>3
        <3>3. PICK ee \in Cases : ee = e
            BY <3>2
        <3> HIDE DEF e
        <3> QED
            BY <1>1, <3>1, <3>3, CallingKeepsFlat
    <2> QED
        BY <2>1, <2>2
<1>17. CASE AfterRef
    <2> DEFINE s == ThisStep
               p == IF s.class = "MUST_NOT" THEN Top.got = "fail" ELSE Top.got = "pass"
               g == [Top EXCEPT !.pc = "ref", !.ref = NextRef(s, p),
                                !.any = @ \/ p, !.log = Logged(Top.ref, p)]
               e == [step |-> Top.step, ref |-> Top.ref, passed |-> p]
    <2>1. /\ Top.pc = "back"
          /\ chainTrace' = Append(chainTrace, TraceOf(s, s.refs[Top.ref], p))
          /\ Finish("fail") \/ Goto(g)
        BY <1>17 DEF AfterRef, At
    <2>2. CASE Goto(g)
        <3>1. g.pc = "ref" /\ g.case = c /\ g.log = Top.log \cup {e}
            BY <1>2, <1>4 DEF Frame, Logged
        <3>2. Top.ref # 0
            BY <2>1, <1>2 DEF FrameHolds, FrameOK
        <3>3. OwnRow(Plan, e) = TraceOf(s, s.refs[Top.ref], p)
            BY <3>2 DEF OwnRow, ThisStep
        <3>4. PICK gg : gg = g
            OBVIOUS
        <3>5. PICK ee : ee = e
            OBVIOUS
        <3> HIDE DEF g, e, p
        <3> QED
            BY <2>1, <2>2, <3>1, <3>3, <3>4, <3>5, <1>10
    <2> QED
        BY <2>1, <2>2, <1>7, <1>8
<1>18. CASE Unwind
    BY <1>18, <1>7, <1>8 DEF Unwind, context
<1>19. CASE EndStep
    <2> DEFINE g == [Top EXCEPT !.pc = "step", !.step = StepAfter(ThisStep)]
    <2>1. Top.pc = "ref" /\ UNCHANGED chainTrace /\ (Finish("fail") \/ Goto(g))
        BY <1>19 DEF EndStep, At
    <2>2. g.pc = "step" /\ g.case = c /\ g.log = Top.log
        BY <1>2, <1>4 DEF Frame
    <2> HIDE DEF g
    <2> QED
        BY <2>1, <2>2, <1>7, <1>8, <1>9
<1>20. CASE ResolveImports
    <2> DEFINE g == [Top EXCEPT !.pc = "harness"]
               new == [state |-> chainState, trace |-> chainTrace,
                       imports |-> ResolvedImports(Plan), set |-> TRUE]
    <2>1. /\ Top.pc = "step" /\ UNCHANGED chainTrace
          /\ \/ Finish("fail")
             \/ Goto(g) /\ payloads' = [payloads EXCEPT ![Top.case] = new]
        BY <1>20 DEF ResolveImports, At
    <2>2. CASE Goto(g) /\ payloads' = [payloads EXCEPT ![Top.case] = new]
        <3>1. g.pc = "harness" /\ g.case = c /\ g.log = Top.log
            BY <1>2, <1>4 DEF Frame
        <3> HIDE DEF g
        <3>2. payloads'[c].trace = chainTrace /\ payloads'[c].set
            BY <1>2, <1>4, <2>2 DEF ContextOK
        <3>3. Flat(c) => TraceKeptIn(Plan, g.log, payloads'[c])
            BY <1>2, <1>4, <1>5, <2>1, <3>1, <3>2 DEF TraceBound, TraceKeptIn
        <3>4. TraceBound(g, chainTrace')
            BY <3>1 DEF TraceBound
        <3> QED
            BY <1>1, <1>4, <2>1, <2>2, <3>1, <3>3, <3>4, GoingOnKeepsFlat
    <2> QED
        BY <2>1, <2>2, <1>7, <1>8
<1>21. CASE RunHarness
    BY <1>21, <1>7 DEF RunHarness, context
<1> QED
    BY <1>11, <1>12, <1>13, <1>14, <1>15, <1>16, <1>17, <1>18, <1>19, <1>20, <1>21 DEF Run

(***************************************************************************)
(* The payload a harness finds has the trace of its own chain, for every   *)
(* library, as long as the steps its case executes lead to cases without a *)
(* chain: the trace that all runs of a context share is safe as long as    *)
(* chains do not nest.                                                     *)
(***************************************************************************)
THEOREM FlatTracesAreOwn == Spec => []FlatChainsKeepTheirTrace
<1>1. Init => FlatInv
    <2> SUFFICES ASSUME Init PROVE FlatInv
        OBVIOUS
    <2>1. PICK c \in Cases : stack = <<NewFrame(c)>>
        BY DEF Init
    <2>2. \A i \in DOMAIN stack : stack[i].pc = "plan" /\ stack[i].log = {}
        BY <2>1 DEF NewFrame
    <2> QED
        BY <2>2 DEF FlatInv, FlatTracesAreBound, TraceBound, FlatChainsKeepTheirTrace
<1>2. ChainInv /\ TypeOK /\ FlatInv /\ [Next]_vars => FlatInv'
    <2> SUFFICES ASSUME ChainInv, TypeOK, FlatInv, [Next]_vars PROVE FlatInv'
        OBVIOUS
    <2>1. CASE Run
        BY <2>1, RunKeepsFlat DEF TypeOK
    <2>2. CASE UNCHANGED vars
        <3>1. FlatTracesAreBound'
            BY <2>2, FlatNext DEF vars, FlatInv, FlatTracesAreBound
        <3>2. FlatChainsKeepTheirTrace'
            <4>1. \A i \in DOMAIN stack :
                    stack[i].pc = "harness" /\ Flat(stack[i].case) =>
                        TraceKeptIn(library[stack[i].case], stack[i].log,
                                    payloads[stack[i].case])
                BY Zenon DEF FlatInv, FlatChainsKeepTheirTrace, KeepsItsTrace, TraceKeptIn
            <4>2. stack' = stack /\ payloads' = payloads /\ library' = library
                BY <2>2 DEF vars
            <4> QED
                BY <4>1, <4>2, HarnessNext
        <3> QED
            BY <3>1, <3>2 DEF FlatInv
    <2> QED
        BY <2>1, <2>2 DEF Next, Done
<1> QED
    BY <1>1, <1>2, ChainInvariant, TypeCorrect, PTL DEF Spec, FlatInv

-----------------------------------------------------------------------------
(* What exports come to.                                                   *)

ImportersHaveNoHarness ==
    \A i \in DOMAIN stack : stack[i].pc = "harness" => library[stack[i].case].imports = <<>>

NothingExported ==
    /\ chainState = EmptyState
    /\ \A c \in Cases : payloads[c].imports = NoBinding
    /\ ImportersHaveNoHarness

(***************************************************************************)
(* No case that loads is a producer whose exports the engine compiles.     *)
(***************************************************************************)
LEMMA NoLoadedCaseExports ==
    ASSUME NEW refs, \A i \in DOMAIN refs : Loads(library[refs[i]])
    PROVE  ~ExportsCompile(refs)
<1> SUFFICES ASSUME ExportsCompile(refs) PROVE FALSE
    OBVIOUS
<1>1. PICK n \in Names, i \in DOMAIN refs :
        library[refs[i]].clauses = "list" /\ n \in library[refs[i]].exports
    BY DEF ExportsCompile, Provided, Providers, Usable
<1>2. library[refs[i]].entries = "documented" /\ Declares(library[refs[i]])
    BY <1>1 DEF Loads, ExportsCompile
<1> QED
    BY <1>1, <1>2 DEF Declares

(***************************************************************************)
(* Exports never arrive, for every library: nothing is ever bound in the   *)
(* chain state or in the imports of a case, and a case that imports names  *)
(* never comes to its harness.                                             *)
(***************************************************************************)
THEOREM ExportsNeverArrive == Spec => []NothingExported
<1>1. Init => NothingExported
    <2> SUFFICES ASSUME Init PROVE NothingExported
        OBVIOUS
    <2>1. PICK c \in Cases : stack = <<NewFrame(c)>>
        BY DEF Init
    <2>2. \A i \in DOMAIN stack : stack[i].pc = "plan"
        BY <2>1 DEF NewFrame
    <2> QED
        BY <2>2 DEF Init, NothingExported, NoPayload, ImportersHaveNoHarness
<1>2. ChainInv /\ TypeOK /\ NothingExported /\ [Next]_vars => NothingExported'
    <2> SUFFICES ASSUME ChainInv, TypeOK, NothingExported, [Next]_vars PROVE NothingExported'
        OBVIOUS
    <2>1. CASE UNCHANGED vars
        BY <2>1 DEF NothingExported, ImportersHaveNoHarness, vars
    <2>2. CASE Run
        <3>1. stack # <<>> /\ library' = library
            BY <2>2, RunMoves
        <3>2. chainState' = EmptyState
            <4>1. UNCHANGED chainState \/ chainState' = EmptyState
                  \/ \E id : chainState' = [chainState EXCEPT ![id] = NoBinding]
                <5>1. CASE CompileOnlyStep
                    <6>1. ~ExportsCompile(ThisStep.refs)
                        BY <5>1, NoLoadedCaseExports DEF CompileOnlyStep, Resolves
                    <6> QED
                        BY <5>1, <6>1 DEF CompileOnlyStep
                <5> QED
                    BY <2>2, <5>1 DEF Run, StartChain, UnresolvedStep, RuntimeStep, SelfReference,
                       CallRef, AfterRef, Unwind, EndStep, ResolveImports, RunHarness, context
            <4>2. \A id : [EmptyState EXCEPT ![id] = NoBinding] = EmptyState
                BY DEF EmptyState
            <4> QED
                BY <4>1, <4>2 DEF NothingExported
        <3>3. /\ Top \in Frame /\ FrameHolds(Top) /\ Plan \in CaseDef /\ Plan = library[Top.case]
              /\ Depth \in Nat \ {0} /\ DOMAIN stack = 1 .. Depth /\ Top.case \in Cases
              /\ Plan.imports \in Seq(Import)
            BY <3>1, ChainTopFacts DEF ChainInv, ControlInv, ControlOK, Depth, CaseDef
        <3>4. ASSUME DOMAIN Plan.imports = {} PROVE Plan.imports = <<>>
            <4>1. Len(Plan.imports) \in Nat /\ DOMAIN Plan.imports = 1 .. Len(Plan.imports)
                BY <3>3
            <4>2. 1 \notin DOMAIN Plan.imports
                BY <3>4
            <4>3. Len(Plan.imports) = 0
                BY <4>1, <4>2
            <4> QED
                BY <4>3, <3>3
        <3>5. ASSUME Resolvable(Plan) PROVE DOMAIN Plan.imports = {}
            <4>1. \A id \in StepIds : DOMAIN chainState[id] = {}
                BY DEF NothingExported, EmptyState, NoBinding
            <4>2. \A i \in DOMAIN Plan.imports : Plan.imports[i] \in Import
                BY <3>3
            <4>3. \A i \in DOMAIN Plan.imports : Plan.imports[i].from \in StepIds
                BY <4>2 DEF Import
            <4> QED
                BY <4>1, <4>3, <3>5 DEF Resolvable
        <3>6. \A c \in Cases : payloads'[c].imports = NoBinding
            <4>1. CASE UNCHANGED payloads
                BY <4>1 DEF NothingExported
            <4>2. CASE ResolveImports /\ Resolvable(Plan)
                <5>1. ResolvedImports(Plan) = NoBinding
                    BY <4>2, <3>5 DEF ResolvedImports, NoBinding
                <5> DEFINE new == [state |-> chainState, trace |-> chainTrace,
                                   imports |-> ResolvedImports(Plan), set |-> TRUE]
                <5>2. payloads' = [payloads EXCEPT ![Top.case] = new] /\ new.imports = NoBinding
                    BY <4>2, <5>1 DEF ResolveImports
                <5> HIDE DEF new
                <5> QED
                    BY <5>2, <3>3 DEF NothingExported, TypeOK, ContextOK
            <4> QED
                BY <2>2, <4>1, <4>2 DEF Run, StartChain, UnresolvedStep, CompileOnlyStep,
                   RuntimeStep, SelfReference, CallRef, AfterRef, Unwind, EndStep,
                   ResolveImports, RunHarness, context
        <3>7. \A i \in 1 .. (Depth - 1) : stack[i].pc = "back"
            BY DEF ChainInv, CallersWait
        <3>8. ASSUME NEW o \in Outcome, Finish(o) PROVE ImportersHaveNoHarness'
            <4>1. /\ DOMAIN stack' = 1 .. (Depth - 1)
                  /\ \A i \in 1 .. (Depth - 2) : stack'[i] = stack[i]
                  /\ Depth > 1 => stack'[Depth - 1] = [stack[Depth - 1] EXCEPT !.got = o]
                BY <3>1, <3>8, ReturnsShape
            <4>2. \A i \in 1 .. (Depth - 1) : stack[i] \in Frame
                BY <3>3 DEF ChainInv, ControlInv, ControlOK
            <4>3. \A i \in 1 .. (Depth - 1) : stack'[i].pc = "back"
                <5> TAKE i \in 1 .. (Depth - 1)
                <5>1. i \in 1 .. (Depth - 2) \/ (i = Depth - 1 /\ Depth > 1)
                    BY <3>3
                <5>2. [stack[i] EXCEPT !.got = o].pc = stack[i].pc
                    BY <4>2 DEF Frame
                <5> QED
                    BY <5>1, <5>2, <4>1, <3>7
            <4> QED
                BY <4>1, <4>3 DEF ImportersHaveNoHarness
        <3>9. ASSUME NEW f, Goto(f), f.pc = "harness" => f.case = Top.case /\ Plan.imports = <<>>
              PROVE  ImportersHaveNoHarness'
            <4>1. /\ DOMAIN stack' = 1 .. Depth
                  /\ \A i \in 1 .. (Depth - 1) : stack'[i] = stack[i]
                  /\ stack'[Depth] = f
                BY <3>1, <3>9, GoesOnShape
            <4>2. \A i \in 1 .. Depth : i \in 1 .. (Depth - 1) \/ i = Depth
                BY <3>3
            <4> QED
                BY <4>1, <4>2, <3>1, <3>3, <3>7, <3>9 DEF ImportersHaveNoHarness
        <3>10. ASSUME StartChain PROVE ImportersHaveNoHarness'
            <4>1. ASSUME PlanCompiles(Plan), Plan.steps = <<>> PROVE Plan.imports = <<>>
                BY <4>1, <3>4 DEF PlanCompiles
            <4>2. [Top EXCEPT !.pc = "harness"].case = Top.case
                BY <3>3 DEF Frame
            <4>3. [Top EXCEPT !.pc = "step"].pc = "step"
                BY <3>3 DEF Frame
            <4>4. Finish("fail") => ImportersHaveNoHarness'
                BY <3>8 DEF Outcome
            <4> QED
                BY <3>10, <4>1, <4>2, <4>3, <4>4, <3>9 DEF StartChain
        <3>11. ASSUME ResolveImports PROVE ImportersHaveNoHarness'
            <4>1. [Top EXCEPT !.pc = "harness"].case = Top.case
                BY <3>3 DEF Frame
            <4>2. Finish("fail") => ImportersHaveNoHarness'
                BY <3>8 DEF Outcome
            <4> QED
                BY <3>11, <4>1, <4>2, <3>4, <3>5, <3>9 DEF ResolveImports
        <3>12. ASSUME CallRef PROVE ImportersHaveNoHarness'
            <4> DEFINE e == ThisStep.refs[Top.ref]
            <4>1. CASE Refused(e)
                <5> DEFINE g == [Top EXCEPT !.pc = "back", !.got = "fail"]
                <5>1. Goto(g) /\ g.pc = "back"
                    BY <3>12, <4>1, <3>3 DEF CallRef, Goto, Frame
                <5> HIDE DEF g
                <5> QED
                    BY <5>1, <3>9
            <4>2. CASE ~Refused(e)
                <5>1. stack' = Append([stack EXCEPT ![Depth] = Waiting], NewFrame(e))
                    BY <3>12, <4>2 DEF CallRef, Waiting
                <5>2. e \in Cases
                    <6>1. Top.ref \in DOMAIN ThisStep.refs /\ ThisStep \in Step
                        <7>1. Top.pc = "ref" /\ Top.ref <= Len(ThisStep.refs)
                            BY <3>12 DEF CallRef, At
                        <7>2. Top.ref \in 1 .. Len(ThisStep.refs) + 1 /\ Top.step <= Len(Plan.steps)
                            BY <3>3, <7>1 DEF FrameHolds, FrameOK, ThisStep
                        <7>3. ThisStep \in Step /\ Top.ref \in Nat
                            BY <3>1, <3>3, <7>2, ChainTopFacts DEF Frame
                        <7>4. ThisStep.refs \in Seq(Cases)
                            BY <7>3 DEF Step
                        <7> QED
                            BY <7>1, <7>2, <7>3, <7>4
                    <6> QED
                        BY <6>1 DEF Step
                <5>3. PICK ee \in Cases : ee = e
                    BY <5>2
                <5> HIDE DEF e
                <5>4. /\ DOMAIN stack' = 1 .. (Depth + 1)
                      /\ \A i \in 1 .. (Depth - 1) : stack'[i] = stack[i]
                      /\ stack'[Depth] = Waiting /\ stack'[Depth + 1] = NewFrame(ee)
                    BY <3>1, <5>1, <5>3, CallsShape
                <5>5. Waiting.pc = "back" /\ NewFrame(ee).pc = "plan"
                    BY <3>3 DEF Waiting, NewFrame, Frame
                <5>6. \A i \in 1 .. (Depth + 1) : i \in 1 .. (Depth - 1) \/ i = Depth \/ i = Depth + 1
                    BY <3>3
                <5> QED
                    BY <5>4, <5>5, <5>6, <3>1, <3>7 DEF ImportersHaveNoHarness
            <4> QED
                BY <4>1, <4>2
        <3>13. ASSUME CompileOnlyStep PROVE ImportersHaveNoHarness'
            <4> DEFINE p == IF ThisStep.class = "MUST_NOT" THEN ~ExportsCompile(ThisStep.refs)
                            ELSE ExportsCompile(ThisStep.refs)
                       g == [Top EXCEPT !.step = @ + 1, !.log = Logged(0, p)]
            <4>1. Finish("fail") \/ Goto(g)
                BY <3>13 DEF CompileOnlyStep
            <4>2. g.pc = "step"
                BY <3>13, <3>3 DEF CompileOnlyStep, At, Frame
            <4> HIDE DEF g
            <4> QED
                BY <4>1, <4>2, <3>8, <3>9 DEF Outcome
        <3>14. ASSUME RuntimeStep PROVE ImportersHaveNoHarness'
            <4> DEFINE g == [Top EXCEPT !.pc = "ref", !.ref = 1, !.any = FALSE]
            <4>1. Goto(g) /\ g.pc = "ref"
                BY <3>14, <3>3 DEF RuntimeStep, Frame
            <4> HIDE DEF g
            <4> QED
                BY <4>1, <3>9
        <3>15. ASSUME AfterRef PROVE ImportersHaveNoHarness'
            <4> DEFINE s == ThisStep
                       p == IF s.class = "MUST_NOT" THEN Top.got = "fail" ELSE Top.got = "pass"
                       g == [Top EXCEPT !.pc = "ref", !.ref = NextRef(s, p),
                                        !.any = @ \/ p, !.log = Logged(Top.ref, p)]
            <4>1. Finish("fail") \/ Goto(g)
                BY <3>15 DEF AfterRef
            <4>2. g.pc = "ref"
                BY <3>3 DEF Frame
            <4> HIDE DEF g
            <4> QED
                BY <4>1, <4>2, <3>8, <3>9 DEF Outcome
        <3>16. ASSUME EndStep PROVE ImportersHaveNoHarness'
            <4> DEFINE g == [Top EXCEPT !.pc = "step", !.step = StepAfter(ThisStep)]
            <4>1. Finish("fail") \/ Goto(g)
                BY <3>16 DEF EndStep
            <4>2. g.pc = "step"
                BY <3>3 DEF Frame
            <4> HIDE DEF g
            <4> QED
                BY <4>1, <4>2, <3>8, <3>9 DEF Outcome
        <3>17. ImportersHaveNoHarness'
            <4> QED
                BY <2>2, <3>8, <3>10, <3>11, <3>12, <3>13, <3>14, <3>15, <3>16
                   DEF Run, UnresolvedStep, SelfReference, Unwind, RunHarness, Outcome
        <3> QED
            BY <3>2, <3>6, <3>17 DEF NothingExported, EmptyState
    <2> QED
        BY <2>1, <2>2 DEF Next, Done
<1> QED
    BY <1>1, <1>2, ChainInvariant, TypeCorrect, PTL DEF Spec
=============================================================================
