----------------------------- MODULE ChainProofs -----------------------------
(***************************************************************************)
(* Theorems about ChainExecution, for every set of cases, step ids, names  *)
(* and libraries.                                                          *)
(***************************************************************************)
EXTENDS ChainExecution, WellFoundedInduction, TLAPS

-----------------------------------------------------------------------------
(* The top frame and the two ways a step leaves it.                        *)

(***************************************************************************)
(* While a run is in progress the top frame is well formed, its plan is a  *)
(* case definition, and the step it points at is a step of that plan.      *)
(***************************************************************************)
LEMMA TopFacts ==
    ASSUME ControlOK, stack # <<>>
    PROVE  /\ Depth \in Nat \ {0}
           /\ Top \in Frame
           /\ FrameOK(Top)
           /\ Top.case \in Cases
           /\ Plan \in CaseDef
           /\ Top.step <= Len(Plan.steps) => ThisStep \in Step
<1>1. Depth \in Nat \ {0}
    BY DEF ControlOK, Depth
<1>2. Depth \in DOMAIN stack
    BY <1>1 DEF ControlOK, Depth
<1>3. Top \in Frame /\ FrameOK(Top)
    BY <1>2 DEF ControlOK, Top
<1>4. Top.case \in Cases /\ Top.step \in Nat
    BY <1>3 DEF Frame
<1>5. Plan \in CaseDef
    BY <1>4, LibrariesAssumption DEF ControlOK, Plan
<1>6. Plan.steps \in Seq(Step)
    BY <1>5 DEF CaseDef
<1>7. Top.step <= Len(Plan.steps) => ThisStep \in Step
    BY <1>3, <1>4, <1>6 DEF FrameOK, ThisStep, Plan
<1> QED
    BY <1>1, <1>3, <1>4, <1>5, <1>7

(***************************************************************************)
(* Replacing the top frame by a well-formed one keeps the control state    *)
(* well formed.                                                            *)
(***************************************************************************)
LEMMA GotoKeepsControl ==
    ASSUME ControlOK, stack # <<>>, library' = library,
           NEW f, FrameOK(f), Goto(f)
    PROVE  ControlOK'
<1>1. stack' \in Seq(Frame) /\ DOMAIN stack' = DOMAIN stack
    BY TopFacts DEF ControlOK, Goto, FrameOK, Depth
<1>2. \A i \in DOMAIN stack' : FrameOK(stack'[i])
    BY TopFacts DEF ControlOK, Goto, Depth
<1>3. \A i \in DOMAIN stack' : FrameOK(stack[i])'
    BY <1>2 DEF FrameOK, Frame
<1> QED
    BY <1>1, <1>3 DEF ControlOK, Goto

(***************************************************************************)
(* So does leaving a run: the caller only learns how the run ended.        *)
(***************************************************************************)
LEMMA FinishKeepsControl ==
    ASSUME ControlOK, stack # <<>>, library' = library,
           NEW o \in Outcome, Finish(o)
    PROVE  ControlOK'
<1>1. Depth \in Nat \ {0} /\ Top.case \in Cases
    BY TopFacts
<1>2. stack' \in Seq(Frame) /\ Len(stack') = Depth - 1
    <2>1. ASSUME NEW i \in 1 .. (Depth - 1)
          PROVE  stack[i] \in Frame /\ [stack[i] EXCEPT !.got = o] \in Frame
        <3>1. i \in DOMAIN stack
            BY <1>1 DEF ControlOK, Depth
        <3>2. stack[i] \in Frame
            BY <3>1 DEF ControlOK
        <3> QED
            BY <3>2 DEF Frame
    <2>2. PICK n \in Nat : n = Depth - 1
        BY <1>1
    <2>3. stack' = [i \in 1 .. n |->
                        IF i = n THEN [stack[i] EXCEPT !.got = o] ELSE stack[i]]
        BY <2>2 DEF Finish
    <2>4. stack' \in [1 .. n -> Frame]
        BY <2>1, <2>2, <2>3
    <2> QED
        BY <2>2, <2>4
<1>3. \A i \in DOMAIN stack' : FrameOK(stack'[i])
    <2> TAKE i \in DOMAIN stack'
    <2>1. i \in DOMAIN stack /\ FrameOK(stack[i])
        BY <1>1, <1>2 DEF ControlOK, Depth
    <2>2. stack'[i] = stack[i] \/ stack'[i] = [stack[i] EXCEPT !.got = o]
        BY <1>1, <1>2 DEF Finish
    <2> QED
        BY <2>1, <2>2 DEF FrameOK, Frame
<1>4. \A i \in DOMAIN stack' : FrameOK(stack[i])'
    BY <1>3 DEF FrameOK, Frame
<1>5. /\ active' \subseteq Cases
      /\ rows' \in Seq([case : Cases, status : {"pass", "fail"}])
      /\ verdict' \in Outcome \cup {"running"}
    BY <1>1 DEF ControlOK, Finish, Popped, Verdict
<1> QED
    BY <1>2, <1>4, <1>5 DEF ControlOK

-----------------------------------------------------------------------------
(* Control: frames stay within their plans.                                *)

(***************************************************************************)
(* A step by step account of Run: every action keeps the stack, the active *)
(* keys, the rows and the verdict well formed.                             *)
(***************************************************************************)
LEMMA RunKeepsControl == ControlOK /\ Run => ControlOK'
<1> SUFFICES ASSUME ControlOK, Run PROVE ControlOK'
    OBVIOUS
<1>1. stack # <<>>
    BY DEF Run, At, StartChain, UnresolvedStep, CompileOnlyStep, RuntimeStep,
           SelfReference, CallRef, AfterRef, Unwind, EndStep, ResolveImports, RunHarness
<1>2. library' = library
    BY DEF Run, StartChain, UnresolvedStep, CompileOnlyStep, RuntimeStep,
           SelfReference, CallRef, AfterRef, Unwind, EndStep, ResolveImports, RunHarness
<1>3. ASSUME NEW o \in Outcome, Finish(o) PROVE ControlOK'
    BY <1>1, <1>2, <1>3, FinishKeepsControl
<1>4. ASSUME NEW f, FrameOK(f), Goto(f) PROVE ControlOK'
    BY <1>1, <1>2, <1>4, GotoKeepsControl
<1>5. {"pass", "fail", "abort"} = Outcome
    BY DEF Outcome
<1>6. /\ Depth \in Nat \ {0}
      /\ Top \in Frame
      /\ FrameOK(Top)
      /\ Plan \in CaseDef
      /\ Plan = library[Top.case]
      /\ Top.step <= Len(Plan.steps) => ThisStep \in Step
    BY <1>1, TopFacts DEF Plan
<1>7. CASE StartChain
    <2>1. CASE Finish("fail")
        BY <2>1, <1>3, <1>5
    <2>2. CASE Goto([Top EXCEPT !.pc = "harness"])
        <3>1. FrameOK([Top EXCEPT !.pc = "harness"])
            BY <1>6 DEF FrameOK, Frame
        <3> QED
            BY <2>2, <3>1, <1>4
    <2>3. CASE Goto([Top EXCEPT !.pc = "step"])
        <3>1. FrameOK([Top EXCEPT !.pc = "step"])
            BY <1>6 DEF FrameOK, Frame
        <3> QED
            BY <2>3, <3>1, <1>4
    <2> QED
        BY <1>7, <2>1, <2>2, <2>3 DEF StartChain
<1>8. CASE UnresolvedStep
    BY <1>8, <1>3, <1>5 DEF UnresolvedStep
<1>9. CASE CompileOnlyStep
    <2> DEFINE p == IF ThisStep.class = "MUST_NOT" THEN ~ExportsCompile(ThisStep.refs)
                    ELSE ExportsCompile(ThisStep.refs)
               g == [Top EXCEPT !.step = @ + 1, !.log = Logged(0, p)]
    <2>1. Finish("fail") \/ Goto(g)
        BY <1>9 DEF CompileOnlyStep
    <2>2. p \in BOOLEAN
        BY DEF ExportsCompile
    <2>3. Top.pc = "step" /\ Top.step <= Len(Plan.steps) /\ Top.step \in Nat
        BY <1>9, <1>6 DEF CompileOnlyStep, At, Frame
    <2>4. Len(Plan.steps) \in Nat
        BY <1>6 DEF CaseDef
    <2> HIDE DEF p
    <2>5. Logged(0, p) \subseteq LogEntry
        BY <1>6, <2>2, <2>3 DEF Logged, Frame, LogEntry
    <2>6. g \in Frame /\ g.case = Top.case /\ g.pc = "step" /\ g.step = Top.step + 1
        <3>1. PICK n \in Nat : n = Top.step + 1
            BY <2>3
        <3>2. g = [Top EXCEPT !.step = n, !.log = Logged(0, p)]
            BY <3>1
        <3> QED
            BY <1>6, <2>3, <2>5, <3>1, <3>2 DEF Frame
    <2> HIDE DEF g
    <2>7. FrameOK(g)
        BY <1>6, <2>3, <2>4, <2>6 DEF FrameOK
    <2> QED
        BY <2>1, <2>7, <1>3, <1>4, <1>5
<1>10. CASE RuntimeStep
    <2> DEFINE g == [Top EXCEPT !.pc = "ref", !.ref = 1, !.any = FALSE]
    <2>1. Goto(g) /\ Top.step <= Len(Plan.steps)
        BY <1>10 DEF RuntimeStep
    <2>2. g \in Frame /\ g.case = Top.case /\ g.pc = "ref" /\ g.step = Top.step /\ g.ref = 1
        BY <1>6 DEF Frame
    <2>3. Len(ThisStep.refs) \in Nat
        BY <1>6, <2>1 DEF Step
    <2> HIDE DEF g
    <2>4. FrameOK(g)
        <3>1. library[g.case] = Plan /\ library[g.case].steps[g.step] = ThisStep
            BY <1>6, <2>2 DEF ThisStep
        <3>2. Plan.known /\ Top.step \in 1 .. Len(Plan.steps) + 1
            BY <1>6 DEF FrameOK
        <3> QED
            BY <2>1, <2>2, <2>3, <3>1, <3>2 DEF FrameOK
    <2> QED
        BY <2>1, <2>4, <1>4
<1>11. CASE SelfReference
    BY <1>11, <1>3, <1>5 DEF SelfReference
<1>12. CASE CallRef
    <2> DEFINE c == ThisStep.refs[Top.ref]
               g(r) == [Top EXCEPT !.pc = "back", !.got = r]
    <2>1. Top.pc = "ref" /\ Top.ref <= Len(ThisStep.refs) /\ Top.ref \in Nat \ {0}
        <3>1. Top.pc = "ref" /\ Top.ref <= Len(ThisStep.refs)
            BY <1>12 DEF CallRef, At
        <3>2. Top.ref \in 1 .. Len(ThisStep.refs) + 1 /\ Top.ref \in Nat
            BY <1>6, <3>1 DEF FrameOK, ThisStep, Frame
        <3> QED
            BY <3>1, <3>2
    <2>2. Top.step <= Len(Plan.steps)
        BY <1>6, <2>1 DEF FrameOK
    <2>3. c \in Cases
        BY <1>6, <2>1, <2>2 DEF Step
    <2>4. ASSUME NEW r \in {"none", "fail"} PROVE FrameOK(g(r))
        <3>1. /\ g(r) \in Frame /\ g(r).case = Top.case /\ g(r).pc = "back"
              /\ g(r).step = Top.step /\ g(r).ref = Top.ref
            BY <1>6 DEF Frame, Outcome
        <3> HIDE DEF g
        <3> QED
            BY <1>6, <2>1, <3>1 DEF FrameOK, ThisStep
    <2>5. CASE Refused(c)
        <3>1. Goto(g("fail"))
            BY <1>12, <2>5 DEF CallRef, Goto
        <3> QED
            BY <2>4, <3>1, <1>4
    <2>6. CASE ~Refused(c)
        <3>1. /\ stack' = Append([stack EXCEPT ![Depth] = g("none")], NewFrame(c))
              /\ active' = active \cup {c}
              /\ UNCHANGED <<rows, verdict>>
            BY <1>12, <2>6 DEF CallRef
        <3>2. NewFrame(c) \in Frame /\ NewFrame(c).case = c /\ NewFrame(c).pc = "plan"
              /\ NewFrame(c).step = 1
            BY <2>3 DEF NewFrame, Frame, Outcome
        <3>3. FrameOK(NewFrame(c))
            <4>1. library[c] \in CaseDef
                BY <2>3, LibrariesAssumption DEF ControlOK
            <4>2. Len(library[c].steps) \in Nat
                BY <4>1 DEF CaseDef
            <4> QED
                BY <3>2, <4>2, <2>6 DEF FrameOK, Refused
        <3> DEFINE base == [stack EXCEPT ![Depth] = g("none")]
        <3>4. /\ base \in Seq(Frame) /\ Len(base) = Depth
              /\ \A i \in 1 .. Depth : FrameOK(base[i])
            <4>1. FrameOK(g("none"))
                BY <2>4
            <4> HIDE DEF g
            <4>2. base \in Seq(Frame) /\ Len(base) = Depth
                BY <1>6, <4>1 DEF ControlOK, FrameOK, Depth
            <4>3. \A i \in 1 .. Depth : base[i] = g("none") \/ (i \in DOMAIN stack /\ base[i] = stack[i])
                BY <1>6 DEF ControlOK, Depth
            <4> QED
                BY <4>1, <4>2, <4>3 DEF ControlOK
        <3> HIDE DEF base
        <3>5. stack' \in Seq(Frame) /\ Len(stack') = Depth + 1
              /\ \A i \in 1 .. Depth : stack'[i] = base[i]
              /\ stack'[Depth + 1] = NewFrame(c)
            BY <3>1, <3>2, <3>4, <1>6 DEF base
        <3>6. \A i \in DOMAIN stack' : FrameOK(stack'[i])
            BY <3>3, <3>4, <3>5, <1>6
        <3>7. \A i \in DOMAIN stack' : FrameOK(stack[i])'
            BY <3>6, <1>2 DEF FrameOK, Frame
        <3> QED
            BY <3>1, <3>5, <3>7, <2>3, <1>2 DEF ControlOK
    <2> QED
        BY <2>5, <2>6
<1>13. CASE AfterRef
    <2> DEFINE s == ThisStep
               p == IF s.class = "MUST_NOT" THEN Top.got = "fail" ELSE Top.got = "pass"
               g == [Top EXCEPT !.pc = "ref", !.ref = NextRef(s, p),
                                !.any = @ \/ p, !.log = Logged(Top.ref, p)]
    <2>1. Finish("fail") \/ Goto(g)
        BY <1>13 DEF AfterRef
    <2>2. Top.pc = "back" /\ Top.step <= Len(Plan.steps) /\ Top.step \in Nat
        BY <1>13, <1>6 DEF AfterRef, At, FrameOK, Frame
    <2>3. /\ Len(s.refs) \in Nat
          /\ Top.ref \in Nat \ {0}
          /\ Top.ref <= Len(s.refs)
        BY <1>6, <2>2 DEF FrameOK, ThisStep, Step
    <2>4. p \in BOOLEAN
        OBVIOUS
    <2> HIDE DEF p
    <2>5. NextRef(s, p) \in 1 .. Len(s.refs) + 1
        BY <2>3 DEF NextRef
    <2>6. Logged(Top.ref, p) \subseteq LogEntry
        BY <1>6, <2>4, <2>2, <2>3 DEF Logged, Frame, LogEntry
    <2>7. Top.any \/ p \in BOOLEAN
        BY <1>6, <2>4 DEF Frame
    <2> HIDE DEF s
    <2>8. /\ g \in Frame /\ g.case = Top.case /\ g.pc = "ref"
          /\ g.step = Top.step /\ g.ref = NextRef(s, p)
        <3>1. PICK n \in Nat : n = NextRef(s, p)
            BY <2>3, <2>5
        <3>2. PICK l \in SUBSET LogEntry : l = Logged(Top.ref, p)
            BY <2>6
        <3>3. PICK b \in BOOLEAN : b = (Top.any \/ p)
            BY <2>7
        <3>4. g = [Top EXCEPT !.pc = "ref", !.ref = n, !.any = b, !.log = l]
            BY <3>1, <3>2, <3>3
        <3> HIDE DEF g
        <3> QED
            BY <1>6, <3>1, <3>4 DEF Frame
    <2> HIDE DEF g
    <2>9. FrameOK(g)
        BY <1>6, <2>2, <2>5, <2>8 DEF FrameOK, s, ThisStep
    <2> QED
        BY <2>1, <2>9, <1>3, <1>4, <1>5
<1>14. CASE Unwind
    BY <1>14, <1>3, <1>5 DEF Unwind
<1>15. CASE EndStep
    <2> DEFINE g == [Top EXCEPT !.pc = "step", !.step = StepAfter(ThisStep)]
    <2>1. Finish("fail") \/ Goto(g)
        BY <1>15 DEF EndStep
    <2>2. Top.step \in Nat \ {0} /\ Top.step <= Len(Plan.steps) /\ Len(Plan.steps) \in Nat
        BY <1>15, <1>6 DEF EndStep, At, FrameOK, CaseDef
    <2>3. /\ g \in Frame /\ g.case = Top.case /\ g.pc = "step" /\ g.step = Top.step + 1
        <3>1. PICK n \in Nat : n = Top.step + 1
            BY <2>2
        <3>2. g = [Top EXCEPT !.pc = "step", !.step = n]
            BY <3>1 DEF StepAfter
        <3> HIDE DEF g
        <3> QED
            BY <1>6, <3>1, <3>2 DEF Frame
    <2> HIDE DEF g
    <2>4. FrameOK(g)
        BY <1>6, <2>2, <2>3 DEF FrameOK
    <2> QED
        BY <2>1, <2>4, <1>3, <1>4, <1>5
<1>16. CASE ResolveImports
    <2> DEFINE g == [Top EXCEPT !.pc = "harness"]
    <2>1. Finish("fail") \/ Goto(g)
        BY <1>16 DEF ResolveImports
    <2>2. FrameOK(g)
        BY <1>6 DEF FrameOK, Frame
    <2> QED
        BY <2>1, <2>2, <1>3, <1>4, <1>5
<1>17. CASE RunHarness
    BY <1>17, <1>3 DEF RunHarness
<1> QED
    BY <1>7, <1>8, <1>9, <1>10, <1>11, <1>12, <1>13, <1>14, <1>15, <1>16, <1>17 DEF Run

-----------------------------------------------------------------------------
(* Re-entry: the guard set is the call stack.                              *)

Guard == NoReentry /\ ActiveIsStack

(***************************************************************************)
(* A step inside the top frame changes neither the cases on the stack nor  *)
(* the active keys.                                                        *)
(***************************************************************************)
LEMMA GotoKeepsGuard ==
    ASSUME ControlOK, Guard, stack # <<>>,
           NEW f, f.case = Top.case, Goto(f)
    PROVE  Guard'
<1>1. DOMAIN stack' = DOMAIN stack /\ \A i \in DOMAIN stack : stack'[i].case = stack[i].case
    BY TopFacts DEF ControlOK, Goto, Depth, Top
<1>2. active' = active
    BY DEF Goto
<1> QED
    BY <1>1, <1>2 DEF Guard, NoReentry, ActiveIsStack

(***************************************************************************)
(* Leaving a run takes its case off the stack and its key out of the       *)
(* guard set; NoReentry is why no other frame still needs that key.        *)
(***************************************************************************)
LEMMA FinishKeepsGuard ==
    ASSUME ControlOK, Guard, stack # <<>>, NEW o, Finish(o)
    PROVE  Guard'
<1>1. Depth \in Nat \ {0} /\ DOMAIN stack = 1 .. Depth /\ Top = stack[Depth]
    BY TopFacts DEF ControlOK, Depth, Top
<1>2. \A i \in DOMAIN stack : stack[i] \in Frame
    BY DEF ControlOK
<1>3. DOMAIN stack' = 1 .. (Depth - 1)
    BY <1>1 DEF Finish
<1>4. \A i \in 1 .. (Depth - 1) : stack'[i].case = stack[i].case
    BY <1>1, <1>2 DEF Finish, Frame
<1>5. \A i \in 1 .. (Depth - 1) : stack[i].case # Top.case
    BY <1>1 DEF Guard, NoReentry
<1>6. NoReentry'
    BY <1>1, <1>3, <1>4 DEF Guard, NoReentry
<1>7. active' = {stack[i].case : i \in 1 .. (Depth - 1)}
    <2>1. active' = {stack[i].case : i \in 1 .. Depth} \ {stack[Depth].case}
        BY <1>1 DEF Finish, Popped, Guard, ActiveIsStack
    <2> QED
        BY <1>1, <1>5, <2>1
<1>8. ActiveIsStack'
    BY <1>3, <1>4, <1>7 DEF ActiveIsStack
<1> QED
    BY <1>6, <1>8 DEF Guard

(***************************************************************************)
(* Every action of Run keeps the guard exact.  Only CallRef opens a frame, *)
(* and it looks the key up first.                                          *)
(***************************************************************************)
LEMMA RunKeepsGuard == ControlOK /\ Guard /\ Run => Guard'
<1> SUFFICES ASSUME ControlOK, Guard, Run PROVE Guard'
    OBVIOUS
<1>1. stack # <<>>
    BY DEF Run, At, StartChain, UnresolvedStep, CompileOnlyStep, RuntimeStep,
           SelfReference, CallRef, AfterRef, Unwind, EndStep, ResolveImports, RunHarness
<1>2. ASSUME NEW o, Finish(o) PROVE Guard'
    BY <1>1, <1>2, FinishKeepsGuard
<1>3. ASSUME NEW f, f.case = Top.case, Goto(f) PROVE Guard'
    BY <1>1, <1>3, GotoKeepsGuard
<1>4. Top \in Frame
    BY <1>1, TopFacts
<1>5. CASE StartChain
    <2>1. [Top EXCEPT !.pc = "harness"].case = Top.case
        BY <1>4 DEF Frame
    <2>2. [Top EXCEPT !.pc = "step"].case = Top.case
        BY <1>4 DEF Frame
    <2> QED
        BY <1>5, <2>1, <2>2, <1>2, <1>3 DEF StartChain
<1>6. CASE UnresolvedStep
    BY <1>6, <1>2 DEF UnresolvedStep
<1>7. CASE CompileOnlyStep
    <2> DEFINE p == IF ThisStep.class = "MUST_NOT" THEN ~ExportsCompile(ThisStep.refs)
                    ELSE ExportsCompile(ThisStep.refs)
               g == [Top EXCEPT !.step = @ + 1, !.log = Logged(0, p)]
    <2>1. Finish("fail") \/ Goto(g)
        BY <1>7 DEF CompileOnlyStep
    <2>2. g.case = Top.case
        BY <1>4 DEF Frame
    <2> HIDE DEF g
    <2> QED
        BY <2>1, <2>2, <1>2, <1>3
<1>8. CASE RuntimeStep
    <2>1. [Top EXCEPT !.pc = "ref", !.ref = 1, !.any = FALSE].case = Top.case
        BY <1>4 DEF Frame
    <2> QED
        BY <1>8, <2>1, <1>3 DEF RuntimeStep
<1>9. CASE SelfReference
    BY <1>9, <1>2 DEF SelfReference
<1>10. CASE CallRef
    <2> DEFINE c == ThisStep.refs[Top.ref]
               g(r) == [Top EXCEPT !.pc = "back", !.got = r]
    <2>1. \A r : g(r).case = Top.case
        BY <1>4 DEF Frame
    <2>2. CASE Refused(c)
        <3>1. Goto(g("fail"))
            BY <1>10, <2>2 DEF CallRef, Goto
        <3> QED
            BY <2>1, <3>1, <1>3
    <2>3. CASE ~Refused(c)
        <3> DEFINE base == [stack EXCEPT ![Depth] = g("none")]
        <3>1. stack' = Append(base, NewFrame(c)) /\ active' = active \cup {c}
            BY <1>10, <2>3 DEF CallRef
        <3>2. c \notin active /\ NewFrame(c).case = c
            BY <2>3 DEF Refused, NewFrame
        <3>3. stack \in Seq(Frame) /\ Depth \in Nat \ {0} /\ DOMAIN stack = 1 .. Depth
              /\ Top = stack[Depth]
            BY <1>1, TopFacts DEF ControlOK, Depth, Top
        <3>4. base \in Seq({g("none")} \cup Frame) /\ Len(base) = Depth
            BY <3>3 DEF Depth
        <3>5. \A i \in 1 .. Depth : base[i].case = stack[i].case
            BY <2>1, <3>3
        <3> HIDE DEF base, g
        <3>6. /\ DOMAIN stack' = 1 .. (Depth + 1)
              /\ \A i \in 1 .. Depth : stack'[i].case = stack[i].case
              /\ stack'[Depth + 1].case = c
            BY <3>1, <3>2, <3>3, <3>4, <3>5
        <3>7. \A i \in 1 .. Depth : stack[i].case # c
            BY <3>2, <3>3 DEF Guard, ActiveIsStack
        <3> HIDE DEF c
        <3>8. NoReentry'
            BY <3>3, <3>6, <3>7 DEF Guard, NoReentry
        <3>9. ActiveIsStack'
            BY <3>1, <3>3, <3>6 DEF Guard, ActiveIsStack
        <3> QED
            BY <3>8, <3>9 DEF Guard
    <2> QED
        BY <2>2, <2>3
<1>11. CASE AfterRef
    <2> DEFINE s == ThisStep
               p == IF s.class = "MUST_NOT" THEN Top.got = "fail" ELSE Top.got = "pass"
               g == [Top EXCEPT !.pc = "ref", !.ref = NextRef(s, p),
                                !.any = @ \/ p, !.log = Logged(Top.ref, p)]
    <2>1. Finish("fail") \/ Goto(g)
        BY <1>11 DEF AfterRef
    <2>2. g.case = Top.case
        BY <1>4 DEF Frame
    <2> HIDE DEF g
    <2> QED
        BY <2>1, <2>2, <1>2, <1>3
<1>12. CASE Unwind
    BY <1>12, <1>2 DEF Unwind
<1>13. CASE EndStep
    <2>1. ASSUME NEW n PROVE [Top EXCEPT !.pc = "step", !.step = n].case = Top.case
        BY <1>4 DEF Frame
    <2> QED
        BY <1>13, <2>1, <1>2, <1>3 DEF EndStep
<1>14. CASE ResolveImports
    <2>1. [Top EXCEPT !.pc = "harness"].case = Top.case
        BY <1>4 DEF Frame
    <2> QED
        BY <1>14, <2>1, <1>2, <1>3 DEF ResolveImports
<1>15. CASE RunHarness
    BY <1>15, <1>2 DEF RunHarness
<1> QED
    BY <1>5, <1>6, <1>7, <1>8, <1>9, <1>10, <1>11, <1>12, <1>13, <1>14, <1>15 DEF Run

-----------------------------------------------------------------------------
(* The invariant of the control state and the theorems that follow.        *)

ControlInv == ControlOK /\ Guard

(***************************************************************************)
(* A run starts with one frame, whose key is the one active key.           *)
(***************************************************************************)
LEMMA InitEstablishesControl == Init => ControlInv
<1> SUFFICES ASSUME Init PROVE ControlInv
    OBVIOUS
<1>1. PICK c \in Cases : library[c].known /\ stack = <<NewFrame(c)>> /\ active = {c}
    BY DEF Init
<1>2. NewFrame(c) \in Frame /\ NewFrame(c).case = c /\ NewFrame(c).pc = "plan"
      /\ NewFrame(c).step = 1
    BY DEF NewFrame, Frame, Outcome
<1>3. library[c] \in CaseDef /\ Len(library[c].steps) \in Nat
    BY LibrariesAssumption DEF Init, CaseDef
<1>4. FrameOK(NewFrame(c))
    BY <1>1, <1>2, <1>3 DEF FrameOK
<1>5. ControlOK
    BY <1>1, <1>2, <1>4 DEF Init, ControlOK
<1>6. Guard
    BY <1>1, <1>2 DEF Guard, NoReentry, ActiveIsStack
<1> QED
    BY <1>5, <1>6 DEF ControlInv

LEMMA ControlInvariant == Spec => []ControlInv
<1>1. ControlInv /\ [Next]_vars => ControlInv'
    <2> SUFFICES ASSUME ControlInv, [Next]_vars PROVE ControlInv'
        OBVIOUS
    <2>1. CASE Run
        BY <2>1, RunKeepsControl, RunKeepsGuard DEF ControlInv
    <2>2. CASE UNCHANGED vars
        BY <2>2 DEF ControlInv, ControlOK, Guard, NoReentry, ActiveIsStack, FrameOK, Frame, vars
    <2> QED
        BY <2>1, <2>2 DEF Next, Done
<1> QED
    BY InitEstablishesControl, <1>1, PTL DEF Spec

(***************************************************************************)
(* "Recursive re-entry during execution is forbidden", for every library:  *)
(* no case is ever on the call stack twice.                                *)
(***************************************************************************)
THEOREM ReentryForbidden == Spec => []NoReentry
<1>1. ControlInv => NoReentry
    BY DEF ControlInv, Guard
<1> QED
    BY <1>1, ControlInvariant, PTL

(***************************************************************************)
(* The set of active keys is the set of the cases on the call stack, on    *)
(* every path out of a run: a key is never left behind nor lost.           *)
(***************************************************************************)
THEOREM GuardIsExact == Spec => []ActiveIsStack
<1>1. ControlInv => ActiveIsStack
    BY DEF ControlInv, Guard
<1> QED
    BY <1>1, ControlInvariant, PTL

(***************************************************************************)
(* Both together, as the run checks them: the guard of run_case against    *)
(* recursion.                                                              *)
(***************************************************************************)
THEOREM GuardHolds == Spec => []ReentryGuard
<1> QED
    BY ReentryForbidden, GuardIsExact, PTL DEF ReentryGuard

-----------------------------------------------------------------------------
(* The shared context: what a chain writes for the cases nested in it.     *)

LEMMA LeastExists ==
    ASSUME NEW S \in SUBSET Nat, S # {}
    PROVE  \E i \in S : \A j \in S : i <= j
<1>1. PICK i \in S : \A j \in S : ~ (<<j, i>> \in OpToRel(<, Nat))
    BY NatLessThanWellFounded, WFMin, Zenon
<1>2. \A j \in S : ~(j < i)
    BY <1>1 DEF OpToRel
<1> QED
    BY <1>2

(***************************************************************************)
(* The exports of a step bind names to cases of its reference list.        *)
(***************************************************************************)
LEMMA ExportsAreBindings ==
    ASSUME NEW refs \in Seq(Cases)
    PROVE  Exports(refs) \in Bindings
<1>1. Provided(refs) \in SUBSET Names
    BY DEF Provided
<1>2. ASSUME NEW n \in Provided(refs)
      PROVE  refs[CHOOSE i \in Providers(refs, n) : \A j \in Providers(refs, n) : i <= j] \in Cases
    <2>1. Providers(refs, n) \in SUBSET (DOMAIN refs) /\ Providers(refs, n) # {}
        BY <1>2 DEF Provided, Providers, Usable
    <2>2. Providers(refs, n) \in SUBSET Nat
        BY <2>1
    <2>3. \E i \in Providers(refs, n) : \A j \in Providers(refs, n) : i <= j
        BY <2>1, <2>2, LeastExists
    <2>4. (CHOOSE i \in Providers(refs, n) : \A j \in Providers(refs, n) : i <= j)
            \in Providers(refs, n)
        BY <2>3
    <2> QED
        BY <2>1, <2>4
<1>3. Exports(refs) \in [Provided(refs) -> Cases]
    BY <1>2 DEF Exports
<1> QED
    BY <1>1, <1>3 DEF Bindings

LEMMA NoBindingIsBinding == NoBinding \in Bindings
<1>1. NoBinding \in [{} -> Cases]
    BY DEF NoBinding
<1> QED
    BY <1>1 DEF Bindings

LEMMA EmptyStateIsState == EmptyState \in State
    BY NoBindingIsBinding DEF EmptyState, State

(***************************************************************************)
(* Resolved imports bind local names to the producers found in the shared  *)
(* chain state.                                                            *)
(***************************************************************************)
LEMMA ResolvedImportsAreBindings ==
    ASSUME chainState \in State, NEW d \in CaseDef, Resolvable(d)
    PROVE  ResolvedImports(d) \in Bindings
<1> DEFINE locals == {d.imports[i].local : i \in DOMAIN d.imports}
           at(l) == CHOOSE j \in DOMAIN d.imports : d.imports[j].local = l
           value(l) == chainState[d.imports[at(l)].from][d.imports[at(l)].name]
<1>1. d.imports \in Seq(Import)
    BY DEF CaseDef
<1>2. locals \in SUBSET Names
    <2>1. \A i \in DOMAIN d.imports : d.imports[i] \in Import
        BY <1>1
    <2>2. \A i \in DOMAIN d.imports : d.imports[i].local \in Names
        BY <2>1 DEF Import
    <2> QED
        BY <2>2
<1>3. ASSUME NEW l \in locals PROVE value(l) \in Cases
    <2>1. at(l) \in DOMAIN d.imports
        BY <1>3
    <2>2. d.imports[at(l)] \in Import
        BY <1>1, <2>1
    <2>3. chainState[d.imports[at(l)].from] \in Bindings
        BY <2>2 DEF State, Import
    <2>4. d.imports[at(l)].name \in DOMAIN chainState[d.imports[at(l)].from]
        BY <2>1 DEF Resolvable
    <2> HIDE DEF at
    <2> QED
        BY <2>3, <2>4 DEF Bindings
<1>4. ResolvedImports(d) = [l \in locals |-> value(l)]
    BY DEF ResolvedImports
<1> HIDE DEF locals, value
<1>5. ResolvedImports(d) \in [locals -> Cases]
    BY <1>3, <1>4
<1> QED
    BY <1>2, <1>5 DEF Bindings

LEMMA TraceRowIsTyped ==
    ASSUME NEW s \in Step, NEW ref \in Cases \cup {NoCase}, NEW p \in BOOLEAN
    PROVE  TraceOf(s, ref, p) \in TraceRow
    BY DEF TraceOf, TraceRow, Step, Verdict

LEMMA RunKeepsContext == ControlOK /\ ContextOK /\ Run => ContextOK'
<1> SUFFICES ASSUME ControlOK, ContextOK, Run PROVE ContextOK'
    OBVIOUS
<1>1. stack # <<>>
    BY DEF Run, At, StartChain, UnresolvedStep, CompileOnlyStep, RuntimeStep,
           SelfReference, CallRef, AfterRef, Unwind, EndStep, ResolveImports, RunHarness
<1>2. /\ Top \in Frame
      /\ FrameOK(Top)
      /\ Top.case \in Cases
      /\ Plan \in CaseDef
      /\ Plan = library[Top.case]
      /\ Top.step <= Len(Plan.steps) => ThisStep \in Step
    BY <1>1, TopFacts DEF Plan
<1>3. CASE UNCHANGED context
    BY <1>3 DEF context, ContextOK
<1>4. CASE StartChain
    <2>1. UNCHANGED context \/ (chainState' = EmptyState /\ chainTrace' = <<>> /\ payloads' = payloads)
        BY <1>4 DEF StartChain, FreshTrace, context
    <2>2. CASE chainState' = EmptyState /\ chainTrace' = <<>> /\ payloads' = payloads
        BY <2>2, EmptyStateIsState DEF ContextOK
    <2> QED
        BY <2>1, <2>2, <1>3
<1>5. CASE CompileOnlyStep
    <2> DEFINE s == ThisStep
               p == IF s.class = "MUST_NOT" THEN ~ExportsCompile(s.refs) ELSE ExportsCompile(s.refs)
               first == FirstRef(s)
               b == IF s.class # "MUST_NOT" /\ ExportsCompile(s.refs) THEN Exports(s.refs) ELSE NoBinding
    <2>1. s \in Step
        BY <1>5, <1>2 DEF CompileOnlyStep
    <2>2. s.refs \in Seq(Cases) /\ s.id \in StepIds
        BY <2>1 DEF Step
    <2>3. first \in Cases \cup {NoCase}
        BY <2>2 DEF FirstRef
    <2>4. p \in BOOLEAN
        BY DEF ExportsCompile
    <2>5. b \in Bindings
        BY <2>2, ExportsAreBindings, NoBindingIsBinding
    <2>6. /\ chainTrace' = Append(chainTrace, TraceOf(s, first, p))
          /\ chainState' = chainState \/ chainState' = [chainState EXCEPT ![s.id] = b]
          /\ payloads' = payloads
        BY <1>5 DEF CompileOnlyStep
    <2> HIDE DEF s, p, first, b
    <2>7. TraceOf(s, first, p) \in TraceRow
        BY <2>1, <2>3, <2>4, TraceRowIsTyped
    <2>8. chainTrace' \in Seq(TraceRow)
        BY <2>6, <2>7 DEF ContextOK
    <2>9. chainState' \in State
        BY <2>2, <2>5, <2>6 DEF ContextOK, State
    <2> QED
        BY <2>6, <2>8, <2>9 DEF ContextOK
<1>6. CASE AfterRef
    <2> DEFINE s == ThisStep
               p == IF s.class = "MUST_NOT" THEN Top.got = "fail" ELSE Top.got = "pass"
    <2>1. Top.pc = "back"
        BY <1>6 DEF AfterRef, At
    <2>2. s \in Step /\ Top.ref \in 1 .. Len(s.refs)
        BY <2>1, <1>2 DEF FrameOK, ThisStep, Frame
    <2>3. s.refs[Top.ref] \in Cases
        BY <2>2 DEF Step
    <2>4. p \in BOOLEAN
        OBVIOUS
    <2>5. /\ chainTrace' = Append(chainTrace, TraceOf(s, s.refs[Top.ref], p))
          /\ UNCHANGED <<chainState, payloads>>
        BY <1>6 DEF AfterRef
    <2> HIDE DEF s, p
    <2>6. TraceOf(s, s.refs[Top.ref], p) \in TraceRow
        BY <2>2, <2>3, <2>4, TraceRowIsTyped
    <2> QED
        BY <2>5, <2>6 DEF ContextOK
<1>7. CASE EndStep
    <2>1. ThisStep.id \in StepIds
        BY <1>7, <1>2 DEF EndStep, At, FrameOK, Step
    <2>2. /\ chainState' = chainState \/ chainState' = [chainState EXCEPT ![ThisStep.id] = NoBinding]
          /\ UNCHANGED <<chainTrace, payloads>>
        BY <1>7 DEF EndStep
    <2> QED
        BY <2>1, <2>2, NoBindingIsBinding DEF ContextOK, State
<1>8. CASE ResolveImports
    <2>1. CASE Resolvable(Plan)
        <3> DEFINE new == [state |-> chainState, trace |-> chainTrace,
                           imports |-> ResolvedImports(Plan), set |-> TRUE]
        <3>1. ResolvedImports(Plan) \in Bindings
            BY <2>1, <1>2, ResolvedImportsAreBindings DEF ContextOK
        <3>2. new \in Payload
            BY <3>1 DEF Payload, ContextOK
        <3>3. payloads' = [payloads EXCEPT ![Top.case] = new] /\ UNCHANGED <<chainState, chainTrace>>
            BY <1>8, <2>1 DEF ResolveImports
        <3> QED
            BY <1>2, <3>2, <3>3 DEF ContextOK
    <2>2. CASE ~Resolvable(Plan)
        BY <1>8, <2>2, <1>3 DEF ResolveImports, context
    <2> QED
        BY <2>1, <2>2
<1> QED
    BY <1>3, <1>4, <1>5, <1>6, <1>7, <1>8
       DEF Run, UnresolvedStep, RuntimeStep, SelfReference, CallRef, Unwind, RunHarness

(***************************************************************************)
(* Type correctness, for every library.                                    *)
(***************************************************************************)
THEOREM TypeCorrect == Spec => []TypeOK
<1>1. Init => ContextOK
    <2> SUFFICES ASSUME Init PROVE ContextOK
        OBVIOUS
    <2>1. NoPayload \in Payload
        BY EmptyStateIsState, NoBindingIsBinding DEF NoPayload, Payload
    <2> QED
        BY <2>1, EmptyStateIsState DEF Init, ContextOK
<1>2. ControlInv /\ ContextOK /\ [Next]_vars => ContextOK'
    <2> SUFFICES ASSUME ControlInv, ContextOK, [Next]_vars PROVE ContextOK'
        OBVIOUS
    <2>1. CASE Run
        BY <2>1, RunKeepsContext DEF ControlInv
    <2>2. CASE UNCHANGED vars
        BY <2>2 DEF ContextOK, vars
    <2> QED
        BY <2>1, <2>2 DEF Next, Done
<1>3. ControlInv /\ ContextOK => TypeOK
    BY DEF ControlInv, TypeOK
<1> QED
    BY <1>1, <1>2, <1>3, ControlInvariant, PTL DEF Spec
=============================================================================
