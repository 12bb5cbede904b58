-------------------------- MODULE AssertionProofs --------------------------
(***************************************************************************)
(* AssertionRun for every set of cases: its type invariant, and that a     *)
(* case passes only when every required clause and its hooks held.         *)
(***************************************************************************)
EXTENDS AssertionRun, FiniteSetTheorems, TLAPS

(* What one more entry does to the log. *)
LEMMA LogGrows ==
    ASSUME NEW l \in Seq(Entry), NEW e \in Entry
    PROVE  /\ Append(l, e) \in Seq(Entry)
           /\ DOMAIN Append(l, e) = DOMAIN l \cup {Len(l) + 1}
           /\ \A k \in DOMAIN l : Append(l, e)[k] = l[k]
           /\ Append(l, e)[Len(l) + 1] = e
           /\ Len(Append(l, e)) = Len(l) + 1
           /\ Append(l, e) # l
           /\ Len(l) + 1 \notin DOMAIN l
  OBVIOUS

(* What held stays held in a longer log. *)
LEMMA HeldIsKept ==
    ASSUME NEW l \in Seq(Entry), NEW e \in Entry, NEW i, NEW c, CheckHeld(l, i, c)
    PROVE  CheckHeld(Append(l, e), i, c)
  <1>1. PICK k \in DOMAIN l : /\ l[k].event = "check" /\ l[k].clause = i
                              /\ l[k].at = c /\ ~Failed(l[k])
    BY DEF CheckHeld
  <1>2. k \in DOMAIN Append(l, e) /\ Append(l, e)[k] = l[k]
    BY LogGrows
  <1> QED  BY <1>1, <1>2 DEF CheckHeld

LEMMA SeqElements ==
    ASSUME NEW S, NEW s \in Seq(S)
    PROVE  /\ Len(s) \in Nat /\ DOMAIN s = 1 .. Len(s)
           /\ \A i \in DOMAIN s : s[i] \in S
  OBVIOUS

(* The clauses of a case. *)
LEMMA ClauseFacts ==
    ASSUME ControlOK
    PROVE  /\ Len(case.clauses) \in Nat
           /\ DOMAIN case.clauses = 1 .. Len(case.clauses)
           /\ \A i \in DOMAIN case.clauses :
                /\ case.clauses[i].required \in BOOLEAN
                /\ case.clauses[i].checks \in Nat
           /\ clause \in Nat
  <1>1. case.clauses \in Seq([required : BOOLEAN, checks : Nat \ {0}])
    BY CasesAssumption DEF ControlOK, Case
  <1>2. /\ Len(case.clauses) \in Nat
        /\ DOMAIN case.clauses = 1 .. Len(case.clauses)
        /\ \A i \in DOMAIN case.clauses :
            case.clauses[i] \in [required : BOOLEAN, checks : Nat \ {0}]
    BY <1>1, SeqElements
  <1>3. clause \in 0 .. Len(case.clauses) + 1
    BY DEF ControlOK
  <1>4. clause \in Nat
    BY <1>2, <1>3
  <1> QED  BY <1>2, <1>4

(* An entry the code appends makes a longer log. *)
LEMMA LoggedIsLog ==
    ASSUME TypeOK, NEW event \in Events \cup {"check"}, NEW r \in CheckResults \cup HookResults
    PROVE  Logged(event, r) \in Seq(Entry)
  <1>1. clause \in Nat
    BY ClauseFacts DEF TypeOK
  <1>2. [event |-> event, clause |-> clause, at |-> at, result |-> r, totals |-> totals] \in Entry
    BY <1>1 DEF TypeOK, ControlOK, Entry
  <1> QED  BY <1>2, LogGrows DEF TypeOK, Logged

-----------------------------------------------------------------------------
(* The type invariant.                                                      *)

LEMMA LogKeepsType ==
    ASSUME TypeOK, Evaluate
    PROVE  log' \in Seq(Entry)
  <1>1. CASE log' = log
    BY <1>1 DEF TypeOK
  <1>2. CASE \E event \in Events \cup {"check"}, r \in CheckResults \cup HookResults :
                log' = Logged(event, r)
    BY <1>2, LoggedIsLog
  <1> QED  BY <1>1, <1>2 DEF Evaluate, Start, EvalCheck, ClausePasses, PassHook, FailHook,
                             CompleteHook, PassEvent, Events

LEMMA RaisedClasses ==
    ASSUME NEW r
    PROVE  RaisedByCheck(r) \in Raised \ {"none"} /\ RaisedByHook(r) \in Raised \ {"none"}
  BY DEF RaisedByCheck, RaisedByHook, Raised

LEMMA NextClauseType ==
    ASSUME ControlOK, NextClause, case' = case, pc \in {"check", "pass_hook"},
           UNCHANGED verdict, raised' \in Raised, totals' \in Totals
    PROVE  ControlOK'
  BY ClauseFacts DEF ControlOK, NextClause

LEMMA CountedTypes ==
    ASSUME ControlOK
    PROVE  CountFailed \in Totals /\ CountedPassed \in Totals
  <1>1. totals \in Totals
    BY DEF ControlOK
  <1>2. /\ totals.passed + 1 \in Nat /\ totals.failed + 1 \in Nat
        /\ totals.requiredPassed + 1 \in Nat /\ totals.optionalPassed + 1 \in Nat
    BY <1>1 DEF Totals
  <1>3. CountFailed = [passed |-> totals.passed, failed |-> totals.failed + 1,
                       requiredPassed |-> totals.requiredPassed,
                       optionalPassed |-> totals.optionalPassed]
    BY <1>1 DEF CountFailed, Totals
  <1>4. CASE Required
    <2>1. CountedPassed = [passed |-> totals.passed + 1, failed |-> totals.failed,
                           requiredPassed |-> totals.requiredPassed + 1,
                           optionalPassed |-> totals.optionalPassed]
      BY <1>1, <1>4 DEF CountedPassed, Totals
    <2> QED  BY <1>1, <1>2, <1>3, <2>1 DEF Totals
  <1>5. CASE ~Required
    <2>1. CountedPassed = [passed |-> totals.passed + 1, failed |-> totals.failed,
                           requiredPassed |-> totals.requiredPassed,
                           optionalPassed |-> totals.optionalPassed + 1]
      BY <1>1, <1>5 DEF CountedPassed, Totals
    <2> QED  BY <1>1, <1>2, <1>3, <2>1 DEF Totals
  <1> QED  BY <1>4, <1>5

LEMMA ClauseRaisesType ==
    ASSUME ControlOK, NEW e \in Raised \ {"none"}, ClauseRaises(e), case' = case,
           pc \in {"check", "pass_hook"}, UNCHANGED verdict
    PROVE  ControlOK'
  <1>1. totals' \in Totals
    BY CountedTypes DEF ClauseRaises
  <1>2. CASE Blocks(e)
    BY <1>1, <1>2, ClauseFacts DEF ClauseRaises, ControlOK
  <1>3. CASE ~Blocks(e)
    BY <1>1, <1>3, NextClauseType DEF ClauseRaises, ControlOK
  <1> QED  BY <1>2, <1>3

LEMMA ControlIsKept ==
    ASSUME ControlOK, Evaluate
    PROVE  ControlOK'
  <1>0. case' = case
    BY DEF Evaluate, Start, EvalCheck, ClausePasses, PassHook, FailHook, CompleteHook
  <1>n. Len(case.clauses) \in Nat /\ DOMAIN case.clauses = 1 .. Len(case.clauses)
    BY ClauseFacts
  <1>1. CASE Start
    <2>1. case.clauses # <<>> => 1 \in DOMAIN case.clauses
      <3>1. case.clauses \in Seq([required : BOOLEAN, checks : Nat \ {0}])
        BY CasesAssumption DEF ControlOK, Case
      <3> QED  BY <1>n, <3>1
    <2> QED  BY <1>0, <1>n, <1>1, <2>1 DEF Start, End, ControlOK, Raised
  <1>2. CASE EvalCheck
    <2>1. CASE at' = at + 1 /\ UNCHANGED <<pc, clause, raised, totals>>
      BY <1>0, <1>n, <1>2, <2>1 DEF EvalCheck, ControlOK
    <2>2. CASE \E r \in CheckResults : ClauseRaises(RaisedByCheck(r))
      BY <1>0, <1>2, <2>2, RaisedClasses, ClauseRaisesType DEF EvalCheck
    <2> QED  BY <1>2, <2>1, <2>2 DEF EvalCheck
  <1>3. CASE ClausePasses
    BY <1>0, <1>n, <1>3, CountedTypes DEF ClausePasses, ControlOK
  <1>4. CASE PassHook
    <2>1. CASE NextClause /\ UNCHANGED <<raised, totals>>
      BY <1>0, <1>4, <2>1, NextClauseType DEF PassHook, ControlOK
    <2>2. CASE at' = at + 1 /\ UNCHANGED <<pc, clause, raised, totals>>
      BY <1>0, <1>n, <1>4, <2>2 DEF PassHook, ControlOK
    <2>3. CASE \E r \in HookResults : ClauseRaises(RaisedByHook(r))
      BY <1>0, <1>4, <2>3, RaisedClasses, ClauseRaisesType DEF PassHook
    <2> QED  BY <1>4, <2>1, <2>2, <2>3 DEF PassHook
  <1>5. CASE FailHook
    <2>1. CASE at' = at + 1 /\ UNCHANGED <<pc, raised, verdict>>
      BY <1>0, <1>n, <1>5, <2>1 DEF FailHook, ControlOK
    <2>2. CASE UNCHANGED at /\ \E e \in Raised : End(e)
      BY <1>0, <1>n, <1>5, <2>2 DEF FailHook, End, ControlOK
    <2> QED  BY <1>5, <2>1, <2>2, RaisedClasses DEF FailHook, FailureAfterHook, ControlOK
  <1>6. CASE CompleteHook
    <2>1. CASE at' = at + 1 /\ UNCHANGED <<pc, raised, verdict>>
      BY <1>0, <1>n, <1>6, <2>1 DEF CompleteHook, ControlOK
    <2>2. CASE UNCHANGED at /\ \E e \in Raised : End(e)
      BY <1>0, <1>n, <1>6, <2>2 DEF CompleteHook, End, ControlOK
    <2>3. "none" \in Raised
      BY DEF Raised
    <2> QED  BY <1>6, <2>1, <2>2, <2>3, RaisedClasses DEF CompleteHook
  <1> QED  BY <1>1, <1>2, <1>3, <1>4, <1>5, <1>6 DEF Evaluate

(* Every reachable state of a decision has its shape: the loop never stands *)
(* at a clause that does not exist, whatever clauses and hooks fail.        *)
THEOREM TypeCorrect == Spec => []TypeOK
  <1>1. Init => TypeOK
    BY CasesAssumption DEF Init, TypeOK, ControlOK, Case, NoTotals, Totals, Raised
  <1>2. TypeOK /\ [Next]_vars => TypeOK'
    <2>1. ASSUME TypeOK, Evaluate PROVE TypeOK'
      BY <2>1, ControlIsKept, LogKeepsType DEF TypeOK
    <2>2. ASSUME TypeOK, UNCHANGED vars PROVE TypeOK'
      BY <2>2 DEF vars, TypeOK, ControlOK
    <2> QED  BY <2>1, <2>2 DEF Next, Finished
  <1> QED  BY <1>1, <1>2, PTL DEF Spec

-----------------------------------------------------------------------------
(* PassMeansRequiredHeld: RunInv is inductive.                              *)

(* What held in the log holds in a log that is kept or appended to, and     *)
(* nothing blocks in it when the new entry does not.                        *)
LEMMA LogKeepsHeld ==
    ASSUME TypeOK, case' = case,
           NEW event \in Events \cup {"check"}, NEW r \in CheckResults \cup HookResults,
           log' = Logged(event, r)
    PROVE  /\ \A i, c : CheckHeld(log, i, c) => CheckHeld(log', i, c)
           /\ \A i : Held(log, i) => Held(log, i)'
           /\ (event = "check" /\ r = "holds") => CheckHeld(log', clause, at)
           /\ log' # log
           /\ log'[Len(log')].event = event
           /\ ((\A k \in DOMAIN log : ~Blocking(log[k]))
                /\ (r = "holds" \/ (event \notin {"fail", "complete"} /\ ~RequiredClause(clause))))
              => (\A k \in DOMAIN log : ~Blocking(log[k]))'
  <1> DEFINE e == [event |-> event, clause |-> clause, at |-> at, result |-> r, totals |-> totals]
  <1>1. e \in Entry
    <2>1. clause \in Nat
      BY ClauseFacts DEF TypeOK
    <2> QED  BY <2>1 DEF TypeOK, ControlOK, Entry
  <1>2. log \in Seq(Entry) /\ log' = Append(log, e)
    BY DEF TypeOK, Logged
  <1>3. e.event = event /\ e.clause = clause /\ e.at = at /\ e.result = r
    OBVIOUS
  <1> HIDE DEF e
  <1>4. /\ DOMAIN log' = DOMAIN log \cup {Len(log) + 1}
        /\ \A k \in DOMAIN log : log'[k] = log[k]
        /\ log'[Len(log) + 1] = e
        /\ Len(log') = Len(log) + 1
        /\ log' # log
    BY <1>1, <1>2, LogGrows
  <1>5. \A i, c : CheckHeld(log, i, c) => CheckHeld(log', i, c)
    BY <1>1, <1>2, HeldIsKept
  <1>6. \A i : Held(log, i) => Held(log, i)'
    BY <1>5 DEF Held
  <1>7. (event = "check" /\ r = "holds") => CheckHeld(log', clause, at)
    BY <1>3, <1>4 DEF CheckHeld, Failed
  <1>8. ASSUME \A k \in DOMAIN log : ~Blocking(log[k]),
               r = "holds" \/ (event \notin {"fail", "complete"} /\ ~RequiredClause(clause))
        PROVE  (\A k \in DOMAIN log : ~Blocking(log[k]))'
    <2>1. ~Blocking(e)
      BY <1>3, <1>8 DEF Blocking, Failed
    <2>2. \A x : Blocking(x)' <=> Blocking(x)
      BY DEF Blocking, RequiredClause, Failed
    <2> QED  BY <1>4, <1>8, <2>1 DEF Blocking, RequiredClause, Failed
  <1> QED  BY <1>3, <1>4, <1>5, <1>6, <1>7, <1>8

LEMMA NextClauseKeepsRunInv ==
    ASSUME TypeOK, NextClause, UNCHANGED <<case, raised, verdict>>, verdict = "running",
           pc \in {"check", "pass_hook"}, clause # 0,
           (\A k \in DOMAIN log : ~Blocking(log[k]))',
           \A i \in DOMAIN case.clauses :
                (i <= clause /\ case.clauses[i].required) => Held(log, i)'
    PROVE  RunInv'
  <1>1. /\ Len(case.clauses) \in Nat /\ DOMAIN case.clauses = 1 .. Len(case.clauses)
        /\ clause \in Nat
    BY ClauseFacts DEF TypeOK
  <1>2. /\ clause' = clause + 1 /\ at' = 1
        /\ pc' \in {"check", "complete_hook"}
        /\ pc' = "complete_hook" => clause' = Len(case.clauses) + 1
    BY DEF NextClause
  <1>3. \A i \in DOMAIN case'.clauses :
            (i < clause' /\ case'.clauses[i].required) => Held(log, i)'
    BY <1>1, <1>2
  <1>4. clause' # 0
    BY <1>1, <1>2
  <1>5. \A c \in 1 .. at' - 1 : CheckHeld(log', clause', c)
    BY <1>2
  <1> QED  BY <1>2, <1>3, <1>4, <1>5 DEF RunInv

(* A clause that raises, with the entry that made it raise in the log. *)
LEMMA ClauseRaisesKeepsRunInv ==
    ASSUME TypeOK, RunInv, UNCHANGED <<case, verdict>>, pc \in {"check", "pass_hook"},
           NEW event \in {"check", PassEvent}, NEW r \in CheckResults \cup HookResults,
           log' = Logged(event, r),
           NEW e \in Raised \ {"none"}, ClauseRaises(e)
    PROVE  RunInv'
  <1>0. /\ Len(case.clauses) \in Nat /\ DOMAIN case.clauses = 1 .. Len(case.clauses)
        /\ clause \in Nat /\ clause \in DOMAIN case.clauses
        /\ case.clauses[clause].required \in BOOLEAN
    BY ClauseFacts DEF TypeOK, ControlOK
  <1>1. verdict = "running"
    BY DEF RunInv
  <1>2. CASE Blocks(e)
    BY <1>1, <1>2 DEF ClauseRaises, RunInv, CanPass
  <1>3. CASE ~Blocks(e)
    <2>1. ~RequiredClause(clause) /\ ~Required
      BY <1>3 DEF Blocks, Required, RequiredClause
    <2>2. event \in Events \cup {"check"} /\ event \notin {"fail", "complete"}
      BY DEF PassEvent, Events
    <2>3. (\A k \in DOMAIN log : ~Blocking(log[k]))'
      BY <2>1, <2>2, LogKeepsHeld DEF RunInv, CanPass
    <2>4. \A i \in DOMAIN case.clauses :
                (i <= clause /\ case.clauses[i].required) => Held(log, i)'
      <3>1. SUFFICES ASSUME NEW i \in DOMAIN case.clauses, i <= clause,
                            case.clauses[i].required
                     PROVE  Held(log, i)'
        OBVIOUS
      <3>2. i # clause
        BY <2>1, <3>1 DEF Required
      <3>3. i < clause
        BY <1>0, <3>1, <3>2
      <3>4. Held(log, i)
        BY <3>1, <3>3 DEF RunInv, CanPass
      <3> QED  BY <2>2, <3>4, LogKeepsHeld
    <2>5. NextClause /\ UNCHANGED raised
      BY <1>3 DEF ClauseRaises
    <2>6. clause # 0
      BY DEF RunInv, CanPass
    <2> QED  BY <1>1, <2>3, <2>4, <2>5, <2>6, NextClauseKeepsRunInv
  <1> QED  BY <1>2, <1>3

LEMMA EvalCheckKeepsRunInv ==
    ASSUME TypeOK, RunInv, EvalCheck
    PROVE  RunInv'
  <1>1. PICK r \in CheckResults :
          /\ log' = Logged("check", r)
          /\ IF r = "holds" THEN /\ at' = at + 1
                                 /\ UNCHANGED <<pc, clause, raised, totals>>
                            ELSE ClauseRaises(RaisedByCheck(r))
    BY DEF EvalCheck
  <1>2. UNCHANGED <<case, verdict>> /\ pc = "check"
    BY DEF EvalCheck
  <1>3. CASE r = "holds"
    <2>1. /\ pc' = "check" /\ clause' = clause /\ at' = at + 1 /\ UNCHANGED raised
      BY <1>1, <1>2, <1>3
    <2>2. /\ \A c : CheckHeld(log, clause, c) => CheckHeld(log', clause, c)
          /\ \A i : Held(log, i) => Held(log, i)'
          /\ CheckHeld(log', clause, at)
          /\ (\A k \in DOMAIN log : ~Blocking(log[k])) => (\A k \in DOMAIN log : ~Blocking(log[k]))'
      BY <1>1, <1>2, <1>3, LogKeepsHeld
    <2>3. \A c \in 1 .. at' - 1 : CheckHeld(log', clause', c)
      <3>1. at \in Nat
        BY DEF TypeOK, ControlOK
      <3>2. \A c \in 1 .. at' - 1 : c = at \/ c \in 1 .. at - 1
        BY <2>1, <3>1
      <3> QED  BY <1>2, <2>1, <2>2, <3>2 DEF RunInv
    <2>4. CanPass /\ CanPass'
      BY <1>2, <2>1 DEF CanPass
    <2>5. /\ clause # 0
          /\ \A k \in DOMAIN log : ~Blocking(log[k])
          /\ \A i \in DOMAIN case.clauses :
                (i < clause /\ case.clauses[i].required) => Held(log, i)
      BY <2>4 DEF RunInv
    <2>6. verdict = "running" /\ verdict' = "running"
      BY <1>2 DEF RunInv
    <2> QED  BY <1>2, <2>1, <2>2, <2>3, <2>5, <2>6 DEF RunInv
  <1>4. CASE r # "holds"
    BY <1>1, <1>2, <1>4, RaisedClasses, ClauseRaisesKeepsRunInv
  <1> QED  BY <1>3, <1>4

LEMMA ClausePassesKeepsRunInv ==
    ASSUME TypeOK, RunInv, ClausePasses
    PROVE  RunInv'
  <1>1. /\ UNCHANGED <<case, clause, raised, verdict, log>>
        /\ pc = "check" /\ pc' = "pass_hook" /\ at > case.clauses[clause].checks
    BY DEF ClausePasses
  <1>2. at \in Nat /\ case.clauses[clause].checks \in Nat
    BY <1>1, ClauseFacts DEF TypeOK, ControlOK
  <1>3. \A c \in 1 .. case.clauses[clause].checks : c \in 1 .. at - 1
    BY <1>1, <1>2
  <1>4. Held(log, clause)'
    BY <1>1, <1>3 DEF Held, RunInv
  <1>5. (\A k \in DOMAIN log : ~Blocking(log[k]))'
    BY <1>1 DEF RunInv, CanPass, Blocking, RequiredClause
  <1>6. \A i \in DOMAIN case'.clauses :
            (i < clause' /\ case'.clauses[i].required) => Held(log, i)'
    BY <1>1 DEF RunInv, CanPass, Held
  <1>7. clause' # 0 /\ verdict' = "running"
    BY <1>1 DEF RunInv, CanPass
  <1> QED  BY <1>1, <1>4, <1>5, <1>6, <1>7 DEF RunInv

LEMMA PassHookKeepsRunInv ==
    ASSUME TypeOK, RunInv, PassHook
    PROVE  RunInv'
  <1>0. UNCHANGED <<case, verdict>> /\ pc = "pass_hook"
    BY DEF PassHook
  <1>1. /\ \A k \in DOMAIN log : ~Blocking(log[k])
        /\ \A i \in DOMAIN case.clauses :
              (i < clause /\ case.clauses[i].required) => Held(log, i)
        /\ Held(log, clause) /\ clause # 0 /\ verdict = "running"
    BY <1>0 DEF RunInv, CanPass
  <1>2. CASE at > Hooks(PassEvent)
    <2>1. NextClause /\ UNCHANGED <<raised, log>>
      BY <1>2 DEF PassHook
    <2>2. (\A k \in DOMAIN log : ~Blocking(log[k]))'
      BY <1>0, <1>1, <2>1 DEF Blocking, RequiredClause
    <2>3. \A i \in DOMAIN case.clauses :
                (i <= clause /\ case.clauses[i].required) => Held(log, i)'
      <3>1. clause \in Nat /\ DOMAIN case.clauses = 1 .. Len(case.clauses)
            /\ Len(case.clauses) \in Nat
        BY ClauseFacts DEF TypeOK
      <3>2. \A i \in DOMAIN case.clauses : i <= clause => i < clause \/ i = clause
        BY <3>1
      <3> QED  BY <1>0, <1>1, <2>1, <3>2 DEF Held
    <2> QED  BY <1>0, <1>1, <2>1, <2>2, <2>3, NextClauseKeepsRunInv
  <1>3. CASE ~(at > Hooks(PassEvent))
    <2>1. PICK r \in HookResults :
            /\ log' = Logged(PassEvent, r)
            /\ IF r = "holds" THEN /\ at' = at + 1
                                   /\ UNCHANGED <<pc, clause, raised, totals>>
                              ELSE ClauseRaises(RaisedByHook(r))
      BY <1>3 DEF PassHook
    <2>2. CASE r = "holds"
      <3>1. PassEvent \in Events
        BY DEF PassEvent, Events
      <3>2. /\ \A i : Held(log, i) => Held(log, i)'
            /\ (\A k \in DOMAIN log : ~Blocking(log[k]))'
        BY <1>0, <1>1, <2>1, <2>2, <3>1, LogKeepsHeld
      <3>3. /\ pc' = "pass_hook" /\ UNCHANGED <<clause, raised>>
        BY <1>0, <2>1, <2>2
      <3>4. verdict' = "running" /\ case' = case
        BY <1>0, <1>1
      <3> QED  BY <1>1, <3>2, <3>3, <3>4 DEF RunInv
    <2>3. CASE r # "holds"
      BY <1>0, <2>1, <2>3, RaisedClasses, ClauseRaisesKeepsRunInv
    <2> QED  BY <2>2, <2>3
  <1> QED  BY <1>2, <1>3

LEMMA EndKeepsRunInv ==
    ASSUME TypeOK, RunInv, NEW e \in Raised \ {"none"}, End(e)
    PROVE  RunInv'
  BY DEF End, RunInv, CanPass, Raised

LEMMA FailHookKeepsRunInv ==
    ASSUME TypeOK, RunInv, FailHook
    PROVE  RunInv'
  <1>1. CASE UNCHANGED <<pc, raised, verdict>>
    BY <1>1 DEF FailHook, RunInv, CanPass
  <1>2. CASE \E e \in Raised \ {"none"} : End(e)
    BY <1>2, EndKeepsRunInv
  <1> QED  BY <1>1, <1>2, RaisedClasses DEF FailHook, FailureAfterHook, RunInv, TypeOK, ControlOK

LEMMA CompleteHookKeepsRunInv ==
    ASSUME TypeOK, RunInv, CompleteHook
    PROVE  RunInv'
  <1>0. UNCHANGED <<case, clause>> /\ pc = "complete_hook"
    BY DEF CompleteHook
  <1>1. /\ \A k \in DOMAIN log : ~Blocking(log[k])
        /\ \A i \in DOMAIN case.clauses :
              (i < clause /\ case.clauses[i].required) => Held(log, i)
        /\ clause = Len(case.clauses) + 1 /\ clause # 0 /\ verdict = "running"
    BY <1>0 DEF RunInv, CanPass
  <1>2. CASE at > Hooks("complete")
    <2>1. pc' = "done" /\ verdict' = "pass" /\ UNCHANGED log
      BY <1>2 DEF CompleteHook, End
    <2>2. (\A k \in DOMAIN log : ~Blocking(log[k]))'
      BY <1>0, <1>1, <2>1 DEF Blocking, RequiredClause
    <2>3. \A i : Held(log, i) => Held(log, i)'
      BY <1>0, <2>1 DEF Held
    <2> QED  BY <1>0, <1>1, <2>1, <2>2, <2>3 DEF RunInv
  <1>3. CASE ~(at > Hooks("complete"))
    <2>1. PICK r \in HookResults :
            /\ log' = Logged("complete", r)
            /\ IF r = "holds" THEN at' = at + 1 /\ UNCHANGED <<pc, raised, verdict>>
                              ELSE End(RaisedByHook(r)) /\ UNCHANGED at
      BY <1>3 DEF CompleteHook
    <2>2. CASE r = "holds"
      <3>1. /\ \A i : Held(log, i) => Held(log, i)'
            /\ (\A k \in DOMAIN log : ~Blocking(log[k]))'
        BY <1>0, <1>1, <2>1, <2>2, LogKeepsHeld DEF Events
      <3>2. pc' = "complete_hook" /\ verdict' = "running"
        BY <1>0, <1>1, <2>1, <2>2
      <3> QED  BY <1>0, <1>1, <3>1, <3>2 DEF RunInv
    <2>3. CASE r # "holds"
      BY <2>1, <2>3, RaisedClasses, EndKeepsRunInv
    <2> QED  BY <2>2, <2>3
  <1> QED  BY <1>2, <1>3

LEMMA StartKeepsRunInv ==
    ASSUME TypeOK, RunInv, Start
    PROVE  RunInv'
  <1>1. CASE \E e \in Raised \ {"none"} : End(e)
    BY <1>1, EndKeepsRunInv
  <1>2. CASE ~\E e \in Raised \ {"none"} : End(e)
    <2>1. /\ pc' = IF case.clauses = <<>> THEN "complete_hook" ELSE "check"
          /\ clause' = 1 /\ at' = 1 /\ verdict' = verdict /\ raised' = raised
          /\ pc = "start" /\ UNCHANGED <<case, log>>
      BY <1>2 DEF Start, Raised
    <2>2. /\ log' = <<>> /\ verdict' = "running"
      BY <2>1 DEF RunInv
    <2>3. /\ Len(case.clauses) \in Nat /\ DOMAIN case.clauses = 1 .. Len(case.clauses)
      BY ClauseFacts DEF TypeOK
    <2>4. case.clauses = <<>> => Len(case.clauses) = 0
      OBVIOUS
    <2>5. \A i \in DOMAIN case.clauses : ~(i < 1)
      BY <2>3
    <2>6. /\ pc' \in {"check", "complete_hook"}
          /\ pc' = "complete_hook" => clause' = Len(case'.clauses) + 1
          /\ clause' # 0
      BY <2>1, <2>3, <2>4
    <2>7. \A i \in DOMAIN case'.clauses : ~(i < clause')
      BY <2>1, <2>5
    <2>8. (\A k \in DOMAIN log : ~Blocking(log[k]))'
      BY <2>2
    <2>9. \A c \in 1 .. at' - 1 : CheckHeld(log', clause', c)
      BY <2>1
    <2> QED  BY <2>2, <2>6, <2>7, <2>8, <2>9 DEF RunInv
  <1> QED  BY <1>1, <1>2

LEMMA RunInvariant == Spec => [](TypeOK /\ RunInv)
  <1>1. Init => RunInv
    BY DEF Init, RunInv, CanPass
  <1>2. TypeOK /\ RunInv /\ [Next]_vars => RunInv'
    <2>1. ASSUME TypeOK, RunInv, Evaluate PROVE RunInv'
      BY <2>1, StartKeepsRunInv, EvalCheckKeepsRunInv, ClausePassesKeepsRunInv,
         PassHookKeepsRunInv, FailHookKeepsRunInv, CompleteHookKeepsRunInv DEF Evaluate
    <2>2. ASSUME RunInv, UNCHANGED vars PROVE RunInv'
      BY <2>2 DEF vars, RunInv, CanPass, Blocking, RequiredClause, Held
    <2> QED  BY <2>1, <2>2 DEF Next, Finished
  <1> QED  BY <1>1, <1>2, TypeCorrect, PTL DEF Spec

(* "`required: true` (or omitted): predicate failure fails the case", for   *)
(* any number of clauses, checks and hook expressions.                      *)
THEOREM RequiredClausesHold == Spec => []PassMeansRequiredHeld
  <1>1. TypeOK /\ RunInv => PassMeansRequiredHeld
    <2> SUFFICES ASSUME TypeOK, RunInv, verdict = "pass"
                 PROVE  PassMeansRequiredHeld
      BY DEF PassMeansRequiredHeld
    <2>1. /\ Len(case.clauses) \in Nat /\ DOMAIN case.clauses = 1 .. Len(case.clauses)
      BY ClauseFacts DEF TypeOK
    <2>2. \A i \in DOMAIN case.clauses : i < clause
      BY <2>1 DEF RunInv
    <2> QED  BY <2>2 DEF RunInv, CanPass, PassMeansRequiredHeld
  <1> QED  BY <1>1, RunInvariant, PTL

(* Once a failure blocks, only the fail hook is still evaluated.            *)
THEOREM NothingRunsAfterBlocking == Spec => BlockingFailureStops
  <1>1. TypeOK /\ RunInv /\ [Next]_vars => OnlyFailHookRuns
    <2> SUFFICES ASSUME TypeOK, RunInv, [Next]_vars,
                        \E k \in DOMAIN log : Blocking(log[k])
                 PROVE  /\ log' # log => log'[Len(log')].event = "fail"
                        /\ verdict' # "pass"
      BY DEF OnlyFailHookRuns
    <2>1. pc \in {"fail_hook", "done"} /\ verdict # "pass"
      <3>1. ~CanPass
        BY DEF RunInv
      <3>2. pc # "start"
        BY DEF RunInv
      <3> QED  BY <3>1, <3>2 DEF CanPass, TypeOK, ControlOK
    <2>2. CASE UNCHANGED vars
      BY <2>1, <2>2 DEF vars
    <2>3. CASE FailHook
      <3>1. case' = case
        BY <2>3 DEF FailHook
      <3>2. log' = log \/ \E r \in HookResults : log' = Logged("fail", r)
        BY <2>3 DEF FailHook
      <3>3. log' # log => log'[Len(log')].event = "fail"
        BY <3>1, <3>2, LogKeepsHeld DEF Events
      <3>4. verdict' = verdict \/ \E e \in Raised \ {"none"} : End(e)
        BY <2>3, RaisedClasses DEF FailHook, FailureAfterHook, RunInv, TypeOK, ControlOK
      <3> QED  BY <2>1, <3>3, <3>4 DEF End, Raised
    <2> QED  BY <2>1, <2>2, <2>3 DEF Next, Finished, Evaluate, Start, EvalCheck, ClausePasses,
                                     PassHook, CompleteHook
  <1> QED  BY <1>1, RunInvariant, PTL DEF Spec, BlockingFailureStops


-----------------------------------------------------------------------------
(* FailuresAreTold: what hooks and the caller are told.                     *)

(* The counters, as a count of sets of clauses of the case.                *)
PassedIn(cs, l) == {i \in DOMAIN cs : \A c \in 1 .. cs[i].checks : CheckHeld(l, i, c)}
FailedEntry(e) == Failed(e) /\ e.event \notin {"fail", "complete"}
FailedIn(cs, l) == {i \in DOMAIN cs : \E k \in DOMAIN l : FailedEntry(l[k]) /\ l[k].clause = i}
Tally(cs, ps, fs) == [passed |-> Cardinality(ps), failed |-> Cardinality(fs),
                      requiredPassed |-> Cardinality({i \in ps : cs[i].required}),
                      optionalPassed |-> Cardinality({i \in ps : ~cs[i].required})]
TallyOf(cs, l) == Tally(cs, PassedIn(cs, l), FailedIn(cs, l))
HooksTold(cs, l) ==
    \A k \in DOMAIN l : l[k].event # "check" => l[k].totals = TallyOf(cs, SubSeq(l, 1, k - 1))

(* While the loop is at the checks of a clause all it logged of it are     *)
(* checks that held, and the clause is not counted yet.                    *)
CountInv ==
    /\ \A k \in DOMAIN log : log[k].clause <= clause
    /\ pc = "check" => at >= 1 /\ \A k \in DOMAIN log : log[k].clause = clause =>
            log[k].event = "check" /\ log[k].at < at /\ ~Failed(log[k])
    /\ pc = "pass_hook" => \A k \in DOMAIN log : log[k].clause = clause => ~FailedEntry(log[k])
    /\ totals = Tally(case.clauses, IF pc = "check" THEN PassedIn(case.clauses, log) \ {clause}
                                                    ELSE PassedIn(case.clauses, log),
                      FailedIn(case.clauses, log))
    /\ HooksTold(case.clauses, log)

(* The entry that blocks is the only one, or is the fail hook's own and    *)
(* that of the failure it handled the other one.                           *)
BlockingIn(cs, e) == Failed(e) /\ (e.event \in {"fail", "complete"} \/ (e.clause \in DOMAIN cs /\ cs[e.clause].required))
Answers(cs, l, k, v) ==
    /\ k \in DOMAIN l /\ BlockingIn(cs, l[k]) /\ v = RaisedBy(l[k])
    /\ \A j \in DOMAIN l : BlockingIn(cs, l[j]) => j = k \/ (l[k].event = "fail" /\ l[j].event # "fail")
ReportInv ==
    /\ pc = "fail_hook" => \E k \in DOMAIN log : Answers(case.clauses, log, k, raised) /\ log[k].event # "fail"
    /\ pc = "done" /\ verdict # "pass" /\ log # << >> =>
            \E k \in DOMAIN log : Answers(case.clauses, log, k, verdict)

(* What one more entry does to a log.                                      *)
Grew(l, m, e) ==
    /\ DOMAIN m = DOMAIN l \cup {Len(l) + 1}
    /\ \A k \in DOMAIN l : m[k] = l[k]
    /\ m[Len(l) + 1] = e
    /\ \A k \in DOMAIN l : SubSeq(m, 1, k - 1) = SubSeq(l, 1, k - 1)
    /\ SubSeq(m, 1, Len(l) + 1 - 1) = l

LEMMA Appended ==
    ASSUME NEW l \in Seq(Entry), NEW e \in Entry
    PROVE  Grew(l, Append(l, e), e)
  <1>1. Len(l) \in Nat /\ DOMAIN l = 1 .. Len(l)
    OBVIOUS
  <1>2. \A k \in 1 .. Len(l) + 1 : SubSeq(Append(l, e), 1, k - 1) = SubSeq(l, 1, k - 1)
    OBVIOUS
  <1>3. SubSeq(l, 1, Len(l)) = l
    OBVIOUS
  <1>4. SubSeq(Append(l, e), 1, Len(l) + 1 - 1) = l
    <2>1. Len(l) + 1 \in 1 .. Len(l) + 1 /\ Len(l) + 1 - 1 = Len(l)
      BY <1>1
    <2> QED  BY <1>2, <1>3, <2>1
  <1> QED  BY <1>1, <1>2, <1>4, LogGrows DEF Grew

LEMMA EntryLogged ==
    ASSUME TypeOK, NEW event \in Events \cup {"check"}, NEW r \in CheckResults \cup HookResults,
           log' = Logged(event, r)
    PROVE  \E e \in Entry : /\ Grew(log, log', e) /\ e.event = event /\ e.clause = clause /\ e.at = at
                            /\ e.result = r /\ e.totals = totals
  <1> DEFINE e == [event |-> event, clause |-> clause, at |-> at, result |-> r, totals |-> totals]
  <1>1. e \in Entry
    BY ClauseFacts DEF TypeOK, ControlOK, Entry
  <1>2. Grew(log, log', e)
    BY <1>1, Appended DEF TypeOK, Logged
  <1> QED  BY <1>1, <1>2

LEMMA CheckHeldIn ==
    ASSUME NEW l, NEW m, NEW e, Grew(l, m, e), NEW i, NEW c
    PROVE  CheckHeld(m, i, c) <=> \/ CheckHeld(l, i, c)
                                  \/ e.event = "check" /\ e.clause = i /\ e.at = c /\ ~Failed(e)
  BY DEF Grew, CheckHeld

LEMMA SetsGrow ==
    ASSUME NEW cs, NEW l, NEW m, NEW e, Grew(l, m, e)
    PROVE  /\ FailedEntry(e) /\ e.clause \in DOMAIN cs => FailedIn(cs, m) = FailedIn(cs, l) \cup {e.clause}
           /\ ~FailedEntry(e) => FailedIn(cs, m) = FailedIn(cs, l)
           /\ e.event # "check" \/ Failed(e) => PassedIn(cs, m) = PassedIn(cs, l)
  <1>1. \A i : (\E k \in DOMAIN m : FailedEntry(m[k]) /\ m[k].clause = i)
                <=> (\E k \in DOMAIN l : FailedEntry(l[k]) /\ l[k].clause = i) \/ (FailedEntry(e) /\ e.clause = i)
    BY DEF Grew
  <1>2. FailedEntry(e) /\ e.clause \in DOMAIN cs => FailedIn(cs, m) = FailedIn(cs, l) \cup {e.clause}
    BY <1>1 DEF FailedIn
  <1>3. ~FailedEntry(e) => FailedIn(cs, m) = FailedIn(cs, l)
    BY <1>1 DEF FailedIn
  <1>4. ASSUME e.event # "check" \/ Failed(e) PROVE PassedIn(cs, m) = PassedIn(cs, l)
    <2>1. \A i, c : CheckHeld(m, i, c) <=> CheckHeld(l, i, c)
      BY <1>4, CheckHeldIn
    <2> QED  BY <2>1 DEF PassedIn
  <1> QED  BY <1>2, <1>3, <1>4

LEMMA OthersKeep ==
    ASSUME NEW cs, NEW l, NEW m, NEW e, Grew(l, m, e)
    PROVE  PassedIn(cs, m) \ {e.clause} = PassedIn(cs, l) \ {e.clause}
  <1>1. \A i, c : i # e.clause => (CheckHeld(m, i, c) <=> CheckHeld(l, i, c))
    BY CheckHeldIn
  <1> QED  BY <1>1 DEF PassedIn

LEMMA CountedOnce ==
    ASSUME NEW t \in Totals, NEW u \in Totals, u.failed = t.failed, u.passed = t.passed + 1
    PROVE  /\ u.requiredPassed = t.requiredPassed + 1 /\ u.optionalPassed = t.optionalPassed =>
                u = [t EXCEPT !.passed = @ + 1, !.requiredPassed = @ + 1]
           /\ u.requiredPassed = t.requiredPassed /\ u.optionalPassed = t.optionalPassed + 1 =>
                u = [t EXCEPT !.passed = @ + 1, !.optionalPassed = @ + 1]
  <1>1. u.requiredPassed = t.requiredPassed + 1 /\ u.optionalPassed = t.optionalPassed =>
                u = [t EXCEPT !.passed = @ + 1, !.requiredPassed = @ + 1]
    BY DEF Totals
  <1>2. u.requiredPassed = t.requiredPassed /\ u.optionalPassed = t.optionalPassed + 1 =>
                u = [t EXCEPT !.passed = @ + 1, !.optionalPassed = @ + 1]
    BY DEF Totals
  <1> QED  BY <1>1, <1>2

(* Counting one clause more. *)
LEMMA OneMoreFailed ==
    ASSUME NEW n \in Nat, NEW cs, DOMAIN cs = 1 .. n, NEW ps, NEW fs \in SUBSET DOMAIN cs,
           NEW x \in DOMAIN cs, x \notin fs
    PROVE  Tally(cs, ps, fs \cup {x}) = [Tally(cs, ps, fs) EXCEPT !.failed = @ + 1]
  <1>1. IsFiniteSet(fs)
    BY FS_Interval, FS_Subset
  <1>2. Cardinality(fs \cup {x}) = Cardinality(fs) + 1
    BY <1>1, FS_AddElement
  <1>3. \E a, b, c : \A T : Tally(cs, ps, T) = [passed |-> a, failed |-> Cardinality(T),
                                               requiredPassed |-> b, optionalPassed |-> c]
    BY DEF Tally
  <1> QED  BY <1>2, <1>3

OneMoreRequired(t) == [t EXCEPT !.passed = @ + 1, !.requiredPassed = @ + 1]
OneMoreOptional(t) == [t EXCEPT !.passed = @ + 1, !.optionalPassed = @ + 1]

LEMMA OneMorePassed ==
    ASSUME NEW n \in Nat, NEW cs, DOMAIN cs = 1 .. n, NEW ps \in SUBSET DOMAIN cs, NEW fs \in SUBSET DOMAIN cs,
           NEW x \in DOMAIN cs, x \notin ps
    PROVE  Tally(cs, ps \cup {x}, fs) = IF cs[x].required THEN OneMoreRequired(Tally(cs, ps, fs))
                                                          ELSE OneMoreOptional(Tally(cs, ps, fs))
  <1> DEFINE req(S) == {i \in S : cs[i].required}
             opt(S) == {i \in S : ~cs[i].required}
  <1>1. IsFiniteSet(DOMAIN cs)
    BY FS_Interval
  <1>2. IsFiniteSet(ps) /\ IsFiniteSet(fs) /\ IsFiniteSet(req(ps)) /\ IsFiniteSet(opt(ps))
    <2>1. req(ps) \in SUBSET DOMAIN cs /\ opt(ps) \in SUBSET DOMAIN cs
      OBVIOUS
    <2> HIDE DEF req, opt
    <2> QED  BY <1>1, <2>1, FS_Subset
  <1>3. /\ x \notin ps => Cardinality(ps \cup {x}) = Cardinality(ps) + 1
        /\ x \notin req(ps) => Cardinality(req(ps) \cup {x}) = Cardinality(req(ps)) + 1
        /\ x \notin opt(ps) => Cardinality(opt(ps) \cup {x}) = Cardinality(opt(ps)) + 1
    <2> HIDE DEF req, opt
    <2> QED  BY <1>2, FS_AddElement
  <1>4. /\ cs[x].required => req(ps \cup {x}) = req(ps) \cup {x} /\ opt(ps \cup {x}) = opt(ps)
        /\ ~cs[x].required => req(ps \cup {x}) = req(ps) /\ opt(ps \cup {x}) = opt(ps) \cup {x}
        /\ x \notin ps => x \notin req(ps) /\ x \notin opt(ps)
    OBVIOUS
  <1>5. \A S, T : Tally(cs, S, T) = [passed |-> Cardinality(S), failed |-> Cardinality(T),
                                     requiredPassed |-> Cardinality(req(S)), optionalPassed |-> Cardinality(opt(S))]
    BY DEF Tally
  <1> HIDE DEF req, opt
  <1>6. /\ Cardinality(ps) \in Nat /\ Cardinality(fs) \in Nat
        /\ Cardinality(req(ps)) \in Nat /\ Cardinality(opt(ps)) \in Nat
    BY <1>2, FS_CardinalityType
  <1>7. ASSUME cs[x].required
        PROVE  Tally(cs, ps \cup {x}, fs) = OneMoreRequired(Tally(cs, ps, fs))
    <2>1. Cardinality(ps \cup {x}) = Cardinality(ps) + 1
      BY <1>3, <1>7
    <2>2. Cardinality(req(ps \cup {x})) = Cardinality(req(ps)) + 1 /\ Cardinality(opt(ps \cup {x})) = Cardinality(opt(ps))
      BY <1>3, <1>4, <1>7
    <2> DEFINE t == Tally(cs, ps, fs)
               u == Tally(cs, ps \cup {x}, fs)
    <2>3. /\ u.failed = t.failed /\ u.passed = t.passed + 1
          /\ u.requiredPassed = t.requiredPassed + 1 /\ u.optionalPassed = t.optionalPassed
      BY <1>5, <2>1, <2>2
    <2>4. t \in Totals /\ u \in Totals
      BY <1>5, <1>6, <2>1, <2>2 DEF Totals
    <2> HIDE DEF t, u
    <2>5. u = [t EXCEPT !.passed = @ + 1, !.requiredPassed = @ + 1]
      BY <2>3, <2>4, CountedOnce
    <2> QED  BY <2>5 DEF t, u, OneMoreRequired, OneMoreOptional
  <1>8. ASSUME ~cs[x].required
        PROVE  Tally(cs, ps \cup {x}, fs) = OneMoreOptional(Tally(cs, ps, fs))
    <2>1. Cardinality(ps \cup {x}) = Cardinality(ps) + 1
      BY <1>3, <1>8
    <2>2. Cardinality(opt(ps \cup {x})) = Cardinality(opt(ps)) + 1 /\ Cardinality(req(ps \cup {x})) = Cardinality(req(ps))
      BY <1>3, <1>4, <1>8
    <2> DEFINE t == Tally(cs, ps, fs)
               u == Tally(cs, ps \cup {x}, fs)
    <2>3. /\ u.failed = t.failed /\ u.passed = t.passed + 1
          /\ u.requiredPassed = t.requiredPassed /\ u.optionalPassed = t.optionalPassed + 1
      BY <1>5, <2>1, <2>2
    <2>4. t \in Totals /\ u \in Totals
      BY <1>5, <1>6, <2>1, <2>2 DEF Totals
    <2> HIDE DEF t, u
    <2>5. u = [t EXCEPT !.passed = @ + 1, !.optionalPassed = @ + 1]
      BY <2>3, <2>4, CountedOnce
    <2> QED  BY <2>5 DEF t, u, OneMoreRequired, OneMoreOptional
  <1> QED  BY <1>7, <1>8


LEMMA MoreFacts ==
    ASSUME TypeOK
    PROVE  /\ Len(case.clauses) \in Nat /\ DOMAIN case.clauses = 1 .. Len(case.clauses) /\ clause \in Nat
           /\ \A i \in DOMAIN case.clauses : case.clauses[i].checks \in Nat \ {0} /\ case.clauses[i].required \in BOOLEAN
           /\ \A k \in DOMAIN log : log[k] \in Entry /\ log[k].clause \in Nat /\ log[k].at \in Nat
           /\ at \in Nat
  <1>1. case.clauses \in Seq([required : BOOLEAN, checks : Nat \ {0}])
    BY CasesAssumption DEF TypeOK, ControlOK, Case
  <1>2. \A i \in DOMAIN case.clauses : case.clauses[i] \in [required : BOOLEAN, checks : Nat \ {0}]
    BY <1>1, SeqElements
  <1>3. \A k \in DOMAIN log : log[k] \in Entry
    BY SeqElements DEF TypeOK
  <1>4. \A k \in DOMAIN log : log[k].clause \in Nat /\ log[k].at \in Nat
    BY <1>3 DEF Entry
  <1> QED  BY <1>2, <1>3, <1>4, ClauseFacts DEF TypeOK, ControlOK

(* A clause of which nothing is logged did not pass. *)
LEMMA NothingOfIt ==
    ASSUME NEW cs, NEW l, NEW x \in DOMAIN cs, cs[x].checks \in Nat \ {0},
           \A k \in DOMAIN l : l[k].clause # x
    PROVE  x \notin PassedIn(cs, l)
  <1>1. 1 \in 1 .. cs[x].checks
    OBVIOUS
  <1>2. ~CheckHeld(l, x, 1)
    BY DEF CheckHeld
  <1> QED  BY <1>1, <1>2 DEF PassedIn

LEMMA HooksStayTold ==
    ASSUME NEW cs, NEW l, NEW m, NEW e, Grew(l, m, e), HooksTold(cs, l),
           e.event = "check" \/ e.totals = TallyOf(cs, l)
    PROVE  HooksTold(cs, m)
  <1> SUFFICES ASSUME NEW k \in DOMAIN m, m[k].event # "check"
               PROVE  m[k].totals = TallyOf(cs, SubSeq(m, 1, k - 1))
    BY DEF HooksTold
  <1>1. CASE k \in DOMAIN l
    <2>1. m[k] = l[k] /\ SubSeq(m, 1, k - 1) = SubSeq(l, 1, k - 1)
      BY <1>1 DEF Grew
    <2> QED  BY <1>1, <2>1 DEF HooksTold
  <1>2. CASE k = Len(l) + 1
    <2>1. m[k] = e /\ SubSeq(m, 1, k - 1) = l
      BY <1>2 DEF Grew
    <2> QED  BY <2>1
  <1> QED  BY <1>1, <1>2 DEF Grew

LEMMA CountStarts == Init => CountInv
  <1> SUFFICES ASSUME Init PROVE CountInv
    OBVIOUS
  <1>1. /\ pc = "start" /\ clause = 0 /\ log = << >> /\ totals = NoTotals /\ DOMAIN log = {}
    BY DEF Init
  <1>2. TypeOK
    BY CasesAssumption DEF Init, TypeOK, ControlOK, Case, NoTotals, Totals, Raised
  <1>3. PassedIn(case.clauses, log) = {} /\ FailedIn(case.clauses, log) = {}
    <2>1. \A x \in DOMAIN case.clauses : x \notin PassedIn(case.clauses, log)
      BY <1>1, <1>2, MoreFacts, NothingOfIt
    <2> QED  BY <1>1, <2>1 DEF PassedIn, FailedIn
  <1>4. Tally(case.clauses, {}, {}) = NoTotals
    BY FS_EmptySet DEF Tally, NoTotals
  <1> QED  BY <1>1, <1>3, <1>4 DEF CountInv, HooksTold

LEMMA NextClauseCounts ==
    ASSUME TypeOK, NextClause, UNCHANGED case, pc \in {"check", "pass_hook"},
           \A k \in DOMAIN log' : log'[k].clause \in Nat /\ log'[k].clause <= clause,
           totals' = TallyOf(case.clauses, log'), HooksTold(case.clauses, log')
    PROVE  CountInv'
  <1> DEFINE cs == case.clauses
  <1>1. /\ clause' = clause + 1 /\ at' = 1 /\ clause \in 1 .. Len(cs) /\ Len(cs) \in Nat /\ DOMAIN cs = 1 .. Len(cs)
        /\ \/ pc' = "check" /\ clause # Len(cs)
           \/ pc' = "complete_hook"
    BY MoreFacts DEF NextClause, TypeOK, ControlOK
  <1>2. \A k \in DOMAIN log' : log'[k].clause <= clause' /\ log'[k].clause # clause'
    BY <1>1
  <1>3. pc' = "check" => PassedIn(cs, log') \ {clause'} = PassedIn(cs, log')
    <2> SUFFICES ASSUME pc' = "check" PROVE clause' \notin PassedIn(cs, log')
      OBVIOUS
    <2>1. clause' \in DOMAIN cs
      BY <1>1
    <2>2. cs[clause'].checks \in Nat \ {0}
      BY <2>1, MoreFacts
    <2> HIDE DEF cs
    <2> QED  BY <1>2, <2>1, <2>2, NothingOfIt
  <1>4. totals' = Tally(cs, IF pc' = "check" THEN PassedIn(cs, log') \ {clause'} ELSE PassedIn(cs, log'),
                         FailedIn(cs, log'))
    BY <1>3 DEF TallyOf
  <1>5. at' >= 1 /\ pc' # "pass_hook"
    BY <1>1
  <1> QED  BY <1>2, <1>4, <1>5 DEF CountInv

LEMMA ClauseRaisesCounts ==
    ASSUME TypeOK, CountInv, UNCHANGED case,
           NEW event, \/ pc = "check" /\ event = "check" /\ at <= case.clauses[clause].checks
                      \/ pc = "pass_hook" /\ event = PassEvent,
           NEW r \in CheckResults \cup HookResults, r # "holds", log' = Logged(event, r),
           NEW x, ClauseRaises(x)
    PROVE  CountInv'
  <1> DEFINE cs == case.clauses
  <1>1. event \in Events \cup {"check"} /\ event \notin {"fail", "complete"} /\ (event = "check" <=> pc = "check")
    BY DEF PassEvent, Events
  <1>2. PICK e \in Entry : /\ Grew(log, log', e) /\ e.event = event /\ e.clause = clause /\ e.at = at
                           /\ e.result = r /\ e.totals = totals
    BY <1>1, EntryLogged
  <1>3. FailedEntry(e) /\ Failed(e)
    BY <1>1, <1>2 DEF FailedEntry, Failed
  <1>4. /\ Len(cs) \in Nat /\ DOMAIN cs = 1 .. Len(cs) /\ clause \in DOMAIN cs /\ clause \in Nat /\ at \in Nat
        /\ cs[clause].checks \in Nat /\ pc \in {"check", "pass_hook"}
        /\ \A k \in DOMAIN log : log[k].clause \in Nat /\ log[k].at \in Nat
    BY MoreFacts DEF TypeOK, ControlOK
  <1>5. clause \notin FailedIn(cs, log)
    BY <1>4 DEF CountInv, FailedIn, FailedEntry
  <1>6. pc = "check" => clause \notin PassedIn(cs, log)
    <2> SUFFICES ASSUME pc = "check" PROVE clause \notin PassedIn(cs, log)
      OBVIOUS
    <2>1. at >= 1 /\ at <= cs[clause].checks
      BY <1>1 DEF CountInv
    <2>2. ~CheckHeld(log, clause, at)
      BY <1>4 DEF CountInv, CheckHeld
    <2> QED  BY <1>4, <2>1, <2>2 DEF PassedIn
  <1>7. totals = TallyOf(cs, log)
    BY <1>4, <1>6 DEF CountInv, TallyOf
  <1>8. /\ PassedIn(cs, log') = PassedIn(cs, log) /\ FailedIn(cs, log') = FailedIn(cs, log) \cup {clause}
    BY <1>2, <1>3, <1>4, SetsGrow
  <1>9. totals' = TallyOf(cs, log')
    <2>1. PassedIn(cs, log) \in SUBSET DOMAIN cs /\ FailedIn(cs, log) \in SUBSET DOMAIN cs
      BY DEF PassedIn, FailedIn
    <2>2. totals' = [totals EXCEPT !.failed = @ + 1]
      BY DEF ClauseRaises, CountFailed
    <2> HIDE DEF cs
    <2> DEFINE ps == PassedIn(cs, log)
               fs == FailedIn(cs, log)
    <2>3. totals = Tally(cs, ps, fs) /\ TallyOf(cs, log') = Tally(cs, ps, fs \cup {clause})
      BY <1>7, <1>8 DEF TallyOf
    <2>4. ps \in SUBSET DOMAIN cs /\ fs \in SUBSET DOMAIN cs /\ clause \notin fs
      BY <1>5, <2>1
    <2> HIDE DEF ps, fs
    <2>5. Tally(cs, ps, fs \cup {clause}) = [Tally(cs, ps, fs) EXCEPT !.failed = @ + 1]
      BY <1>4, <2>4, OneMoreFailed
    <2> QED  BY <2>2, <2>3, <2>5
  <1>10. HooksTold(cs, log')
    BY <1>2, <1>7, HooksStayTold DEF CountInv
  <1>11. \A k \in DOMAIN log' : log'[k].clause \in Nat /\ log'[k].clause <= clause
    BY <1>2, <1>4 DEF Grew, CountInv
  <1>12. CASE Blocks(x)
    BY <1>9, <1>10, <1>11, <1>12 DEF ClauseRaises, CountInv, TallyOf
  <1>13. CASE ~Blocks(x)
    BY <1>4, <1>9, <1>10, <1>11, <1>13, NextClauseCounts DEF ClauseRaises
  <1> QED  BY <1>12, <1>13


(* A hook's entry that leaves the clause and its counters alone. *)
LEMMA HookCounts ==
    ASSUME TypeOK, CountInv, UNCHANGED <<case, clause, totals>>, pc # "check", pc' # "check",
           NEW event \in Events, NEW r \in HookResults, log' = Logged(event, r),
           event \in {"fail", "complete"} \/ r = "holds",
           pc' = "pass_hook" => pc = "pass_hook"
    PROVE  CountInv'
  <1> DEFINE cs == case.clauses
  <1>1. PICK e \in Entry : /\ Grew(log, log', e) /\ e.event = event /\ e.clause = clause /\ e.result = r
                           /\ e.totals = totals
    BY EntryLogged
  <1>2. ~FailedEntry(e) /\ e.event # "check"
    BY <1>1 DEF FailedEntry, Failed, Events
  <1>3. PassedIn(cs, log') = PassedIn(cs, log) /\ FailedIn(cs, log') = FailedIn(cs, log)
    BY <1>1, <1>2, SetsGrow
  <1>4. totals = TallyOf(cs, log)
    BY DEF CountInv, TallyOf
  <1>5. HooksTold(cs, log')
    BY <1>1, <1>4, HooksStayTold DEF CountInv
  <1>6. totals' = Tally(cs, PassedIn(cs, log'), FailedIn(cs, log'))
    BY <1>3, <1>4 DEF TallyOf
  <1>7. \A k \in DOMAIN log' : log'[k].clause <= clause'
    BY <1>1, MoreFacts DEF Grew, CountInv
  <1>8. pc' = "pass_hook" => \A k \in DOMAIN log' : log'[k].clause = clause' => ~FailedEntry(log'[k])
    BY <1>1, <1>2 DEF Grew, CountInv
  <1> QED  BY <1>5, <1>6, <1>7, <1>8 DEF CountInv

LEMMA StartCounts ==
    ASSUME TypeOK, RunInv, CountInv, Start
    PROVE  CountInv'
  <1> DEFINE cs == case.clauses
  <1>1. /\ pc = "start" /\ log = << >> /\ UNCHANGED <<case, totals, log>> /\ pc' # "pass_hook" /\ DOMAIN log = {}
        /\ pc' = "check" => clause' = 1 /\ at' = 1
    BY DEF Start, End, RunInv
  <1>2. PassedIn(cs, log) = {}
    <2>1. \A x \in DOMAIN cs : x \notin PassedIn(cs, log)
      BY <1>1, MoreFacts, NothingOfIt
    <2> QED  BY <2>1 DEF PassedIn
  <1>3. totals' = Tally(cs, IF pc' = "check" THEN PassedIn(cs, log') \ {clause'} ELSE PassedIn(cs, log'),
                        FailedIn(cs, log'))
    BY <1>1, <1>2 DEF CountInv
  <1>4. HooksTold(cs, log') /\ (pc' = "check" => at' >= 1)
    BY <1>1 DEF HooksTold
  <1> QED  BY <1>1, <1>3, <1>4 DEF CountInv

LEMMA EvalCheckCounts ==
    ASSUME TypeOK, CountInv, EvalCheck
    PROVE  CountInv'
  <1> DEFINE cs == case.clauses
  <1>1. PICK r \in CheckResults :
          /\ log' = Logged("check", r)
          /\ IF r = "holds" THEN /\ at' = at + 1
                                 /\ UNCHANGED <<pc, clause, raised, totals>>
                            ELSE ClauseRaises(RaisedByCheck(r))
    BY DEF EvalCheck
  <1>2. UNCHANGED <<case, verdict>> /\ pc = "check" /\ at <= cs[clause].checks
    BY DEF EvalCheck
  <1>3. CASE r = "holds"
    <2>1. PICK e \in Entry : /\ Grew(log, log', e) /\ e.event = "check" /\ e.clause = clause /\ e.at = at
                             /\ e.result = r
      BY <1>1, EntryLogged
    <2>2. ~FailedEntry(e) /\ ~Failed(e)
      BY <1>3, <2>1 DEF FailedEntry, Failed
    <2>3. PassedIn(cs, log') \ {clause} = PassedIn(cs, log) \ {clause} /\ FailedIn(cs, log') = FailedIn(cs, log)
      <3>1. PassedIn(cs, log') \ {e.clause} = PassedIn(cs, log) \ {e.clause}
        <4> HIDE DEF cs
        <4> QED  BY <2>1, OthersKeep
      <3>2. FailedIn(cs, log') = FailedIn(cs, log)
        BY <2>1, <2>2, SetsGrow
      <3> QED  BY <2>1, <3>1, <3>2
    <2>4. HooksTold(cs, log')
      BY <2>1, HooksStayTold DEF CountInv
    <2>5. totals' = Tally(cs, PassedIn(cs, log') \ {clause'}, FailedIn(cs, log'))
      BY <1>1, <1>2, <1>3, <2>3 DEF CountInv
    <2>6. at \in Nat /\ clause \in Nat /\ \A k \in DOMAIN log : log[k].at \in Nat
      BY MoreFacts
    <2>7. at' = at + 1 /\ at' >= 1 /\ clause' = clause /\ pc' = "check"
      BY <1>1, <1>2, <1>3, <2>6
    <2>8. \A k \in DOMAIN log' : /\ log'[k].clause <= clause
                                 /\ log'[k].clause = clause =>
                                        log'[k].event = "check" /\ log'[k].at < at + 1 /\ ~Failed(log'[k])
      <3> TAKE k \in DOMAIN log'
      <3>1. CASE k \in DOMAIN log
        BY <1>2, <2>1, <2>6, <3>1 DEF Grew, CountInv
      <3>2. CASE k = Len(log) + 1
        BY <2>1, <2>2, <2>6, <3>2 DEF Grew
      <3> QED  BY <2>1, <3>1, <3>2 DEF Grew
    <2> QED  BY <1>2, <2>4, <2>5, <2>7, <2>8 DEF CountInv
  <1>4. CASE r # "holds"
    BY <1>1, <1>2, <1>4, ClauseRaisesCounts
  <1> QED  BY <1>3, <1>4

LEMMA ClausePassesCounts ==
    ASSUME TypeOK, RunInv, CountInv, ClausePasses
    PROVE  CountInv'
  <1> DEFINE cs == case.clauses
             ps == PassedIn(cs, log)
             fs == FailedIn(cs, log)
  <1>1. /\ pc = "check" /\ pc' = "pass_hook" /\ UNCHANGED <<case, clause, log>> /\ totals' = CountedPassed
        /\ at > cs[clause].checks
    BY DEF ClausePasses
  <1>2. /\ Len(cs) \in Nat /\ DOMAIN cs = 1 .. Len(cs) /\ clause \in DOMAIN cs /\ at \in Nat
        /\ cs[clause].checks \in Nat
    BY <1>1, MoreFacts DEF TypeOK, ControlOK
  <1>3. clause \in ps
    <2>1. \A c \in 1 .. cs[clause].checks : c \in 1 .. at - 1
      BY <1>1, <1>2
    <2>2. \A c \in 1 .. at - 1 : CheckHeld(log, clause, c)
      BY <1>1 DEF RunInv
    <2> QED  BY <1>2, <2>1, <2>2 DEF PassedIn
  <1>4. ps \ {clause} \in SUBSET DOMAIN cs /\ fs \in SUBSET DOMAIN cs /\ (ps \ {clause}) \cup {clause} = ps
    BY <1>3 DEF PassedIn, FailedIn
  <1>5. totals = Tally(cs, ps \ {clause}, fs)
    BY <1>1 DEF CountInv
  <1>6. totals' = IF cs[clause].required THEN [totals EXCEPT !.passed = @ + 1, !.requiredPassed = @ + 1]
                                         ELSE [totals EXCEPT !.passed = @ + 1, !.optionalPassed = @ + 1]
    BY <1>1 DEF CountedPassed, Required
  <1>7. totals' = Tally(cs, ps, fs)
    <2> HIDE DEF cs, ps, fs
    <2>1. Tally(cs, (ps \ {clause}) \cup {clause}, fs) =
            IF cs[clause].required
            THEN [Tally(cs, ps \ {clause}, fs) EXCEPT !.passed = @ + 1, !.requiredPassed = @ + 1]
            ELSE [Tally(cs, ps \ {clause}, fs) EXCEPT !.passed = @ + 1, !.optionalPassed = @ + 1]
      <3>1. ps \ {clause} \in SUBSET DOMAIN cs /\ fs \in SUBSET DOMAIN cs /\ clause \notin ps \ {clause}
        BY <1>4
      <3> DEFINE qs == ps \ {clause}
      <3> HIDE DEF qs
      <3>2. Tally(cs, qs \cup {clause}, fs) =
                IF cs[clause].required
                THEN [Tally(cs, qs, fs) EXCEPT !.passed = @ + 1, !.requiredPassed = @ + 1]
                ELSE [Tally(cs, qs, fs) EXCEPT !.passed = @ + 1, !.optionalPassed = @ + 1]
        <4>1. qs \in SUBSET DOMAIN cs /\ fs \in SUBSET DOMAIN cs /\ clause \notin qs
          BY <3>1 DEF qs
        <4> DEFINE t == Tally(cs, qs, fs)
                   u == Tally(cs, qs \cup {clause}, fs)
        <4>2. u = IF cs[clause].required THEN OneMoreRequired(t) ELSE OneMoreOptional(t)
          BY <1>2, <4>1, OneMorePassed
        <4> QED  BY <4>2 DEF OneMoreRequired, OneMoreOptional
      <3> QED  BY <3>2 DEF qs
    <2> QED  BY <1>4, <1>5, <1>6, <2>1
  <1>8. \A k \in DOMAIN log : log[k].clause = clause => ~FailedEntry(log[k])
    BY <1>1 DEF CountInv, FailedEntry
  <1> QED  BY <1>1, <1>7, <1>8 DEF CountInv

LEMMA PassHookCounts ==
    ASSUME TypeOK, CountInv, PassHook
    PROVE  CountInv'
  <1>0. UNCHANGED case /\ pc = "pass_hook" /\ PassEvent \in Events
    BY DEF PassHook, PassEvent, Events
  <1>1. CASE NextClause /\ UNCHANGED <<totals, log>>
    <2>1. totals' = TallyOf(case.clauses, log') /\ HooksTold(case.clauses, log')
      BY <1>0, <1>1 DEF CountInv, TallyOf
    <2>2. \A k \in DOMAIN log' : log'[k].clause \in Nat /\ log'[k].clause <= clause
      BY <1>1, MoreFacts DEF CountInv
    <2> QED  BY <1>0, <1>1, <2>1, <2>2, NextClauseCounts
  <1>2. CASE \E r \in HookResults : log' = Logged(PassEvent, r) /\ r = "holds" /\ UNCHANGED <<pc, clause, totals>>
    BY <1>0, <1>2, HookCounts
  <1>3. CASE \E r \in HookResults : log' = Logged(PassEvent, r) /\ r # "holds" /\ ClauseRaises(RaisedByHook(r))
    BY <1>0, <1>3, ClauseRaisesCounts
  <1> QED  BY <1>1, <1>2, <1>3 DEF PassHook

LEMMA LastHooksCount ==
    ASSUME TypeOK, CountInv, FailHook \/ CompleteHook
    PROVE  CountInv'
  <1>1. /\ UNCHANGED <<case, clause, totals>> /\ pc # "check" /\ pc' \notin {"check", "pass_hook"}
        /\ \/ UNCHANGED log
           \/ \E r \in HookResults : log' = Logged("fail", r) \/ log' = Logged("complete", r)
    BY DEF FailHook, CompleteHook, End
  <1>2. CASE UNCHANGED log
    BY <1>1, <1>2 DEF CountInv
  <1>3. CASE \E r \in HookResults : log' = Logged("fail", r) \/ log' = Logged("complete", r)
    BY <1>1, <1>3, HookCounts DEF Events
  <1> QED  BY <1>1, <1>2, <1>3

(* The counters are true at every step. *)
LEMMA CountInvariant == Spec => [](TypeOK /\ RunInv /\ CountInv)
  <1>1. TypeOK /\ RunInv /\ CountInv /\ [Next]_vars => CountInv'
    <2>1. ASSUME TypeOK, RunInv, CountInv, Evaluate PROVE CountInv'
      BY <2>1, StartCounts, EvalCheckCounts, ClausePassesCounts, PassHookCounts, LastHooksCount DEF Evaluate
    <2>2. ASSUME CountInv, UNCHANGED vars PROVE CountInv'
      BY <2>2 DEF vars, CountInv
    <2> QED  BY <2>1, <2>2 DEF Next, Finished
  <1> QED  BY <1>1, CountStarts, RunInvariant, PTL DEF Spec


LEMMA TotalsAreTold ==
    ASSUME TypeOK, CountInv
    PROVE  TotalsAreTrue
  <1>1. \A l : Counts(l) = TallyOf(case.clauses, l)
    <2> TAKE l
    <2>1. {i \in DOMAIN case.clauses : Held(l, i)} = PassedIn(case.clauses, l)
      BY DEF Held, PassedIn
    <2>2. {i \in DOMAIN case.clauses : \E k \in DOMAIN l : /\ Failed(l[k]) /\ l[k].clause = i
                                                          /\ l[k].event \notin {"fail", "complete"}}
            = FailedIn(case.clauses, l)
      BY DEF FailedIn, FailedEntry
    <2> QED  BY <2>1, <2>2 DEF Counts, TallyOf, Tally
  <1>2. pc = "done" => totals = TallyOf(case.clauses, log)
    BY DEF CountInv, TallyOf
  <1> QED  BY <1>1, <1>2 DEF CountInv, HooksTold, TotalsAreTrue

(* An entry that does not block changes no answer; one that does is the    *)
(* answer, if it is the first or the fail hook's own.                      *)
LEMMA AnswerKept ==
    ASSUME NEW cs, NEW l, NEW m, NEW e, Grew(l, m, e), NEW k, NEW v, Answers(cs, l, k, v), ~BlockingIn(cs, e)
    PROVE  Answers(cs, m, k, v) /\ m[k] = l[k] /\ k \in DOMAIN m
  BY DEF Answers, Grew

LEMMA NewAnswer ==
    ASSUME NEW cs, NEW l, NEW m, NEW e, Grew(l, m, e), BlockingIn(cs, e),
           \A j \in DOMAIN l : BlockingIn(cs, l[j]) => e.event = "fail" /\ l[j].event # "fail"
    PROVE  \E k \in DOMAIN m : Answers(cs, m, k, RaisedBy(e)) /\ m[k] = e
  BY DEF Answers, Grew

LEMMA BlockingSame == \A e : Blocking(e) <=> BlockingIn(case.clauses, e)
  BY DEF Blocking, BlockingIn, RequiredClause

LEMMA ClauseRaisesReports ==
    ASSUME TypeOK, RunInv, UNCHANGED case,
           NEW event, NEW r \in CheckResults \cup HookResults, r # "holds", NEW x, ClauseRaises(x),
           \/ pc = "check" /\ event = "check" /\ x = RaisedByCheck(r)
           \/ pc = "pass_hook" /\ event = PassEvent /\ x = RaisedByHook(r),
           log' = Logged(event, r)
    PROVE  ReportInv'
  <1>1. event \in Events \cup {"check"} /\ event \notin {"fail", "complete"} /\ pc \in {"check", "pass_hook"}
    BY DEF PassEvent, Events
  <1>2. CASE ~Blocks(x)
    BY <1>2 DEF ClauseRaises, NextClause, ReportInv
  <1>3. CASE Blocks(x)
    <2>1. PICK e \in Entry : /\ Grew(log, log', e) /\ e.event = event /\ e.clause = clause /\ e.result = r
      BY <1>1, EntryLogged
    <2>2. clause \in DOMAIN case.clauses /\ case.clauses[clause].required
      BY <1>1, <1>3 DEF TypeOK, ControlOK, Blocks, Required
    <2>3. BlockingIn(case.clauses, e)
      BY <2>1, <2>2 DEF BlockingIn, Failed
    <2>4. RaisedBy(e) = x
      BY <2>1 DEF RaisedBy, PassEvent
    <2>5. \A j \in DOMAIN log : ~BlockingIn(case.clauses, log[j])
      BY <1>1, BlockingSame DEF RunInv, CanPass
    <2>6. \E k \in DOMAIN log' : Answers(case.clauses, log', k, x) /\ log'[k] = e
      BY <2>1, <2>3, <2>4, <2>5, NewAnswer
    <2>7. pc' = "fail_hook" /\ raised' = x /\ e.event # "fail"
      BY <1>1, <1>3, <2>1 DEF ClauseRaises
    <2> QED  BY <2>6, <2>7 DEF ReportInv
  <1> QED  BY <1>2, <1>3

LEMMA FailHookReports ==
    ASSUME TypeOK, RunInv, ReportInv, FailHook
    PROVE  ReportInv'
  <1> DEFINE cs == case.clauses
  <1>1. pc = "fail_hook" /\ UNCHANGED case /\ raised # "none" /\ raised \in Raised
    BY DEF FailHook, RunInv, TypeOK, ControlOK
  <1>2. PICK k \in DOMAIN log : Answers(cs, log, k, raised) /\ log[k].event # "fail"
    BY <1>1 DEF ReportInv
  <1>3. CASE End(FailureAfterHook(raised)) /\ UNCHANGED log
    BY <1>1, <1>2, <1>3 DEF End, FailureAfterHook, ReportInv
  <1>4. ASSUME NEW r \in HookResults, log' = Logged("fail", r),
               IF r = "holds" THEN UNCHANGED <<pc, raised, verdict>> ELSE End(RaisedByHook(r))
        PROVE  ReportInv'
    <2>1. PICK e \in Entry : Grew(log, log', e) /\ e.event = "fail" /\ e.result = r
      BY <1>4, EntryLogged DEF Events
    <2>2. CASE r = "holds"
      <3>1. ~BlockingIn(cs, e)
        BY <2>1, <2>2 DEF BlockingIn, Failed
      <3>2. Answers(cs, log', k, raised) /\ log'[k] = log[k] /\ k \in DOMAIN log'
        BY <1>2, <2>1, <3>1, AnswerKept
      <3> QED  BY <1>1, <1>2, <1>4, <2>2, <3>2 DEF ReportInv
    <2>3. CASE r # "holds"
      <3>1. BlockingIn(cs, e) /\ RaisedBy(e) = RaisedByHook(r)
        BY <2>1, <2>3 DEF BlockingIn, Failed, RaisedBy
      <3>2. \A j \in DOMAIN log : BlockingIn(cs, log[j]) => e.event = "fail" /\ log[j].event # "fail"
        BY <1>2, <2>1 DEF Answers
      <3>3. \E j \in DOMAIN log' : Answers(cs, log', j, RaisedByHook(r))
        BY <2>1, <3>1, <3>2, NewAnswer
      <3>4. pc' = "done" /\ verdict' = RaisedByHook(r)
        BY <1>4, <2>3, RaisedClasses DEF End
      <3> QED  BY <1>1, <3>3, <3>4 DEF ReportInv
    <2> QED  BY <2>2, <2>3
  <1> QED  BY <1>3, <1>4 DEF FailHook

LEMMA CompleteHookReports ==
    ASSUME TypeOK, RunInv, CompleteHook
    PROVE  ReportInv'
  <1> DEFINE cs == case.clauses
  <1>1. pc = "complete_hook" /\ UNCHANGED case
    BY DEF CompleteHook
  <1>2. \A j \in DOMAIN log : ~BlockingIn(cs, log[j])
    BY <1>1, BlockingSame DEF RunInv, CanPass
  <1>3. CASE End("none")
    BY <1>3 DEF End, ReportInv
  <1>4. CASE UNCHANGED pc
    BY <1>1, <1>4 DEF ReportInv
  <1>5. ASSUME NEW r \in HookResults, r # "holds", log' = Logged("complete", r), End(RaisedByHook(r))
        PROVE  ReportInv'
    <2>1. PICK e \in Entry : Grew(log, log', e) /\ e.event = "complete" /\ e.result = r
      BY <1>5, EntryLogged DEF Events
    <2>2. BlockingIn(cs, e) /\ RaisedBy(e) = RaisedByHook(r)
      BY <1>5, <2>1 DEF BlockingIn, Failed, RaisedBy
    <2>3. \E j \in DOMAIN log' : Answers(cs, log', j, RaisedByHook(r))
      BY <1>2, <2>1, <2>2, NewAnswer
    <2>4. pc' = "done" /\ verdict' = RaisedByHook(r)
      BY <1>5, RaisedClasses DEF End
    <2> QED  BY <1>1, <2>3, <2>4 DEF ReportInv
  <1> QED  BY <1>3, <1>4, <1>5 DEF CompleteHook

LEMMA OthersReport ==
    ASSUME TypeOK, RunInv, ReportInv, Start \/ EvalCheck \/ ClausePasses \/ PassHook
    PROVE  ReportInv'
  <1>1. CASE Start
    BY <1>1 DEF Start, End, RunInv, ReportInv
  <1>2. CASE EvalCheck
    <2>1. PICK r \in CheckResults :
            /\ log' = Logged("check", r)
            /\ IF r = "holds" THEN UNCHANGED pc ELSE ClauseRaises(RaisedByCheck(r))
      BY <1>2 DEF EvalCheck
    <2>2. UNCHANGED case /\ pc = "check"
      BY <1>2 DEF EvalCheck
    <2>3. CASE r = "holds"
      BY <2>1, <2>2, <2>3 DEF ReportInv
    <2>4. CASE r # "holds"
      BY <2>1, <2>2, <2>4, ClauseRaisesReports
    <2> QED  BY <2>3, <2>4
  <1>3. CASE ClausePasses
    BY <1>3 DEF ClausePasses, ReportInv
  <1>4. CASE PassHook
    <2>1. UNCHANGED case /\ pc = "pass_hook"
      BY <1>4 DEF PassHook
    <2>2. CASE NextClause \/ UNCHANGED pc
      BY <2>1, <2>2 DEF NextClause, ReportInv
    <2>3. CASE \E r \in HookResults : log' = Logged(PassEvent, r) /\ r # "holds" /\ ClauseRaises(RaisedByHook(r))
      BY <2>1, <2>3, ClauseRaisesReports
    <2> QED  BY <1>4, <2>2, <2>3 DEF PassHook
  <1> QED  BY <1>1, <1>2, <1>3, <1>4

LEMMA ReportInvariant == Spec => []ReportInv
  <1>1. Init => ReportInv
    BY DEF Init, ReportInv
  <1>2. TypeOK /\ RunInv /\ ReportInv /\ [Next]_vars => ReportInv'
    <2>1. ASSUME TypeOK, RunInv, ReportInv, Evaluate PROVE ReportInv'
      BY <2>1, OthersReport, FailHookReports, CompleteHookReports DEF Evaluate
    <2>2. ASSUME ReportInv, UNCHANGED vars PROVE ReportInv'
      BY <2>2 DEF vars, ReportInv
    <2> QED  BY <2>1, <2>2 DEF Next, Finished
  <1> QED  BY <1>1, <1>2, RunInvariant, PTL DEF Spec

LEMMA FirstIsReported ==
    ASSUME TypeOK, RunInv, ReportInv
    PROVE  FirstFailureReported
  <1> SUFFICES ASSUME verdict \notin {"running", "pass"}, log # << >> PROVE FirstFailureReported
    BY DEF FirstFailureReported
  <1> DEFINE blocking == {k \in DOMAIN log : Blocking(log[k])}
  <1>1. PICK k \in DOMAIN log : Answers(case.clauses, log, k, verdict)
    BY DEF RunInv, ReportInv
  <1>2. /\ k \in blocking /\ verdict = RaisedBy(log[k])
        /\ \A j \in blocking : j = k \/ (log[k].event = "fail" /\ log[j].event # "fail")
    BY <1>1, BlockingSame DEF Answers
  <1>3. \A j \in blocking : j \in Nat
    BY MoreFacts, SeqElements DEF TypeOK
  <1> DEFINE reported == IF \E j \in blocking : log[j].event = "fail"
                         THEN CHOOSE j \in blocking : log[j].event = "fail"
                         ELSE CHOOSE j \in blocking : \A i \in blocking : j <= i
  <1>4. reported = k
    <2> HIDE DEF blocking
    <2>1. CASE log[k].event = "fail"
      <3>1. \A j \in blocking : log[j].event = "fail" <=> j = k
        BY <1>2, <2>1
      <3> QED  BY <1>2, <3>1
    <2>2. CASE log[k].event # "fail"
      <3>1. blocking = {k} /\ ~\E j \in blocking : log[j].event = "fail"
        BY <1>2, <2>2
      <3>2. k <= k
        BY <1>2, <1>3
      <3> QED  BY <3>1, <3>2
    <2> QED  BY <2>1, <2>2
  <1> QED  BY <1>2, <1>4 DEF FirstFailureReported

(***************************************************************************)
(* For any clauses, checks and hooks and whatever they come to: every hook *)
(* is handed, and the run ends with, the true counters, and the caller     *)
(* sees the first failure that blocked, or that of the fail hook which     *)
(* handled it (evaluate_internal_assert_tree,                              *)
(* run_assertions_with_context).                                           *)
(***************************************************************************)
THEOREM FailuresAreReported == Spec => []FailuresAreTold
  <1>1. TypeOK /\ RunInv /\ CountInv /\ ReportInv => FailuresAreTold
    BY TotalsAreTold, FirstIsReported DEF FailuresAreTold
  <1> QED  BY <1>1, CountInvariant, ReportInvariant, PTL
=============================================================================
