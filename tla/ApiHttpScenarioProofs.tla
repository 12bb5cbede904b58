----------------------- MODULE ApiHttpScenarioProofs -----------------------
(***************************************************************************)
(* The lifecycle of a scenario, proved for scenarios of any length and any *)
(* number of probes.  The inductive invariant has two halves: where the    *)
(* runner is tells what of setup, teardown and server is behind it, and    *)
(* the logs of requests and results never differ by more than the request  *)
(* that is on its way.                                                     *)
(***************************************************************************)
EXTENDS ApiHttpScenario, TLAPS

Ending == {"stop", "grace", "end", "done"}

Lifecycle ==
    /\ scenario \in Scenarios /\ pc \in Pcs
    /\ ready \in BOOLEAN /\ tornDown \in BOOLEAN
    /\ pc \in {"steps", "response"} /\ scenario.setup # "none" => ready
    /\ tornDown => pc \in Ending
    /\ pc \in Ending /\ scenario.teardown \in {"good", "missing"} => tornDown
    /\ outcome # "running" <=> pc = "done"
    /\ pc \in {"end", "done"} /\ server = "running" => raised \in {"teardown", "interrupt"}

Logs ==
    /\ sent \in Seq(Nat) /\ results \in Seq(Nat)
    /\ Len(results) <= Len(sent) /\ Len(results) <= scenario.n
    /\ \A k \in 1 .. Len(sent) : sent[k] = k /\ scenario.refs[k] \subseteq 1 .. k - 1
    /\ \A k \in 1 .. Len(results) : results[k] = k
    /\ pc \in {"setup", "poll", "probe"} => sent = <<>>
    /\ pc = "steps" => Len(sent) = Len(results)
    /\ pc = "response" => Len(sent) = Len(results) + 1 /\ Len(results) < scenario.n
    /\ sent # <<>> /\ scenario.setup # "none" => ready
    /\ pc \in Ending \cup {"teardown"} /\ raised = "none" /\ scenario.failFast =>
         Len(results) = scenario.n
    /\ outcome = "returned" => raised = "none"

IInv == Lifecycle /\ Logs

LEMMA InitHolds == Init => IInv
<1> SUFFICES ASSUME Init PROVE IInv
  OBVIOUS
<1>1. Lifecycle
  BY DEF Init, Lifecycle, Ending, Pcs
<1>2. scenario.n \in Nat
  BY ScenarioAssumption DEF ScenarioAssumption, Init
<1>3. sent \in Seq(Nat) /\ results \in Seq(Nat) /\ Len(sent) = 0 /\ Len(results) = 0
  BY DEF Init
<1> QED
  BY <1>1, <1>2, <1>3 DEF Init, IInv, Logs, Ending

(* Setup and probes: no request is on its way yet. *)
LEMMA SetupKeeps ==
    ASSUME IInv, NoSetup \/ SetupCommand \/ StartServer \/ Poll \/ Probe PROVE IInv'
<1> USE DEF IInv, Leave, ToFinally, Caught, Ending, Pcs
<1>n. scenario.n \in Nat /\ Len(results) \in Nat /\ Len(sent) \in Nat
  BY ScenarioAssumption DEF ScenarioAssumption, Lifecycle, Logs
<1>0. ASSUME pc \in {"setup", "poll", "probe"}
      PROVE  Len(sent) = 0 /\ Len(results) = 0 /\ sent = <<>> /\ outcome = "running"
  BY <1>0, <1>n DEF Logs, Lifecycle
<1>1. CASE NoSetup
  BY <1>1 DEF NoSetup, Lifecycle, Logs
<1>2. CASE SetupCommand
  <2>1. Lifecycle'
    BY <1>2 DEF SetupCommand, Lifecycle
  <2>2. CASE ready'
    BY <1>2, <1>0, <1>n, <2>1, <2>2 DEF SetupCommand, Logs
  <2>3. CASE UNCHANGED ready /\ \E what \in {"setup", "interrupt"} : Leave(what)
    BY <1>2, <1>0, <1>n, <2>1, <2>3 DEF SetupCommand, Logs
  <2> QED
    BY <1>2, <2>2, <2>3 DEF SetupCommand
<1>3. CASE StartServer
  BY <1>3, ScenarioAssumption DEF StartServer, Lifecycle, Logs, ScenarioAssumption
<1>4. CASE Poll
  BY <1>4, ScenarioAssumption DEF Poll, GivesUp, Lifecycle, Logs, ScenarioAssumption
<1>5. CASE Probe
  <2>1. Lifecycle'
    BY <1>5 DEF Probe, Lifecycle
  <2>2. CASE ready'
    BY <1>5, <1>0, <1>n, <2>1, <2>2 DEF Probe, Logs
  <2>3. CASE UNCHANGED ready /\ (pc' = "poll" \/ Leave("interrupt"))
    BY <1>5, <1>0, <1>n, <2>1, <2>3 DEF Probe, Logs
  <2> QED
    BY <1>5, <2>2, <2>3 DEF Probe
<1> QED
  BY <1>1, <1>2, <1>3, <1>4, <1>5

(* The steps: a request is logged with its number, its result after it. *)
LEMMA StepsKeep ==
    ASSUME IInv, RenderFails \/ Send \/ Response \/ StepsDone PROVE IInv'
<1> USE DEF IInv, Leave, ToFinally, Caught, Ending, Pcs
<1>n. scenario.n \in Nat
  BY ScenarioAssumption DEF ScenarioAssumption, Lifecycle
<1>1. CASE RenderFails
  BY <1>1 DEF RenderFails, Lifecycle, Logs
<1>2. CASE Send
  <2> USE <1>2 DEF Send, NextStep, More
  <2>1. Lifecycle'
    BY DEF Lifecycle
  <2>2. scenario.refs[Len(results) + 1] \subseteq 1 .. Len(results)
    BY DEF Renderable, Recorded, Logs
  <2>3. /\ sent' \in Seq(Nat) /\ Len(sent') = Len(sent) + 1
        /\ \A k \in 1 .. Len(sent) : sent'[k] = sent[k]
        /\ sent'[Len(sent) + 1] = Len(sent) + 1
    BY DEF Logs
  <2>4. \A k \in 1 .. Len(sent') : sent'[k] = k /\ scenario.refs[k] \subseteq 1 .. k - 1
    BY <2>2, <2>3 DEF Logs
  <2> QED
    BY <2>1, <2>3, <2>4, <1>n DEF Logs, Lifecycle
<1>3. CASE Response
  <2> USE <1>3 DEF Response, NextStep
  <2>1. Lifecycle'
    BY DEF Lifecycle
  <2>2. CASE results' = Append(results, NextStep) /\ pc' = "steps" /\ UNCHANGED raised
    <3>1. /\ results' \in Seq(Nat) /\ Len(results') = Len(results) + 1
          /\ \A k \in 1 .. Len(results) : results'[k] = results[k]
          /\ results'[Len(results) + 1] = Len(results) + 1
      BY <2>2 DEF Logs
    <3>2. \A k \in 1 .. Len(results') : results'[k] = k
      <4>1. Len(results) \in Nat /\ \A k \in 1 .. Len(results) : results[k] = k
        BY DEF Logs
      <4> QED
        BY <3>1, <4>1
    <3> QED
      BY <2>1, <2>2, <3>1, <3>2, <1>n DEF Logs, Lifecycle
  <2>3. CASE \E what \in {"step", "interrupt"} : Leave(what) /\ UNCHANGED results
    BY <2>1, <2>3, <1>n DEF Logs, Lifecycle
  <2> QED
    BY <2>2, <2>3
<1>4. CASE StepsDone
  BY <1>4, <1>n DEF StepsDone, More, Lifecycle, Logs
<1> QED
  BY <1>1, <1>2, <1>3, <1>4

(* The finally block, up to the end of the scenario. *)
LEMMA EndingKeeps ==
    ASSUME IInv, Teardown \/ Stop \/ Terminated \/ Kill \/ End PROVE IInv'
<1> USE DEF IInv, Ending, Pcs
<1>1. CASE Teardown
  <2>1. /\ UNCHANGED <<scenario, server, left, ready, sent, results, outcome>>
        /\ pc = "teardown" /\ pc' \in {"stop", "end"}
        /\ scenario.teardown \in {"good", "missing"} => tornDown'
        /\ tornDown' \in BOOLEAN
        /\ pc' = "end" => raised' \in {"teardown", "interrupt"}
        /\ pc' = "stop" => raised' = raised
    BY <1>1, ScenarioAssumption
    DEF Teardown, AfterTeardown, ScenarioAssumption, Teardowns, Lifecycle
  <2> QED
    BY <2>1 DEF Lifecycle, Logs
<1>2. CASE Stop
  BY <1>2 DEF Stop, Lifecycle, Logs
<1>3. CASE Terminated
  BY <1>3 DEF Terminated, Lifecycle, Logs
<1>4. CASE Kill
  BY <1>4 DEF Kill, AfterKill, Lifecycle, Logs
<1>5. CASE End
  BY <1>5 DEF End, Lifecycle, Logs
<1> QED
  BY <1>1, <1>2, <1>3, <1>4, <1>5

LEMMA StepHolds == IInv /\ [Next]_vars => IInv'
<1> SUFFICES ASSUME IInv, [Next]_vars PROVE IInv'
  OBVIOUS
<1>1. CASE Runner
  BY <1>1, SetupKeeps, StepsKeep, EndingKeeps DEF Runner
<1>2. CASE ServerExits
  BY <1>2 DEF ServerExits, IInv, Lifecycle, Logs
<1>3. CASE UNCHANGED vars
  BY <1>3 DEF vars, IInv, Lifecycle, Logs
<1> QED
  BY <1>1, <1>2, <1>3 DEF Next, Finished

(* Both halves together: what the other theorems follow from. *)
THEOREM ScenarioInvariant == Spec => []IInv
<1> QED
  BY InitHolds, StepHolds, PTL DEF Spec

(* No request before the setup worked (lines 612-673), for any scenario. *)
THEOREM ReadyBeforeRequests == Spec => []RequestsOnlyWhenReady
<1>1. IInv => RequestsOnlyWhenReady
  BY DEF IInv, Logs, RequestsOnlyWhenReady
<1> QED
  BY <1>1, ScenarioInvariant, PTL

(* Results are an ordered prefix, rendered from what came before; with     *)
(* fail_fast a returned scenario is whole (lines 675-684).                 *)
THEOREM ReturnsAsOrdered == Spec => []ReturnedAsOrdered
<1>1. IInv => ReturnedAsOrdered
  <2> SUFFICES ASSUME IInv PROVE ReturnedAsOrdered
    OBVIOUS
  <2>1. /\ DOMAIN results = 1 .. Len(results)
        /\ Len(results) \in Nat /\ Len(sent) \in Nat /\ Len(results) <= Len(sent)
    BY DEF IInv, Logs
  <2>2. \A k \in 1 .. Len(sent) : sent[k] = k /\ scenario.refs[k] \subseteq 1 .. k - 1
    BY DEF IInv, Logs
  <2>3. ASSUME NEW k \in DOMAIN results
        PROVE  results[k] = k /\ sent[k] = k /\ scenario.refs[k] \subseteq 1 .. k - 1
    <3>1. k \in 1 .. Len(results) /\ k \in 1 .. Len(sent)
      BY <2>1
    <3>2. results[k] = k
      BY <3>1 DEF IInv, Logs
    <3> QED
      BY <3>1, <3>2, <2>2
  <2>4. ASSUME outcome = "returned", scenario.failFast
        PROVE  Len(results) = scenario.n
    <3>1. pc \in Ending /\ raised = "none"
      BY <2>4 DEF IInv, Lifecycle, Logs, Ending
    <3> QED
      BY <2>4, <3>1 DEF IInv, Logs
  <2> QED
    BY <2>3, <2>4 DEF ReturnedAsOrdered
<1> QED
  BY <1>1, ScenarioInvariant, PTL

(* A scenario that is over has attempted its teardown (lines 685-700). *)
THEOREM AttemptsTeardown == Spec => []TeardownAttempted
<1>1. IInv => TeardownAttempted
  BY DEF IInv, Lifecycle, TeardownAttempted, Over, Ending
<1> QED
  BY <1>1, ScenarioInvariant, PTL

(* Unless its teardown raised or it was interrupted, a scenario leaves no  *)
(* server behind (lines 701-706).                                          *)
THEOREM StopsServer == Spec => []ServerStopped
<1>1. IInv => ServerStopped
  BY DEF IInv, Lifecycle, ServerStopped, Over
<1> QED
  BY <1>1, ScenarioInvariant, PTL

(* After the teardown nothing is sent, recorded or started (lines 685-706).*)
THEOREM TeardownEndsIt == Spec => TeardownIsLast
<1>1. IInv /\ [Next]_vars => [NothingAfterTeardown]_vars
  <2> SUFFICES ASSUME IInv, Next, tornDown PROVE NothingAfterTeardown
    BY DEF NothingAfterTeardown
  <2>1. pc \in Ending
    BY DEF IInv, Lifecycle
  <2>2. Stop \/ Terminated \/ Kill \/ End \/ ServerExits \/ Finished
    BY <2>1 DEF Next, Runner, NoSetup, SetupCommand, StartServer, Poll, Probe, RenderFails,
                Send, Response, StepsDone, Teardown, Ending
  <2> QED
    BY <2>2 DEF Stop, Terminated, Kill, AfterKill, End, ServerExits, Finished, vars,
                NothingAfterTeardown
<1> QED
  BY <1>1, ScenarioInvariant, PTL DEF Spec, TeardownIsLast

(* The lifecycle of a scenario is kept, for any scenario and any number of *)
(* readiness probes.                                                       *)
THEOREM KeepsLifecycle == Spec => []LifecycleKept
<1> QED
  BY ReadyBeforeRequests, ReturnsAsOrdered, AttemptsTeardown, StopsServer, PTL
     DEF LifecycleKept


-----------------------------------------------------------------------------
(* The types that the lifecycle does not speak of.  The probes that are    *)
(* left never fall below zero, because Poll gives up before a probe that   *)
(* the deadline leaves no time for; and no request is sent beyond the last *)
(* step, so the logs hold step numbers.                                    *)
TypeInv ==
    /\ left \in 0 .. Probes
    /\ pc = "probe" => left # 0
    /\ server \in {"none", "running", "exited"}
    /\ raised \in Exceptions
    /\ outcome \in {"running", "returned", "raised"}
    /\ Len(sent) <= scenario.n

LEMMA TypeInit == Init => TypeInv
<1> SUFFICES ASSUME Init PROVE TypeInv
  OBVIOUS
<1>1. Len(sent) = 0 /\ scenario.n \in Nat /\ Probes \in Nat
  BY ScenarioAssumption DEF Init, ScenarioAssumption
<1> QED
  BY <1>1 DEF Init, TypeInv, Exceptions

LEMMA TypeStep == IInv /\ TypeInv /\ [Next]_vars => TypeInv'
<1> SUFFICES ASSUME IInv, TypeInv, [Next]_vars PROVE TypeInv'
  OBVIOUS
<1> USE DEF TypeInv, Exceptions, Leave, Caught, ToFinally
<1>p. Probes \in Nat \ {0} /\ left \in Nat /\ left <= Probes
  BY ScenarioAssumption DEF ScenarioAssumption
<1>1. CASE NoSetup \/ SetupCommand
  BY <1>1 DEF NoSetup, SetupCommand
<1>2. CASE StartServer
  BY <1>2, <1>p DEF StartServer
<1>3. CASE Poll
  <2>1. UNCHANGED <<scenario, server, left, sent, outcome>>
    BY <1>3 DEF Poll
  <2>2. pc' = "probe" => left # 0
    BY <1>3 DEF Poll, DeadlinePassed, GivesUp
  <2>3. raised' \in Exceptions
    BY <1>3 DEF Poll, GivesUp
  <2> QED
    BY <2>1, <2>2, <2>3
<1>4. CASE Probe
  <2>1. left # 0 /\ UNCHANGED <<scenario, server, sent, outcome>> /\ pc' # "probe"
    BY <1>4 DEF Probe
  <2>2. left' = left \/ left' = left - 1
    BY <1>4 DEF Probe, Sooner
  <2>3. left' \in 0 .. Probes
    BY <2>1, <2>2, <1>p
  <2>4. raised' \in Exceptions
    BY <1>4 DEF Probe
  <2> QED
    BY <2>1, <2>3, <2>4
<1>5. CASE RenderFails \/ Response \/ StepsDone
  BY <1>5 DEF RenderFails, Response, StepsDone
<1>6. CASE Send
  <2>1. /\ sent \in Seq(Nat) /\ Len(sent) = Len(results)
        /\ Len(results) \in Nat /\ scenario.n \in Nat
    BY <1>6, ScenarioAssumption DEF Send, IInv, Logs, Lifecycle, ScenarioAssumption
  <2>2. Len(sent') = Len(sent) + 1
    BY <1>6, <2>1 DEF Send, NextStep
  <2>3. Len(sent') <= scenario'.n
    BY <1>6, <2>1, <2>2 DEF Send, More
  <2> QED
    BY <1>6, <2>3 DEF Send
<1>7. CASE Teardown
  <2>1. /\ UNCHANGED <<scenario, server, left, sent, outcome>> /\ pc' \in {"stop", "end"}
        /\ raised' \in {raised, "teardown", "interrupt"}
    BY <1>7, ScenarioAssumption
    DEF Teardown, AfterTeardown, ScenarioAssumption, Teardowns, IInv, Lifecycle
  <2> QED
    BY <2>1
<1>8. CASE Stop \/ Terminated \/ Kill \/ End
  BY <1>8 DEF Stop, Terminated, Kill, AfterKill, End
<1>9. CASE ServerExits
  BY <1>9 DEF ServerExits
<1>10. CASE UNCHANGED vars
  BY <1>10 DEF vars
<1> QED
  BY <1>1, <1>2, <1>3, <1>4, <1>5, <1>6, <1>7, <1>8, <1>9, <1>10 DEF Next, Runner, Finished

(* A log that counts up to at most the last step is a list of steps.       *)
LEMMA LogOfSteps ==
    ASSUME NEW n \in Nat, NEW s \in Seq(Nat), Len(s) <= n, \A k \in 1 .. Len(s) : s[k] = k
    PROVE  s \in Seq(1 .. n)
<1>1. Len(s) \in Nat /\ s \in [1 .. Len(s) -> Nat]
  OBVIOUS
<1>2. \A k \in 1 .. Len(s) : s[k] \in 1 .. n
  BY <1>1
<1>3. s \in [1 .. Len(s) -> 1 .. n]
  BY <1>1, <1>2
<1> QED
  BY <1>1, <1>3

(* The state of a scenario is well formed: the probes left are within      *)
(* ready_probe's timeout, requests and results are of steps there are, and *)
(* the exception on its way is one that its handlers know (_run_scenario). *)
THEOREM TypeCorrect == Spec => []TypeOK
<1>1. IInv /\ TypeInv => TypeOK
  <2> SUFFICES ASSUME IInv, TypeInv PROVE TypeOK
    OBVIOUS
  <2>1. scenario.n \in Nat /\ sent \in Seq(Nat) /\ results \in Seq(Nat)
    BY ScenarioAssumption DEF ScenarioAssumption, IInv, Lifecycle, Logs
  <2>2. sent \in StepSeqs
    BY <2>1, LogOfSteps DEF IInv, Logs, TypeInv, StepSeqs
  <2>3. results \in StepSeqs
    BY <2>1, LogOfSteps DEF IInv, Logs, StepSeqs
  <2> QED
    BY <2>2, <2>3 DEF IInv, Lifecycle, TypeInv, TypeOK
<1> QED
  BY <1>1, TypeInit, TypeStep, ScenarioInvariant, PTL DEF Spec
=============================================================================
