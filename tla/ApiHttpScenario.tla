-------------------------- MODULE ApiHttpScenario --------------------------
(***************************************************************************)
(* An api.http scenario: a setup command or a background server that is    *)
(* probed until it is ready, the request steps in order, the teardown      *)
(* command and the end of the server.  Responses, the server's own end and *)
(* interrupts of the runner are the environment's choice.                  *)
(***************************************************************************)
EXTENDS Naturals, Sequences

CONSTANTS
    Scenarios,  \* the scenarios to start with
    Probes      \* probes that fit into the ready_probe's timeout_ms

Setups == {"none", "command", "probe", "probe_without_url"}
Teardowns == {"none", "good", "missing", "invalid"}  \* missing: no such program

Scenario == [n : Nat \ {0},                      \* request steps
             refs : [Nat -> SUBSET Nat],         \* steps a step's templates name
             failFast : BOOLEAN,
             setup : Setups,
             teardown : Teardowns,
             deaf : BOOLEAN]                     \* the server ignores SIGTERM

ASSUME ScenarioAssumption ==
    /\ \A s \in Scenarios :
         /\ s.n \in Nat \ {0} /\ DOMAIN s.refs = 1 .. s.n
         /\ s.failFast \in BOOLEAN /\ s.setup \in Setups
         /\ s.teardown \in Teardowns /\ s.deaf \in BOOLEAN
    /\ Probes \in Nat \ {0}

VARIABLES
    scenario,
    pc,       \* where the runner is
    server,   \* none, running, exited
    left,     \* probes left before the deadline
    ready,    \* setup_ready
    sent,     \* steps whose request was sent, in order
    results,  \* step_results
    raised,   \* the exception on its way out
    tornDown, \* teardown_ran
    outcome   \* running, returned, raised

vars == <<scenario, pc, server, left, ready, sent, results, raised, tornDown, outcome>>

Recorded == {results[k] : k \in DOMAIN results}

ToFinally(what) == "teardown"

(* Slip: what a step raises is never raised again. *)
SwallowsSteps(what) == IF what = "step" \/ ~scenario.failFast THEN "none" ELSE what
(* Without fail_fast every Exception is swallowed; an interrupt is none. *)
Caught(what) == IF scenario.failFast \/ what = "interrupt" THEN what ELSE "none"

Leave(what) ==
    /\ raised' = Caught(what)
    /\ pc' = ToFinally(what)

-----------------------------------------------------------------------------
(* Setup.                                                                   *)

NoSetup ==
    /\ pc = "setup" /\ scenario.setup = "none"
    /\ pc' = "steps"
    /\ UNCHANGED <<scenario, server, left, ready, sent, results, raised, tornDown, outcome>>

SetupCommand ==
    /\ pc = "setup" /\ scenario.setup = "command"
    /\ \/ ready' = TRUE /\ pc' = "steps" /\ UNCHANGED raised
       \/ \E what \in {"setup", "interrupt"} : Leave(what) /\ UNCHANGED ready
    /\ UNCHANGED <<scenario, server, left, sent, results, tornDown, outcome>>

StartServer ==
    /\ pc = "setup" /\ scenario.setup \in {"probe", "probe_without_url"}
    /\ \/ /\ server' = "running"
          /\ left' = Probes
          /\ IF scenario.setup = "probe"
             THEN pc' = "poll" /\ UNCHANGED raised
             ELSE Leave("setup")
       \/ Leave("setup") /\ UNCHANGED <<server, left>>
    /\ UNCHANGED <<scenario, ready, sent, results, tornDown, outcome>>

ServerExits ==
    /\ server = "running"
    /\ server' = "exited"
    /\ UNCHANGED <<scenario, pc, left, ready, sent, results, raised, tornDown, outcome>>

GivesUp == Leave("setup")

(* Slip: only the server's own end stops the probes. *)
NoDeadline == FALSE
DeadlinePassed == left = 0

Poll ==
    /\ pc = "poll"
    /\ IF DeadlinePassed THEN GivesUp
       ELSE IF server = "exited" THEN Leave("setup")
       ELSE pc' = "probe" /\ UNCHANGED raised
    /\ UNCHANGED <<scenario, server, left, ready, sent, results, tornDown, outcome>>

(* Slip: the deadline is set anew for each probe. *)
NewDeadline == left
Sooner == left - 1

(* A probe that fails or is answered with another status is repeated. *)
Probe ==
    /\ pc = "probe"
    /\ \/ ready' = TRUE /\ pc' = "steps" /\ UNCHANGED <<left, raised>>
       \/ left' = Sooner /\ pc' = "poll" /\ UNCHANGED <<ready, raised>>
       \/ Leave("interrupt") /\ UNCHANGED <<left, ready>>
    /\ UNCHANGED <<scenario, server, sent, results, tornDown, outcome>>

-----------------------------------------------------------------------------
(* The request steps.                                                       *)

More == Len(results) < scenario.n
NextStep == Len(results) + 1

(* A template that names a step without a result raises before the request *)
(* is sent; so does a request that cannot be prepared or gets no token.    *)
RenderFails ==
    /\ pc = "steps" /\ More
    /\ Leave("step")
    /\ UNCHANGED <<scenario, server, left, ready, sent, results, tornDown, outcome>>

(* Templates may name the steps that have a result by now. *)
Renderable == Recorded

Send ==
    /\ pc = "steps" /\ More
    /\ scenario.refs[NextStep] \subseteq Renderable
    /\ sent' = Append(sent, NextStep)
    /\ pc' = "response"
    /\ UNCHANGED <<scenario, server, left, ready, results, raised, tornDown, outcome>>

Response ==
    /\ pc = "response"
    /\ \/ results' = Append(results, NextStep) /\ pc' = "steps" /\ UNCHANGED raised
       \/ \E what \in {"step", "interrupt"} : Leave(what) /\ UNCHANGED results
    /\ UNCHANGED <<scenario, server, left, ready, sent, tornDown, outcome>>

StepsDone ==
    /\ pc = "steps" /\ ~More
    /\ Leave("none")
    /\ UNCHANGED <<scenario, server, left, ready, sent, results, tornDown, outcome>>

-----------------------------------------------------------------------------
(* The finally block.                                                       *)

(* Slip: with fail_fast off, the steps that are left run after all. *)
StepsAfterAll == IF ~scenario.failFast /\ More THEN "steps" ELSE "stop"
AfterTeardown == "stop"

(* The exit code is not looked at.  A teardown that cannot be started, or  *)
(* is interrupted, raises out of the finally block.                        *)
Teardown ==
    /\ pc = "teardown"
    /\ CASE scenario.teardown = "none" ->
              pc' = "stop" /\ UNCHANGED <<raised, tornDown>>
         [] scenario.teardown = "invalid" ->
              pc' = "end" /\ raised' = "teardown" /\ UNCHANGED tornDown
         [] scenario.teardown = "missing" ->
              pc' = "end" /\ raised' = "teardown" /\ tornDown' = TRUE
         [] scenario.teardown = "good" ->
              /\ tornDown' = TRUE
              /\ \/ pc' = AfterTeardown /\ UNCHANGED raised
                 \/ pc' = "end" /\ raised' = "interrupt"
    /\ UNCHANGED <<scenario, server, left, ready, sent, results, outcome>>

Stop ==
    /\ pc = "stop"
    /\ pc' = IF server = "running" THEN "grace" ELSE "end"
    /\ UNCHANGED <<scenario, server, left, ready, sent, results, raised, tornDown, outcome>>

(* SIGTERM was sent: the server exits, or is killed after two seconds. *)
Terminated ==
    /\ pc = "grace"
    /\ server = "exited" \/ ~scenario.deaf
    /\ server' = "exited"
    /\ pc' = "end"
    /\ UNCHANGED <<scenario, left, ready, sent, results, raised, tornDown, outcome>>

(* Slip: a server that ignores SIGTERM is left alone. *)
LeftAlone == server
AfterKill == "exited"

Kill ==
    /\ pc = "grace" /\ server = "running"
    /\ server' = AfterKill
    /\ pc' = "end"
    /\ UNCHANGED <<scenario, left, ready, sent, results, raised, tornDown, outcome>>

(* A scenario with nothing to show for it raises, swallowed or not. *)
End ==
    /\ pc = "end"
    /\ raised' = IF raised = "none" /\ results = <<>> THEN "no_steps" ELSE raised
    /\ outcome' = IF raised' = "none" THEN "returned" ELSE "raised"
    /\ pc' = "done"
    /\ UNCHANGED <<scenario, server, left, ready, sent, results, tornDown>>

-----------------------------------------------------------------------------
Finished == pc = "done" /\ UNCHANGED vars

Init ==
    /\ scenario \in Scenarios
    /\ pc = "setup"
    /\ server = "none"
    /\ left = 0
    /\ ready = FALSE
    /\ sent = <<>> /\ results = <<>>
    /\ raised = "none"
    /\ tornDown = FALSE
    /\ outcome = "running"

Runner ==
    \/ NoSetup \/ SetupCommand \/ StartServer \/ Poll \/ Probe
    \/ RenderFails \/ Send \/ Response \/ StepsDone
    \/ Teardown \/ Stop \/ Terminated \/ Kill \/ End

Next == Runner \/ ServerExits \/ Finished

Spec == Init /\ [][Next]_vars

(* The commands of setup and teardown end, and every request is answered   *)
(* or times out: the runner is never stuck inside one of its steps.        *)
FairSpec == Spec /\ WF_vars(Runner)

-----------------------------------------------------------------------------
(***************************************************************************)
(* The lifecycle an api.http scenario must keep.                           *)
(***************************************************************************)

Pcs == {"setup", "poll", "probe", "steps", "response", "teardown", "stop", "grace",
        "end", "done"}
Exceptions == {"none", "setup", "step", "interrupt", "teardown", "no_steps"}
StepSeqs == Seq(1 .. scenario.n)

TypeOK ==
    /\ scenario \in Scenarios
    /\ pc \in Pcs
    /\ server \in {"none", "running", "exited"}
    /\ left \in 0 .. Probes
    /\ ready \in BOOLEAN
    /\ sent \in StepSeqs
    /\ results \in StepSeqs
    /\ raised \in Exceptions
    /\ tornDown \in BOOLEAN
    /\ outcome \in {"running", "returned", "raised"}

Over == outcome # "running"

(* No request is sent before the setup is known to have worked (lines 612  *)
(* to 673), also with fail_fast off, where a failed setup raises nothing.  *)
RequestsOnlyWhenReady == sent # <<>> /\ scenario.setup # "none" => ready

(* What is returned (lines 675 to 681, 711) is a prefix of the scenario in *)
(* its order, each request rendered from results that were there before;   *)
(* with fail_fast it is the whole scenario.  A step that was sent and not  *)
(* recorded never hides among those returned.                              *)
ReturnedAsOrdered ==
    /\ \A k \in DOMAIN results :
         results[k] = k /\ sent[k] = k /\ scenario.refs[k] \subseteq 1 .. k - 1
    /\ outcome = "returned" /\ scenario.failFast => Len(results) = scenario.n

(* "teardown must be attempted" (policy_v1.yaml:3327): whatever was raised *)
(* in setup, probe or steps, a teardown that can be is started before the  *)
(* scenario is over.                                                       *)
TeardownAttempted == Over /\ scenario.teardown \in {"good", "missing"} => tornDown

(* The teardown is the last a scenario does: no request follows it, no     *)
(* result is recorded, and the runner never starts a server again.         *)
NothingAfterTeardown ==
    tornDown => /\ UNCHANGED <<sent, results>>
                /\ server' = "running" => server = "running"
                /\ tornDown'
TeardownIsLast == [][NothingAfterTeardown]_vars

(* Unless the teardown itself raised, no server outlives its scenario: it  *)
(* exited, obeyed SIGTERM or was killed (lines 701 to 706).                *)
ServerStopped == Over /\ raised \notin {"teardown", "interrupt"} => server # "running"

(* The lifecycle of a scenario, in order and complete, whatever is raised   *)
(* where (_run_scenario).                                                  *)
LifecycleKept ==
    RequestsOnlyWhenReady /\ ReturnedAsOrdered /\ TeardownAttempted /\ ServerStopped

(* The lifecycle ends: a server that never gets ready is given up.         *)
ScenarioEnds == <>Over

(* The rationale of API_HTTP_SCENARIO_DETERMINISTIC_LIFECYCLE_REQUIRED,    *)
(* "leaking background processes" (policy_v1.yaml:3331): no server is left *)
(* when a scenario is over.  The code stops the server after the teardown, *)
(* in the same finally block.                                              *)
NoServerLeaks == Over => server # "running"
=============================================================================
