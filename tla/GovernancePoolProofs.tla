------------------------ MODULE GovernancePoolProofs ------------------------
(***************************************************************************)
(* The governance pool loses no case, proved for any number of cases,      *)
(* threads and ticks.  The inductive invariant adds to the properties what *)
(* the main thread knows at each place: the pool's results are complete    *)
(* when it leaves its loop without having given the run up.                *)
(***************************************************************************)
EXTENDS GovernancePool, FiniteSetTheorems, TLAPS

MainKnows ==
    /\ main \in {"begin", "sequential"} => results = {}
    /\ main \in {"begin", "sequential", "wait", "heartbeat", "decide"} => ~stalled
    /\ main = "cancel" => stalled
    /\ main = "join" /\ ~stalled => results = Cases

IInv == TypeOK /\ FuturesAccounted /\ MainKnows /\ EveryCaseReported /\ NothingSilentlyDropped

(* The initial states: nothing has been taken, harvested or reported. *)
LEMMA InitHolds == Init => IInv
<1> SUFFICES ASSUME Init PROVE IInv
  OBVIOUS
<1> USE PoolAssumption DEF PoolAssumption
<1>1. TypeOK
  <2>1. run \in Runs /\ main \in MainPhases /\ phase \in [Cases -> Phases]
    BY DEF Init, MainPhases, Phases
  <2>2. age \in [Cases -> 0 .. HardCap] /\ lag \in [Cases -> 0 .. Stall]
    BY DEF Init
  <2>3. idle \in 0 .. Stall /\ pending \subseteq Cases /\ results \subseteq Cases
    BY DEF Init
  <2>4. /\ seen \in [idle : 0 .. Stall, running : BOOLEAN, overdue : BOOLEAN]
        /\ stalled \in BOOLEAN
    <3>1. 0 \in 0 .. Stall
      OBVIOUS
    <3> HIDE PoolAssumption
    <3> QED
      BY <3>1, Zenon DEF Init
  <2>5. /\ report \in [cases : SUBSET Cases, exit : -1 .. 2]
        /\ trace \in [status : {"open", "pass", "fail"}, exit : -1 .. 1]
    BY DEF Init, NoReport, NoTrace
  <2> QED
    BY <2>1, <2>2, <2>3, <2>4, <2>5 DEF TypeOK
<1> QED
  BY <1>1 DEF Init, IInv, FuturesAccounted, MainKnows, EveryCaseReported,
              NothingSilentlyDropped, NoReport

(* A thread's step moves one case on and leaves the main thread's state    *)
(* alone: what was returned stays returned.                                *)
LEMMA WorkerKeeps ==
    ASSUME IInv, NEW c \in Cases, Worker(c) PROVE IInv'
<1> USE PoolAssumption DEF PoolAssumption
<1> USE DEF IInv
<1>1. /\ UNCHANGED <<run, main, pending, results, seen, stalled, report, trace>>
      /\ \E from, to \in Phases :
           /\ PhaseStep(c, from, to) /\ from # "returned"
           /\ main = "done" => from # "queued"
  BY DEF Worker, Take, MarkStart, Execute, MarkFinish, Return, Phases
<1>2. Cases' = Cases
  BY <1>1 DEF Cases
<1>3. phase' \in [Cases -> Phases]
  BY <1>1 DEF TypeOK, PhaseStep
<1>4. age' \in [Cases -> 0 .. HardCap]
  BY DEF Worker, Take, MarkStart, Execute, MarkFinish, Return, TypeOK
<1>5. lag' \in [Cases -> 0 .. Stall]
  BY DEF Worker, Take, MarkStart, Execute, MarkFinish, Return, TypeOK
<1>6. idle' \in 0 .. Stall
  BY DEF Worker, Take, MarkStart, Execute, MarkFinish, Return, TypeOK, Least
<1>7. TypeOK'
  BY <1>1, <1>2, <1>3, <1>4, <1>5, <1>6 DEF TypeOK
<1>8. \A d \in Cases : phase[d] = "returned" => phase'[d] = "returned"
  BY <1>1 DEF PhaseStep, TypeOK
<1>9. FuturesAccounted'
  BY <1>1, <1>2, <1>8 DEF FuturesAccounted
<1>10. MainKnows'
  BY <1>1, <1>2 DEF MainKnows
<1>11. EveryCaseReported' /\ NothingSilentlyDropped'
  BY <1>1, <1>2, <1>8 DEF EveryCaseReported, NothingSilentlyDropped
<1> QED
  BY <1>7, <1>9, <1>10, <1>11

(* Time passing changes the clocks alone. *)
LEMMA TickKeeps == ASSUME IInv, Tick PROVE IInv'
<1> USE PoolAssumption DEF PoolAssumption
<1> USE DEF IInv, Tick
<1>1. Cases' = Cases /\ Busy \subseteq Cases
  BY DEF Cases, Busy
<1>2. age' \in [Cases -> 0 .. HardCap] /\ lag' \in [Cases -> 0 .. Stall]
  BY DEF TypeOK, Least
<1>3. idle' \in 0 .. Stall
  BY DEF TypeOK, Least
<1>4. TypeOK'
  BY <1>1, <1>2, <1>3 DEF TypeOK
<1> QED
  BY <1>1, <1>4 DEF FuturesAccounted, MainKnows, EveryCaseReported, NothingSilentlyDropped

LEMMA BeginKeeps == ASSUME IInv, Begin PROVE IInv'
<1> USE PoolAssumption DEF PoolAssumption
<1> USE DEF IInv, Begin, Close
<1>1. Cases' = Cases
  BY DEF Cases
<1>2. TypeOK'
  <2>1. report' \in [cases : SUBSET Cases, exit : -1 .. 2]
    BY DEF TypeOK, NoReport
  <2>2. trace' \in [status : {"open", "pass", "fail"}, exit : -1 .. 1]
    BY DEF TypeOK
  <2> QED
    BY <1>1, <2>1, <2>2 DEF TypeOK, MainPhases
<1>3. main' = "done" => report'.exit = 2
  BY DEF NoReport
<1> QED
  BY <1>1, <1>2, <1>3 DEF FuturesAccounted, MainKnows, EveryCaseReported, NothingSilentlyDropped

(* The loop of the main thread: a harvest moves futures from pending to    *)
(* results, a heartbeat changes neither, and both leave the report open.   *)
LEMMA LoopKeeps ==
    ASSUME IInv, Harvest \/ WaitTimeout \/ Snapshot \/ Decide PROVE IInv'
<1> USE PoolAssumption DEF PoolAssumption
<1> USE DEF IInv
<1>1. CASE Harvest
  <2> USE <1>1 DEF Harvest, Harvested, LeftPending
  <2>1. Cases' = Cases /\ Ended \subseteq pending
    BY DEF Cases, Ended
  <2>2. \A c \in Ended : phase[c] = "returned"
    BY DEF Ended
  <2>3. TypeOK'
    BY <2>1 DEF TypeOK
  <2>4. FuturesAccounted'
    BY <2>1, <2>2, <2>3 DEF FuturesAccounted, TypeOK
  <2> QED
    BY <2>1, <2>3, <2>4 DEF MainKnows, EveryCaseReported, NothingSilentlyDropped
<1>2. CASE WaitTimeout
  BY <1>2 DEF WaitTimeout, Cases, TypeOK, MainPhases, FuturesAccounted, MainKnows,
              EveryCaseReported, NothingSilentlyDropped
<1>3. CASE Snapshot
  <2>1. seen' \in [idle : 0 .. Stall, running : BOOLEAN, overdue : BOOLEAN]
    BY <1>3 DEF Snapshot, TypeOK
  <2> QED
    BY <1>3, <2>1 DEF Snapshot, Cases, TypeOK, MainPhases, FuturesAccounted, MainKnows,
                      EveryCaseReported, NothingSilentlyDropped
<1>4. CASE Decide
  <2>1. ShouldStall \in BOOLEAN
    BY DEF ShouldStall
  <2> QED
    BY <1>4, <2>1 DEF Decide, Cases, TypeOK, MainPhases, FuturesAccounted, MainKnows,
                      EveryCaseReported, NothingSilentlyDropped
<1> QED
  BY <1>1, <1>2, <1>3, <1>4

(* Giving up and leaving the loop.  Cancelling touches no case that has    *)
(* returned; the loop is left with every future harvested or given up.     *)
LEMMA LeavingKeeps ==
    ASSUME IInv, LeaveLoop \/ \E c \in Cases : Cancel(c) PROVE IInv'
<1> USE PoolAssumption DEF PoolAssumption
<1> USE DEF IInv
<1>1. CASE LeaveLoop
  BY <1>1 DEF LeaveLoop, Cases, TypeOK, MainPhases, FuturesAccounted, MainKnows,
              EveryCaseReported, NothingSilentlyDropped
<1>2. ASSUME NEW c \in Cases, Cancel(c) PROVE IInv'
  <2> USE <1>2 DEF Cancel
  <2>1. Cases' = Cases
    BY DEF Cases
  <2>2. phase' \in [Cases -> Phases]
    BY DEF TypeOK, Phases
  <2>3. TypeOK'
    BY <2>1, <2>2 DEF TypeOK
  <2>4. \A d \in Cases : phase[d] = "returned" => phase'[d] = "returned"
    BY DEF TypeOK
  <2> QED
    BY <2>1, <2>3, <2>4 DEF FuturesAccounted, MainKnows, EveryCaseReported,
                            NothingSilentlyDropped
<1> QED
  BY <1>1, <1>2

(* The report, from the pool's results or from the main thread's own run:  *)
(* they are all the cases, or the run was given up and its exit code is 1. *)
LEMMA ReportingKeeps == ASSUME IInv, Join \/ RanSequentially PROVE IInv'
<1> USE PoolAssumption DEF PoolAssumption
<1> USE DEF IInv
<1>1. UNCHANGED <<run, phase, age, lag, idle, seen, stalled>>
  BY DEF Join, RanSequentially
<1>2. Cases' = Cases
  BY <1>1 DEF Cases
<1>3. PICK cs \in SUBSET Cases :
        /\ Finish(cs)
        /\ \A c \in cs : phase[c] = "returned"
        /\ ~stalled => cs = Cases
        /\ pending' \subseteq Cases
  <2>1. CASE Join
    BY <2>1 DEF Join, TypeOK, FuturesAccounted, MainKnows
  <2>2. CASE RanSequentially
    BY <2>2 DEF RanSequentially
  <2> QED
    BY <2>1, <2>2
<1>4. /\ main' = "done" /\ results' = cs
      /\ report' = [cases |-> cs, exit |-> ExitCode(cs)]
      /\ trace' = [status |-> IF ExitCode(cs) = 0 THEN "pass" ELSE "fail", exit |-> ExitCode(cs)]
  BY <1>3 DEF Finish, Close
<1>5. ExitCode(cs) \in {0, 1} /\ (ExitCode(cs) = 1 <=> stalled \/ run.fails \cap cs # {})
  BY DEF ExitCode
<1>6. TypeOK'
  BY <1>1, <1>2, <1>3, <1>4, <1>5 DEF TypeOK, MainPhases
<1>7. FuturesAccounted' /\ MainKnows'
  BY <1>1, <1>2, <1>3, <1>4 DEF FuturesAccounted, MainKnows
<1>8. EveryCaseReported' /\ NothingSilentlyDropped'
  BY <1>1, <1>2, <1>3, <1>4, <1>5 DEF EveryCaseReported, NothingSilentlyDropped
<1> QED
  BY <1>6, <1>7, <1>8

LEMMA StepHolds == IInv /\ [Next]_vars => IInv'
<1> SUFFICES ASSUME IInv, [Next]_vars PROVE IInv'
  OBVIOUS
<1>1. CASE Main
  BY <1>1, BeginKeeps, LoopKeeps, LeavingKeeps, ReportingKeeps DEF Main
<1>2. CASE \E c \in Cases : Worker(c)
  BY <1>2, WorkerKeeps
<1>3. CASE Tick
  BY <1>3, TickKeeps
<1>4. CASE UNCHANGED vars
  BY <1>4 DEF vars, IInv, TypeOK, Cases, FuturesAccounted, MainKnows, EveryCaseReported,
              NothingSilentlyDropped
<1> QED
  BY <1>1, <1>2, <1>3, <1>4 DEF Next, Finished

(* The invariant with what the main thread knows. *)
THEOREM PoolInvariant == Spec => []IInv
<1> QED
  BY InitHolds, StepHolds, PTL DEF Spec

(* Every future is either waited for or harvested, exactly once: for any   *)
(* number of cases, threads and ticks (the wait loop, lines 11754-11767).  *)
THEOREM NoFutureLost == Spec => []FuturesAccounted
<1>1. IInv => FuturesAccounted
  BY DEF IInv
<1> QED
  BY <1>1, PoolInvariant, PTL

(* A run that was not given up reports every case and fails exactly when   *)
(* one failed (the report, lines 11845-11886).                             *)
THEOREM ReportsEveryCase == Spec => []EveryCaseReported
<1>1. IInv => EveryCaseReported
  BY DEF IInv
<1> QED
  BY <1>1, PoolInvariant, PTL

(* A passing run dropped no case, whatever the watchdog and the threads    *)
(* did before, and its trace says the same (lines 11858-11886).            *)
THEOREM PassDropsNothing == Spec => []NothingSilentlyDropped
<1>1. IInv => NothingSilentlyDropped
  BY DEF IInv
<1> QED
  BY <1>1, PoolInvariant, PTL
(* No case of a governance run is lost, for any set of cases and threads.   *)
THEOREM LosesNoCase == Spec => []NoCaseIsLost
<1>1. IInv => NoCaseIsLost
  BY DEF IInv, NoCaseIsLost
<1> QED
  BY <1>1, PoolInvariant, PTL

-----------------------------------------------------------------------------
(* The watchdog and a pool whose threads are scheduled at once.             *)

(* A thread that has been with its case for the hard cap. *)
OneIsOverdue == \E c \in Cases : phase[c] # "queued" /\ age[c] >= HardCap
Polling == main \in {"wait", "heartbeat", "decide"}

(* No time passes while something is about to happen: a quiet window only  *)
(* ever comes to its end with a case that runs, and the heartbeat sees it. *)
QuietInv ==
    /\ \A c \in Cases : phase[c] = "starting" => age[c] = 0
    /\ \A c \in Cases : phase[c] = "finishing" => lag[c] = 0
    /\ main = "begin" => idle = 0
    /\ Polling \/ main \in {"begin", "sequential"} => \A c \in Cases : phase[c] # "cancelled"
    /\ Polling /\ idle >= Stall => Active # {}
    /\ main = "decide" /\ seen.idle >= Stall => seen.running
    /\ main = "decide" /\ seen.overdue => OneIsOverdue
    /\ stalled => OneIsOverdue
WatchInv == run.prompt => QuietInv

LEMMA QuietAtFirst == Init => WatchInv
<1> SUFFICES ASSUME Init PROVE QuietInv
  BY DEF WatchInv
<1>1. Stall \in Nat \ {0}
  BY PoolAssumption
<1> QED
  BY <1>1 DEF Init, QuietInv, Polling

(* A thread takes no time: a case that starts or finishes ends the quiet.  *)
LEMMA WorkerKeepsQuiet ==
    ASSUME IInv, QuietInv, NEW c \in Cases, Worker(c) PROVE QuietInv'
<1>1. /\ UNCHANGED <<run, main, seen, stalled>> /\ Cases' = Cases
      /\ phase \in [Cases -> Phases] /\ age \in [Cases -> 0 .. HardCap] /\ lag \in [Cases -> 0 .. Stall]
      /\ idle \in 0 .. Stall /\ Stall \in Nat \ {0} /\ HardCap \in Nat
  BY PoolAssumption DEF Worker, Take, MarkStart, Execute, MarkFinish, Return, IInv, TypeOK, Cases
<1>2. PICK to \in {"starting", "running", "finishing", "finished", "returned"} :
        /\ phase' = [phase EXCEPT ![c] = to]
        /\ to = "starting" => phase[c] = "queued" /\ main # "begin" /\ age' = [age EXCEPT ![c] = 0]
        /\ to # "starting" => phase[c] # "queued" /\ age' = age
        /\ to = "running" => phase[c] = "starting" /\ idle' = Least(age[c], Stall)
        /\ to = "finished" => phase[c] = "finishing" /\ idle' = lag[c]
        /\ to \notin {"running", "finished"} => idle' = idle
        /\ to = "finishing" => lag' = [lag EXCEPT ![c] = 0]
        /\ to # "finishing" => lag' = lag
        /\ to = "returned" => phase[c] = "finished"
  BY DEF Worker, Take, MarkStart, Execute, MarkFinish, Return, PhaseStep
<1>3. idle' = idle \/ idle' = 0
  BY <1>1, <1>2 DEF QuietInv, Least
<1>4. OneIsOverdue => OneIsOverdue'
  <2>1. \A d \in Cases : phase[d] # "queued" => phase'[d] # "queued" /\ age'[d] = age[d]
    BY <1>1, <1>2
  <2> QED
    BY <1>1, <2>1 DEF OneIsOverdue
<1>5. Polling' /\ idle' >= Stall => Active' # {}
  <2> SUFFICES ASSUME Polling, idle' >= Stall PROVE Active' # {}
    BY <1>1 DEF Polling
  <2>1. idle' = idle /\ idle >= Stall
    BY <1>1, <1>3
  <2>2. to # "finished"
    BY <1>1, <1>2, <2>1 DEF QuietInv
  <2>3. Active # {}
    BY <2>1 DEF QuietInv
  <2>4. \A d \in Cases : phase[d] \in {"running", "finishing"} => phase'[d] \in {"running", "finishing"}
    BY <1>1, <1>2, <2>2
  <2> QED
    BY <1>1, <2>3, <2>4 DEF Active
<1>6. \A d \in Cases : phase'[d] = "starting" => age'[d] = 0
  BY <1>1, <1>2 DEF QuietInv
<1>7. \A d \in Cases : phase'[d] = "finishing" => lag'[d] = 0
  BY <1>1, <1>2 DEF QuietInv
<1>8. Polling \/ main \in {"begin", "sequential"} => \A d \in Cases : phase'[d] # "cancelled"
  BY <1>1, <1>2 DEF QuietInv
<1>9. main = "begin" => idle' = 0
  BY <1>3 DEF QuietInv
<1> QED
  BY <1>1, <1>4, <1>5, <1>6, <1>7, <1>8, <1>9 DEF QuietInv, Polling

(* There is a thread for a case. *)
LEMMA SomeThread == ASSUME TypeOK PROVE MaxWorkers > 0
<1>1. run.n \in Nat /\ run.workers \in Int /\ Cpus \in Nat \ {0}
  BY PoolAssumption DEF TypeOK, Run
<1> QED
  BY <1>1 DEF MaxWorkers, Least

(* Time passes in the loop only while a case runs. *)
LEMMA TickKeepsQuiet ==
    ASSUME IInv, run.prompt, QuietInv, Tick PROVE QuietInv'
<1>1. /\ UNCHANGED <<run, main, phase, seen, stalled>> /\ Cases' = Cases /\ ~Pressing
      /\ phase \in [Cases -> Phases] /\ age \in [Cases -> 0 .. HardCap] /\ HardCap \in Nat
  BY PoolAssumption DEF Tick, IInv, TypeOK, Cases
<1>2. main \notin {"begin", "heartbeat", "decide"}
  BY <1>1 DEF Pressing
<1>3. \A c \in Cases : phase[c] \notin {"starting", "finishing", "finished"}
  BY <1>1 DEF Pressing
<1>4. main = "wait" => Active # {}
  <2> SUFFICES ASSUME main = "wait", Active = {} PROVE FALSE
    OBVIOUS
  <2>1. PICK c \in Cases : c \in pending /\ phase[c] # "returned"
    BY <1>1 DEF Pressing, Ended, IInv, TypeOK
  <2>2. phase[c] = "queued"
    BY <1>1, <1>3, <2>1 DEF QuietInv, Polling, Phases, Active
  <2>3. Busy = {}
    BY <1>3 DEF Active, Busy
  <2>4. Cardinality(Busy) < MaxWorkers
    BY <2>3, SomeThread, FS_EmptySet DEF IInv
  <2> QED
    BY <1>1, <2>2, <2>4 DEF Pressing
<1>5. Active' = Active
  BY <1>1 DEF Active
<1>6. OneIsOverdue => OneIsOverdue'
  <2>1. age' = [c \in Cases |-> IF c \in Busy THEN Least(age[c] + 1, HardCap) ELSE age[c]]
    BY DEF Tick
  <2>2. \A c \in Cases : age[c] >= HardCap => age'[c] >= HardCap
    BY <1>1, <2>1 DEF Least
  <2> QED
    BY <1>1, <2>2 DEF OneIsOverdue
<1> QED
  BY <1>1, <1>2, <1>3, <1>4, <1>5, <1>6 DEF QuietInv, Polling

(* The heartbeat reads what is so, and gives up on it alone. *)
LEMMA MainKeepsQuiet ==
    ASSUME IInv, QuietInv, Main PROVE QuietInv'
<1>1. UNCHANGED <<run, age, lag, idle>> /\ Cases' = Cases /\ phase \in [Cases -> Phases]
  BY DEF Main, Begin, Harvest, WaitTimeout, Snapshot, Decide, LeaveLoop, Join, RanSequentially, Cancel,
         Cases, IInv, TypeOK
<1>2. CASE Snapshot
  <2>1. /\ main = "heartbeat" /\ main' = "decide" /\ UNCHANGED <<phase, stalled>>
        /\ seen'.idle = idle /\ (seen'.running <=> Active # {})
        /\ seen'.overdue => \E c \in Active : age[c] >= HardCap
    BY <1>2 DEF Snapshot
  <2>2. seen'.overdue => OneIsOverdue
    BY <2>1 DEF OneIsOverdue, Active
  <2>3. (OneIsOverdue <=> OneIsOverdue') /\ Active' = Active
    BY <1>1, <2>1 DEF OneIsOverdue, Active
  <2> QED
    BY <1>1, <2>1, <2>2, <2>3 DEF QuietInv, Polling
<1>3. CASE Decide
  <2>1. /\ main = "decide" /\ main' \in {"cancel", "wait"} /\ UNCHANGED phase
        /\ stalled' => seen.idle >= Stall /\ (seen.running => seen.overdue)
    BY <1>3 DEF Decide, ShouldStall
  <2>2. stalled' => OneIsOverdue
    BY <2>1 DEF QuietInv
  <2>3. (OneIsOverdue <=> OneIsOverdue') /\ Active' = Active
    BY <1>1, <2>1 DEF OneIsOverdue, Active
  <2> QED
    BY <1>1, <2>1, <2>2, <2>3 DEF QuietInv, Polling
<1>4. CASE \E c \in Cases : Cancel(c)
  <2>1. PICK c \in Cases : Cancel(c)
    BY <1>4
  <2>2. /\ main = "cancel" /\ UNCHANGED <<main, stalled>>
        /\ phase' = [phase EXCEPT ![c] = "cancelled"] \/ UNCHANGED phase
    BY <2>1 DEF Cancel
  <2>3. OneIsOverdue => OneIsOverdue'
    BY <1>1, <2>2 DEF OneIsOverdue
  <2>4. \A d \in Cases : phase'[d] = phase[d] \/ phase'[d] = "cancelled"
    BY <1>1, <2>2
  <2> QED
    BY <1>1, <2>2, <2>3, <2>4 DEF QuietInv, Polling
<1>5. CASE Begin \/ Harvest \/ WaitTimeout \/ LeaveLoop \/ Join \/ RanSequentially
  <2>1. /\ UNCHANGED <<phase, seen, stalled>>
        /\ \/ main = "begin" /\ main' \in {"done", "sequential", "wait"}
           \/ main = "wait" /\ main' \in {"wait", "heartbeat"}
           \/ main' \in {"join", "done"}
    BY <1>5 DEF Begin, Harvest, WaitTimeout, LeaveLoop, Join, RanSequentially, Finish
  <2>2. (OneIsOverdue <=> OneIsOverdue') /\ Active' = Active
    BY <1>1, <2>1 DEF OneIsOverdue, Active
  <2>3. main = "begin" => ~(idle >= Stall)
    BY PoolAssumption DEF QuietInv
  <2> QED
    BY <1>1, <2>1, <2>2, <2>3 DEF QuietInv, Polling
<1> QED
  BY <1>2, <1>3, <1>4, <1>5 DEF Main

LEMMA WatchStep == IInv /\ WatchInv /\ [Next]_vars => WatchInv'
<1> SUFFICES ASSUME IInv, WatchInv, [Next]_vars, run'.prompt PROVE QuietInv'
  BY DEF WatchInv
<1>1. run.prompt
  BY DEF Next, Main, Begin, Harvest, WaitTimeout, Snapshot, Decide, LeaveLoop, Join, RanSequentially, Cancel,
         Worker, Take, MarkStart, Execute, MarkFinish, Return, Tick, Finished, vars
<1>2. CASE UNCHANGED vars
  <2>1. UNCHANGED <<Cases, Active, OneIsOverdue, Polling>>
    BY <1>2 DEF vars, Cases, Active, OneIsOverdue, Polling
  <2> QED
    BY <1>1, <1>2, <2>1 DEF vars, QuietInv, WatchInv
<1> QED
  BY <1>1, <1>2, MainKeepsQuiet, WorkerKeepsQuiet, TickKeepsQuiet DEF Next, Finished, WatchInv

(***************************************************************************)
(* Whatever the number of cases and threads and however long the window    *)
(* and the cap: a pool whose threads are scheduled at once is given up     *)
(* only with a case that has run for the hard cap (lines 11810-11817).     *)
(***************************************************************************)
THEOREM OnlyHangsAreGivenUp == Spec => []HealthyRunNeverStalls
<1>1. WatchInv => HealthyRunNeverStalls
  BY DEF WatchInv, QuietInv, OneIsOverdue, HealthyRunNeverStalls
<1> QED
  BY <1>1, QuietAtFirst, WatchStep, PoolInvariant, PTL DEF Spec
=============================================================================
