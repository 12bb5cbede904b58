--------------------------- MODULE GovernancePool ---------------------------
(***************************************************************************)
(* The governance run: its cases on a pool of threads, the main loop that  *)
(* collects their results, and the watchdog in that loop.  The threads     *)
(* share the time of the last progress and the active cases under a lock;  *)
(* time is counted in ticks and saturates at the limits it is compared to. *)
(***************************************************************************)
EXTENDS Integers, FiniteSets

CONSTANTS
    Runs,     \* the runs to start with: case count, options, what cases do
    Cpus,     \* os.cpu_count()
    Stall,    \* liveness stall window, in ticks
    HardCap   \* running-case hard cap, max(6 * stall, 30 s), in ticks

Run == [n : Nat,                \* governance cases the filters selected
        filtered : BOOLEAN,     \* a prefix filter was given
        workers : Int,          \* --workers
        stall : BOOLEAN,        \* liveness level is not off
        fails : SUBSET Nat,     \* cases whose check fails
        hangs : SUBSET Nat,     \* cases whose check never returns
        prompt : BOOLEAN]       \* threads with something to do are scheduled at once

ASSUME PoolAssumption ==
    /\ Runs \subseteq Run
    /\ Cpus \in Nat \ {0} /\ Stall \in Nat \ {0} /\ HardCap \in Nat
    /\ HardCap >= Stall

VARIABLES
    run,      \* the run
    main,     \* where the main thread is
    phase,    \* case -> where its future and its thread are
    age,      \* case -> ticks since its started_at
    lag,      \* case -> ticks since its thread read the clock at the end
    idle,     \* ticks since last_progress_ts
    pending,  \* futures the main loop still waits for
    results,  \* cases whose result it has
    seen,     \* what the heartbeat read under the lock
    stalled,  \* the watchdog gave up
    report,   \* the timing report and exit code
    trace     \* what the run trace was closed with

vars == <<run, main, phase, age, lag, idle, pending, results, seen, stalled, report, trace>>

Cases == 1 .. run.n

MainPhases == {"begin", "sequential", "wait", "heartbeat", "decide", "cancel", "join", "done"}
Phases == {"queued", "starting", "running", "finishing", "finished", "returned", "cancelled"}

Busy == {c \in Cases : phase[c] \in {"starting", "running", "finishing", "finished"}}
Active == {c \in Cases : phase[c] \in {"running", "finishing"}}  \* active_cases

Least(a, b) == IF a < b THEN a ELSE b

(* --workers 1 is not above 1: it leaves the processor count in place. *)
MaxWorkers ==
    IF run.n <= 1 THEN 1
    ELSE IF run.workers > 1 THEN Least(run.workers, run.n) ELSE Least(Cpus, run.n)

NoReport == [cases |-> {}, exit |-> -1]
NoTrace == [status |-> "open", exit |-> -1]

-----------------------------------------------------------------------------
(* The worker threads.                                                      *)

PhaseStep(c, from, to) ==
    /\ phase[c] = from
    /\ phase' = [phase EXCEPT ![c] = to]

(* A free thread takes the oldest future in the queue. *)
Take(c) ==
    /\ main \notin {"begin", "done"}
    /\ PhaseStep(c, "queued", "starting")
    /\ \A d \in Cases : phase[d] = "queued" => c <= d
    /\ Cardinality(Busy) < MaxWorkers
    /\ age' = [age EXCEPT ![c] = 0]
    /\ UNCHANGED <<run, main, lag, idle, pending, results, seen, stalled, report, trace>>

(* _mark_progress: the clock was read before the lock was taken. *)
MarkStart(c) ==
    /\ PhaseStep(c, "starting", "running")
    /\ idle' = Least(age[c], Stall)
    /\ UNCHANGED <<run, main, age, lag, pending, results, seen, stalled, report, trace>>

Execute(c) ==
    /\ c \notin run.hangs
    /\ PhaseStep(c, "running", "finishing")
    /\ lag' = [lag EXCEPT ![c] = 0]
    /\ UNCHANGED <<run, main, age, idle, pending, results, seen, stalled, report, trace>>

MarkFinish(c) ==
    /\ PhaseStep(c, "finishing", "finished")
    /\ idle' = lag[c]
    /\ UNCHANGED <<run, main, age, lag, pending, results, seen, stalled, report, trace>>

Return(c) ==
    /\ PhaseStep(c, "finished", "returned")
    /\ UNCHANGED <<run, main, age, lag, idle, pending, results, seen, stalled, report, trace>>

Worker(c) == Take(c) \/ MarkStart(c) \/ Execute(c) \/ MarkFinish(c) \/ Return(c)

-----------------------------------------------------------------------------
(* The main thread.                                                         *)

Close(exit) == trace' = [status |-> IF exit = 0 THEN "pass" ELSE "fail", exit |-> exit]

(* A bad --workers is refused inside the try: its finally still closes the *)
(* trace, with no failure on record.                                       *)
Begin ==
    /\ main = "begin"
    /\ IF run.filtered /\ run.n = 0
       THEN /\ main' = "done"
            /\ report' = [NoReport EXCEPT !.exit = 2]
            /\ UNCHANGED <<pending, trace>>
       ELSE IF run.workers < 0
       THEN /\ main' = "done"
            /\ report' = [NoReport EXCEPT !.exit = 2]
            /\ Close(0)
            /\ UNCHANGED pending
       ELSE /\ main' = IF run.n <= 1 THEN "sequential" ELSE "wait"
            /\ pending' = Cases
            /\ UNCHANGED <<report, trace>>
    /\ UNCHANGED <<run, phase, age, lag, idle, results, seen, stalled>>

Ended == {c \in pending : phase[c] = "returned"}

(* Slip: takes one finished future and forgets the others. *)
HarvestsFirst(done) == {c \in done : \A d \in done : c <= d}
Harvested(done) == done

(* Slip: the futures that are done are waited for again. *)
StillPending(done) == pending
LeftPending(done) == pending \ done

(* wait() came back with finished futures. *)
Harvest ==
    /\ main = "wait"
    /\ Ended # {}
    /\ results' = results \cup Harvested(Ended)
    /\ pending' = LeftPending(Ended)
    /\ UNCHANGED <<run, main, phase, age, lag, idle, seen, stalled, report, trace>>

(* wait() timed out with none. *)
WaitTimeout ==
    /\ main = "wait"
    /\ pending # {}
    /\ Ended = {}
    /\ main' = "heartbeat"
    /\ UNCHANGED <<run, phase, age, lag, idle, pending, results, seen, stalled, report, trace>>

(* What the heartbeat reads of the longest running case is whether it has  *)
(* reached the hard cap.                                                   *)
Snapshot ==
    /\ main = "heartbeat"
    /\ main' = "decide"
    /\ seen' = [idle |-> idle, running |-> Active # {},
              overdue |-> \E c \in Active : age[c] >= HardCap]
    /\ UNCHANGED <<run, phase, age, lag, idle, pending, results, stalled, report, trace>>

(* Slip: a quiet window is a stall, however young the running cases are. *)
QuietIsStalled == run.stall /\ seen.idle >= Stall
ShouldStall ==
    /\ run.stall
    /\ seen.idle >= Stall
    /\ seen.running => seen.overdue

Decide ==
    /\ main = "decide"
    /\ stalled' = ShouldStall
    /\ main' = IF ShouldStall THEN "cancel" ELSE "wait"
    /\ UNCHANGED <<run, phase, age, lag, idle, pending, results, seen, report, trace>>

(* fut.cancel() for each pending future, in no particular order; one that  *)
(* a thread has taken is not cancelled.                                    *)
Cancel(c) ==
    /\ main = "cancel"
    /\ c \in pending
    /\ phase' = IF phase[c] = "queued" THEN [phase EXCEPT ![c] = "cancelled"] ELSE phase
    /\ pending' = pending \ {c}
    /\ UNCHANGED <<run, main, age, lag, idle, results, seen, stalled, report, trace>>

(* Out of the loop: leaving the executor's with block waits for the threads. *)
LeaveLoop ==
    /\ main \in {"wait", "cancel"}
    /\ pending = {}
    /\ main' = "join"
    /\ UNCHANGED <<run, phase, age, lag, idle, pending, results, seen, stalled, report, trace>>

(* Slip: only failing cases make a run fail. *)
ForgetsStall(cs) == IF run.fails \cap cs = {} THEN 0 ELSE 1
ExitCode(cs) == IF stalled \/ run.fails \cap cs # {} THEN 1 ELSE 0

Finish(cs) ==
    /\ main' = "done"
    /\ report' = [cases |-> cs, exit |-> ExitCode(cs)]
    /\ Close(ExitCode(cs))
    /\ results' = cs

Join ==
    /\ main = "join"
    /\ Busy = {}
    /\ Finish(results)
    /\ UNCHANGED <<run, phase, age, lag, idle, pending, seen, stalled>>

(* At most one case: the main thread runs it itself, without a watchdog. *)
RanSequentially ==
    /\ main = "sequential"
    /\ \A c \in Cases : phase[c] = "returned"
    /\ Finish(Cases)
    /\ pending' = {}
    /\ UNCHANGED <<run, phase, age, lag, idle, seen, stalled>>

Main ==
    \/ Begin \/ Harvest \/ WaitTimeout \/ Snapshot \/ Decide
    \/ LeaveLoop \/ Join \/ RanSequentially
    \/ \E c \in Cases : Cancel(c)

-----------------------------------------------------------------------------
(* Something that takes no time of its own can happen now. *)
Pressing ==
    \/ \E c \in Cases : phase[c] \in {"starting", "finishing", "finished"}
    \/ /\ \E c \in Cases : phase[c] = "queued"
       /\ main \notin {"begin", "done"} /\ Cardinality(Busy) < MaxWorkers
    \/ main \in {"begin", "heartbeat", "decide", "cancel"}
    \/ main = "wait" /\ (Ended # {} \/ pending = {})

Tick ==
    /\ main # "done"
    /\ run.prompt => ~Pressing
    /\ idle' = Least(idle + 1, Stall)
    /\ age' = [c \in Cases |-> IF c \in Busy THEN Least(age[c] + 1, HardCap) ELSE age[c]]
    /\ lag' = [c \in Cases |->
                 IF phase[c] = "finishing" THEN Least(lag[c] + 1, Stall) ELSE lag[c]]
    /\ UNCHANGED <<run, main, phase, pending, results, seen, stalled, report, trace>>

Finished == main = "done" /\ UNCHANGED vars

Init ==
    /\ run \in Runs
    /\ main = "begin"
    /\ phase = [c \in Cases |-> "queued"]
    /\ age = [c \in Cases |-> 0]
    /\ lag = [c \in Cases |-> 0]
    /\ idle = 0
    /\ pending = {}
    /\ results = {}
    /\ seen = [idle |-> 0, running |-> FALSE, overdue |-> FALSE]
    /\ stalled = FALSE
    /\ report = NoReport
    /\ trace = NoTrace

Next == Main \/ (\E c \in Cases : Worker(c)) \/ Tick \/ Finished

Spec == Init /\ [][Next]_vars

(* Threads are scheduled, and time passes: each wait of the main loop that *)
(* ends in WaitTimeout has taken the heartbeat interval, 250 ms or more.   *)
FairSpec ==
    Spec /\ WF_vars(Main) /\ WF_vars(\E c \in Cases : Worker(c)) /\ SF_vars(Tick)

-----------------------------------------------------------------------------
(***************************************************************************)
(* What the governance pool must keep: every future is accounted for, the  *)
(* report is of what ran, and the watchdog tells a hang from slow work.    *)
(***************************************************************************)

TypeOK ==
    /\ run \in Runs
    /\ main \in MainPhases
    /\ phase \in [Cases -> Phases]
    /\ age \in [Cases -> 0 .. HardCap]
    /\ lag \in [Cases -> 0 .. Stall]
    /\ idle \in 0 .. Stall
    /\ pending \subseteq Cases
    /\ results \subseteq Cases
    /\ seen \in [idle : 0 .. Stall, running : BOOLEAN, overdue : BOOLEAN]
    /\ stalled \in BOOLEAN
    /\ report \in [cases : SUBSET Cases, exit : -1 .. 2]
    /\ trace \in [status : {"open", "pass", "fail"}, exit : -1 .. 1]

(* The main loop's account of its futures (lines 11754 to 11767): while it *)
(* polls, each case is either still waited for or has handed over exactly  *)
(* one result, whatever the threads do between two waits.                  *)
FuturesAccounted ==
    /\ results \subseteq {c \in Cases : phase[c] = "returned"}
    /\ main \in {"wait", "heartbeat", "decide"} =>
         /\ pending \cup results = Cases
         /\ pending \cap results = {}

(* The report (lines 11845 to 11886) is of what ran: a run that was not    *)
(* given up lists every selected case, and its exit code is 1 exactly when *)
(* one of them failed.                                                     *)
EveryCaseReported ==
    main = "done" /\ report.exit \in {0, 1} /\ ~stalled =>
        /\ report.cases = Cases
        /\ report.exit = 1 <=> run.fails \cap Cases # {}

(* A passing run left nothing out: every selected case ran to its end and  *)
(* none was cancelled by the watchdog; and the trace, closed before the    *)
(* report is written (lines 11869 to 11874), has the run's own outcome.    *)
NothingSilentlyDropped ==
    main = "done" /\ report.exit \in {0, 1} =>
        /\ report.exit = 0 => \A c \in Cases : phase[c] = "returned" /\ c \notin run.fails
        /\ trace.exit = report.exit

(* The watchdog's premise (lines 11810 to 11817) with threads that are     *)
(* scheduled at once: it gives a run up only if some case really has been  *)
(* with its thread for the hard cap, never for a pool between two cases.   *)
HealthyRunNeverStalls ==
    run.prompt /\ stalled => \E c \in Cases : age[c] >= HardCap

(* No case of a governance run is lost between the threads, the main loop,  *)
(* the report and the trace (lines 11697 to 11886).                        *)
NoCaseIsLost ==
    /\ TypeOK
    /\ FuturesAccounted
    /\ EveryCaseReported
    /\ NothingSilentlyDropped

(* With the watchdog on, a run with several cases, one of which never      *)
(* returns, is given up in the end, however much progress the others make. *)
Hanging == run.n > 1 /\ run.workers >= 0 /\ run.stall /\ run.hangs \cap Cases # {}
HangIsNoticed == Hanging ~> stalled

(* A run whose cases all return ends: no future is waited for twice, and   *)
(* nothing the threads do keeps the main thread in its loop.               *)
RunEnds == (run.hangs \cap Cases = {}) ~> (main = "done")

(* The watchdog gives up what hangs and the main loop ends when it can.    *)
PoolProgresses == HangIsNoticed /\ RunEnds

(* The caps are the end of every run: "Emergency hard cap in ms" (the help *)
(* of --liveness-hard-cap-ms).  Leaving the executor's block waits for a   *)
(* thread that never returns, so the code has runs that are given up and   *)
(* do not end.                                                             *)
GivenUpRunEnds == stalled ~> (main = "done")

=============================================================================
