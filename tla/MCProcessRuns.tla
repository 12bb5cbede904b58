---------------------------- MODULE MCProcessRuns ----------------------------
(* The watchdog and the profiler of a run: each behaviour is that of one   *)
(* (part), and the variables of the other are 0.                           *)
EXTENDS Integers

CONSTANTS
    Commands, Stall, HardCap, Grace, Room,               \* of the watchdog
    Workers, MaxSpans, Runs, Beat, Silence, JoinLimit    \* of the profiler
VARIABLES part, run, idle,
    proc, holders, told, buffered, silent, eof, elapsed, recent, graced, pc, reason,
    spans, warned, stack, doing, child, quiet, beat, due, closing, joined, trace

Watch == INSTANCE LivenessWatchdog
Profile == INSTANCE Profiler WITH Stall <- Silence

watchVars == <<proc, holders, told, buffered, silent, eof, elapsed, recent, graced, pc, reason>>
profileVars == <<spans, warned, stack, doing, child, quiet, beat, due, closing, joined, trace>>
vars == <<part, run, idle, watchVars, profileVars>>

ASSUME ProcessRunsAssumption == Watch!WatchdogAssumption /\ Profile!ProfilerAssumption

NoWatch ==
    /\ proc = 0 /\ holders = 0 /\ told = 0 /\ buffered = 0 /\ silent = 0 /\ eof = 0
    /\ elapsed = 0 /\ recent = 0 /\ graced = 0 /\ pc = 0 /\ reason = 0
NoProfile ==
    /\ spans = 0 /\ warned = 0 /\ stack = 0 /\ doing = 0 /\ child = 0 /\ quiet = 0
    /\ beat = 0 /\ due = 0 /\ closing = 0 /\ joined = 0 /\ trace = 0

Init ==
    \/ part = "watchdog" /\ Watch!Init /\ NoProfile
    \/ part = "profiler" /\ Profile!Init /\ NoWatch

Watched(A) == part = "watchdog" /\ A /\ UNCHANGED <<part, profileVars>>
Profiled(A) == part = "profiler" /\ A /\ UNCHANGED <<part, watchVars>>
Next == Watched(Watch!Next) \/ Profiled(Profile!Next)

Spec == Init /\ [][Next]_vars

(* Of the watchdog: it is scheduled, a process that obeys SIGTERM exits,   *)
(* and time passes.  Of the profiler: close(), once called, is scheduled,  *)
(* and time passes; nothing of the heartbeat thread and the workers.       *)
FairSpec ==
    /\ Spec
    /\ WF_vars(Watched(Watch!Watchdog))
    /\ SF_vars(Watched(Watch!Tick))
    /\ \A p \in Watch!Processes : WF_vars(Watched(Watch!Obeys(p)))
    /\ WF_vars(Profiled(Profile!Seal \/ Profile!WriteTrace \/ Profile!WriteSummary))
    /\ WF_vars(Profiled(Profile!Tick))

-----------------------------------------------------------------------------
(* The commands under a profiler: every level, every set of processes that *)
(* ignores SIGTERM; and one without.                                       *)
Groups == {{"leader"}, {"leader", "child"}}
Under ==
    {c \in [profiled : {TRUE}, level : {"off", "basic", "strict"}, minEvents : {1, 2},
            group : Groups, deaf : SUBSET {"leader", "child"}, prompt : BOOLEAN] :
        /\ c.deaf \subseteq c.group
        /\ c.minEvents = 2 \/ c.level = "off" => c.deaf = {}
        /\ c.level # "strict" => c.minEvents = 1
        /\ c.prompt => c.level = "strict" /\ c.deaf = {}}
Alone ==
    [profiled : {FALSE}, level : {"basic"}, minEvents : {1}, group : Groups, deaf : {{}},
     prompt : {FALSE}]
AllCommands == Under \cup Alone

(* Two threads of two spans each at most, one of them perhaps a subprocess, *)
(* and one thread with a subprocess inside a span; the run with prompt      *)
(* beats is also the one that is interrupted.                               *)
ARun(level, prompt, threads, room) ==
    [level |-> level, prompt |-> prompt, interrupts |-> prompt,
     threads |-> threads, room |-> room]
AllRuns == {ARun("detailed", FALSE, {"w1", "w2"}, 3), ARun("basic", FALSE, {"w1"}, 4), ARun("detailed", FALSE, {"w1"}, 3),
            ARun("detailed", TRUE, {"w1"}, 3)}

-----------------------------------------------------------------------------
(* What a command that returns hands over is whole, and one that is given  *)
(* up leaves no running leader, nor a group behind a leader that had to be *)
(* killed (run_subprocess_with_liveness, _kill_process_tree).  A child may *)
(* go on with its pipes closed, or after a leader that went by itself.     *)
EndsClean == part = "watchdog" => Watch!EndsClean
(* A command is given up for what it did: it ran past the cap, or no       *)
(* process of it wrote for a whole stall window (lines 158 to 205).        *)
GivenUpForCause == part = "watchdog" => Watch!GivenUpForCause
(* Under a profiler, with the watchdog on, every command ends: one that    *)
(* hangs, prints for ever or leaves a child with its pipes included.       *)
CappedRunEnds == (part = "watchdog" /\ run.profiled /\ Watch!Enabled /\ ~run.prompt) ~> (part = "watchdog" => Watch!Ended)
(* The run's clocks stay in bounds, no span is left inside a finished one, *)
(* and no child of a subprocess_run that returned, failed or timed out is  *)
(* left running; an interrupted one leaves it (RunProfiler.span,           *)
(* RunProfiler.subprocess_run).                                            *)
NothingLeftBehind == part = "profiler" => Profile!NothingLeftBehind
(* What close() writes is one consistent picture of the run, as far as the *)
(* threads let it (RunProfiler.close).                                     *)
TraceIsWhole == part = "profiler" => Profile!TraceIsWhole
(* Detailed, a run in which nothing happened for longer than the threshold *)
(* and one beat has its stall warning, if beats come when they are due.    *)
StallIsReported == part = "profiler" => Profile!StallIsReported
(* close() ends, whatever the heartbeat thread and the workers do.         *)
CloseEnds == (part = "profiler" /\ closing = "joining") ~> (part = "profiler" => closing = "closed")
=============================================================================
