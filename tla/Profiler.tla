------------------------------ MODULE Profiler ------------------------------
(***************************************************************************)
(* One RunProfiler: worker threads that open and finish spans and run      *)
(* subprocesses, the heartbeat thread, the watcher that only appends       *)
(* events, and close(), which seals the payload under the lock and writes  *)
(* it without.  Every block under the lock is one step.                    *)
(***************************************************************************)
EXTENDS Naturals, Sequences, SequencesExt, FiniteSets

CONSTANTS
    Workers,    \* threads that run under the profiler
    MaxSpans,   \* bound on the spans of a run
    Runs,       \* the runs to start with
    Beat,       \* heartbeat interval, in ticks
    Stall,      \* stall threshold, in ticks
    JoinLimit   \* close() waits so long for the heartbeat thread, in ticks

ProfilerAssumption ==
    /\ {MaxSpans, Beat, Stall, JoinLimit} \subseteq Nat \ {0}
    /\ Runs \subseteq [level : {"basic", "detailed"}, prompt : BOOLEAN, interrupts : BOOLEAN,
                      threads : SUBSET Workers, room : 1 .. MaxSpans]

VARIABLES
    run,      \* the level; whether a beat that is due comes first, and whether
              \* anybody interrupts it; its threads
    spans,    \* span id -> [parent, open, status]
    warned,   \* _stall_emitted: the stall warning is among the events
    stack,    \* worker -> the spans it is inside, innermost last
    doing,    \* worker -> where it is
    child,    \* worker -> its last subprocess: none, running, exited, or left running
    idle,     \* ticks since _mark_progress
    quiet,    \* ticks since a worker or the watcher did something
    beat,     \* the heartbeat thread: off, waiting, late (past wait()), done
    due,      \* ticks to the next beat
    closing,  \* where close() is
    joined,   \* ticks spent in join()
    trace     \* what close() sealed and wrote

vars == <<run, spans, warned, stack, doing, child, idle, quiet, beat, due, closing,
          joined, trace>>
workers == <<stack, doing, child>>
clocks == <<due, joined>>

Root == 1
Detailed == run.level = "detailed"
Open == {s \in 1 .. Len(spans) : spans[s].open}
Least(a, b) == IF a < b THEN a ELSE b

(* What _summary counts. *)
Summary == [spans |-> Len(spans), open |-> Cardinality(Open), warned |-> warned]

(* Whether an event joins a list that was sealed and is not yet on disk. *)
Grow == trace' = IF closing = "sealed" THEN [trace EXCEPT !.grown = TRUE] ELSE trace

Progress == idle' = 0 /\ quiet' = 0

-----------------------------------------------------------------------------
(* Spans.                                                                   *)

NextSpanId == Len(spans) + 1

StartSpan(w, parent) ==
    /\ spans' = Append(spans, [parent |-> parent, open |-> TRUE, status |-> "ok"])
    /\ stack' = [stack EXCEPT ![w] = Append(@, NextSpanId)]
    /\ Progress

FinishSpan(sid, status) ==
    /\ spans' = IF spans[sid].open
                THEN [spans EXCEPT ![sid].open = FALSE, ![sid].status = status]
                ELSE spans
    /\ Progress

(* A caller names the span it is inside as the parent, or none. *)
Parents(w) == {0} \cup (IF stack[w] = << >> THEN {} ELSE {Last(stack[w])})

(* Bound: n more spans, and the wait spans of the subprocesses under way. *)
RoomFor(n) ==
    Len(spans) + n + Cardinality({w \in Workers : doing[w] \in {"popen", "spawned"}}) <= run.room

Enter(w) ==
    /\ doing[w] = "code" /\ RoomFor(1)
    /\ \E p \in Parents(w) : StartSpan(w, p)
    /\ UNCHANGED <<run, warned, doing, child, beat, clocks, closing, trace>>

(* Slip: only ordinary exceptions finish the span. *)
LeaveOpen(w) == UNCHANGED <<spans, idle, quiet>>
FinishOnError(w) == FinishSpan(Last(stack[w]), "error")

Leave(w) ==
    /\ doing[w] = "code"
    /\ stack[w] # << >>
    /\ FinishSpan(Last(stack[w]), "ok")
    /\ stack' = [stack EXCEPT ![w] = Front(@)]
    /\ UNCHANGED <<run, warned, doing, child, beat, clocks, closing, trace>>

Raise(w) ==
    /\ doing[w] = "code"
    /\ doing' = [doing EXCEPT ![w] = "raising"]
    /\ UNCHANGED <<run, spans, warned, stack, child, idle, quiet, beat, clocks, closing, trace>>

(* An exception finishes the innermost span; the caller may catch it there. *)
Unwind(w) ==
    /\ doing[w] = "raising"
    /\ stack[w] # << >>
    /\ FinishOnError(w)
    /\ stack' = [stack EXCEPT ![w] = Front(@)]
    /\ \E next \in {"raising", "code"} : doing' = [doing EXCEPT ![w] = next]
    /\ UNCHANGED <<run, warned, child, beat, clocks, closing, trace>>

(* The thread ends, or its exception has left every span. *)
WorkerDone(w) ==
    /\ doing[w] \in {"code", "raising"}
    /\ stack[w] = << >>
    /\ doing' = [doing EXCEPT ![w] = "done"]
    /\ UNCHANGED <<run, spans, warned, stack, child, idle, quiet, beat, clocks, closing, trace>>

-----------------------------------------------------------------------------
(* subprocess_run                                                           *)

SubprocessStart(w) ==
    /\ doing[w] = "code" /\ RoomFor(2)
    /\ \E p \in Parents(w) : StartSpan(w, p)
    /\ doing' = [doing EXCEPT ![w] = "popen"]
    /\ UNCHANGED <<run, warned, child, beat, clocks, closing, trace>>

Popen(w) ==
    /\ doing[w] = "popen"
    /\ \/ /\ child' = [child EXCEPT ![w] = "running"]      \* and its "spawned" event
          /\ doing' = [doing EXCEPT ![w] = "spawned"]
          /\ Progress /\ Grow
       \/ /\ doing' = [doing EXCEPT ![w] = "raising"]
          /\ UNCHANGED <<child, idle, quiet, trace>>
    /\ UNCHANGED <<run, spans, warned, stack, beat, clocks, closing>>

OpenWait(w) ==
    /\ doing[w] = "spawned"
    /\ StartSpan(w, Last(stack[w]))
    /\ doing' = [doing EXCEPT ![w] = "waiting"]
    /\ UNCHANGED <<run, warned, child, beat, clocks, closing, trace>>

ChildExits(w) ==
    /\ child[w] = "running"
    /\ child' = [child EXCEPT ![w] = "exited"]
    /\ UNCHANGED <<run, spans, warned, stack, doing, idle, quiet, beat, clocks, closing, trace>>

Communicated(w) ==
    /\ doing[w] = "waiting" /\ child[w] = "exited"
    /\ FinishSpan(Last(stack[w]), "ok")
    /\ stack' = [stack EXCEPT ![w] = Front(@)]
    /\ doing' = [doing EXCEPT ![w] = "exit"]
    /\ UNCHANGED <<run, warned, child, beat, clocks, closing, trace>>

(* io.read and exit events; a return code that was to be checked raises. *)
Returned(w) ==
    /\ doing[w] = "exit"
    /\ Progress /\ Grow
    /\ \/ /\ doing' = [doing EXCEPT ![w] = "raising"]
          /\ UNCHANGED <<spans, stack>>
       \/ /\ doing' = [doing EXCEPT ![w] = "code"]
          /\ spans' = [spans EXCEPT ![Last(stack[w])].open = FALSE]
          /\ stack' = [stack EXCEPT ![w] = Front(@)]
    /\ child' = [child EXCEPT ![w] = "none"]
    /\ UNCHANGED <<run, warned, beat, clocks, closing>>

(* The timeout can come when the child has just exited. *)
TimedOut(w) ==
    /\ doing[w] = "waiting"
    /\ doing' = [doing EXCEPT ![w] = "timeout"]           \* and two events
    /\ Progress /\ Grow
    /\ UNCHANGED <<run, spans, warned, stack, child, beat, clocks, closing>>

(* Slip: the timeout is raised and the child left alone. *)
LeaveChild(w) == UNCHANGED child
KillChild(w) == child' = [child EXCEPT ![w] = "none"]

(* kill(), its event, the two seconds of communicate() and the raise. *)
Kill(w) ==
    /\ doing[w] = "timeout"
    /\ KillChild(w)
    /\ Progress /\ Grow
    /\ doing' = [doing EXCEPT ![w] = "raising"]
    /\ UNCHANGED <<run, spans, warned, stack, beat, clocks, closing>>

(* An interrupt, in communicate() as a rule, is no TimeoutExpired: nobody   *)
(* kills the child, and one that still runs is left to itself.  What       *)
(* becomes of it then is not followed.                                     *)
Interrupted(w) ==
    /\ run.interrupts
    /\ doing[w] \in {"spawned", "waiting", "timeout"}
    /\ child' = [child EXCEPT ![w] = IF @ = "running" THEN "left" ELSE @]
    /\ doing' = [doing EXCEPT ![w] = "raising"]
    /\ UNCHANGED <<run, spans, warned, stack, idle, quiet, beat, clocks, closing, trace>>

Subprocess(w) ==
    \/ SubprocessStart(w) \/ Popen(w) \/ OpenWait(w) \/ ChildExits(w)
    \/ Communicated(w) \/ Returned(w) \/ TimedOut(w) \/ Kill(w) \/ Interrupted(w)

Worker(w) == Enter(w) \/ Leave(w) \/ Raise(w) \/ Unwind(w) \/ WorkerDone(w) \/ Subprocess(w)

(* event() of a thread that watches the others: progress like any event. *)
WatcherEvent ==
    /\ closing = "no"
    /\ Progress
    /\ UNCHANGED <<run, spans, warned, workers, beat, clocks, closing, trace>>

-----------------------------------------------------------------------------
(* The heartbeat thread.                                                    *)

WakeUp ==
    /\ beat = "waiting"
    /\ \/ closing # "no" /\ beat' = "done"
       \/ closing = "no" /\ due = 0 /\ beat' = "late"
    /\ UNCHANGED <<run, spans, warned, workers, idle, quiet, clocks, closing, trace>>

(* Slip: the heartbeat event is progress. *)
BeatIsProgress == idle' = 0
BeatProgress == UNCHANGED idle

Heartbeat ==
    /\ beat = "late"
    /\ warned' = (warned \/ idle > Stall)
    /\ beat' = "waiting"
    /\ due' = Beat
    /\ BeatProgress /\ Grow
    /\ UNCHANGED <<run, spans, workers, quiet, closing, joined>>

-----------------------------------------------------------------------------
(* close()                                                                  *)

CloseStarts ==
    /\ closing = "no"
    /\ closing' = "joining"
    /\ UNCHANGED <<run, spans, warned, workers, idle, quiet, beat, clocks, trace>>

(* Slip: close() waits for the heartbeat thread without limit. *)
JoinUnlimited == beat \in {"off", "done"}
JoinOver == beat \in {"off", "done"} \/ joined >= JoinLimit

FinishRoot == FinishSpan(Root, "ok")

(* Every thread is through: the only case in which the trace can be whole. *)
Quiet == beat \in {"off", "done"} /\ \A w \in Workers : doing[w] = "done"

Seal ==
    /\ closing = "joining"
    /\ JoinOver
    /\ FinishRoot
    /\ UNCHANGED <<run, warned, workers, beat, clocks>>
    /\ trace' = [trace EXCEPT !.summary = Summary', !.quiet = Quiet]
    /\ closing' = "sealed"

(* The payload holds the live lists: they are written as they are now. *)
WriteTrace ==
    /\ closing = "sealed"
    /\ trace' = [trace EXCEPT !.spans = spans]
    /\ closing' = "written"
    /\ UNCHANGED <<run, spans, warned, workers, idle, quiet, beat, clocks>>

(* The summary file counts once more, outside the lock. *)
WriteSummary ==
    /\ closing = "written"
    /\ trace' = [trace EXCEPT !.page = Summary]
    /\ closing' = "closed"
    /\ UNCHANGED <<run, spans, warned, workers, idle, quiet, beat, clocks>>

Close == CloseStarts \/ Seal \/ WriteTrace \/ WriteSummary

-----------------------------------------------------------------------------
Urgent == run.prompt /\ closing = "no" /\ beat \in {"waiting", "late"} /\ due = 0

Tick ==
    /\ closing \in {"no", "joining"}
    /\ ~Urgent
    /\ IF closing = "joining"
       THEN joined' = Least(joined + 1, JoinLimit) /\ UNCHANGED <<idle, quiet, due>>
       ELSE /\ idle' = Least(idle + 1, Stall + Beat + 1)
            /\ quiet' = Least(quiet + 1, Stall + Beat + 1)
            /\ due' = IF due > 0 THEN due - 1 ELSE 0
            /\ UNCHANGED joined
    /\ UNCHANGED <<run, spans, warned, workers, beat, closing, trace>>

Finished ==
    /\ closing = "closed"
    /\ \A w \in Workers : doing[w] = "done"
    /\ UNCHANGED vars

NoSummary == [spans |-> 0, open |-> 0, warned |-> FALSE]

Init ==
    /\ run \in Runs
    /\ spans = <<[parent |-> 0, open |-> TRUE, status |-> "ok"]>>
    /\ warned = FALSE
    /\ stack = [w \in Workers |-> << >>]
    /\ doing = [w \in Workers |-> IF w \in run.threads THEN "code" ELSE "done"]
    /\ child = [w \in Workers |-> "none"]
    /\ idle = 0 /\ quiet = 0 /\ due = Beat /\ joined = 0
    /\ beat = IF Detailed THEN "waiting" ELSE "off"
    /\ closing = "no"
    /\ trace = [summary |-> NoSummary, spans |-> << >>, page |-> NoSummary, grown |-> FALSE,
                quiet |-> FALSE]

Next ==
    \/ \E w \in Workers : Worker(w)
    \/ WatcherEvent \/ WakeUp \/ Heartbeat \/ Close \/ Tick \/ Finished

Spec == Init /\ [][Next]_vars

(* close(), once called, is scheduled, and time passes.  Nothing is assumed *)
(* of the heartbeat thread and of the workers.                              *)
FairSpec == Spec /\ WF_vars(Seal \/ WriteTrace \/ WriteSummary) /\ WF_vars(Tick)

-----------------------------------------------------------------------------
SpanIds == 1 .. MaxSpans
Statuses == {"ok", "error"}
Places == {"code", "raising", "popen", "spawned", "waiting", "exit", "timeout", "done"}
Count == [spans : 0 .. MaxSpans, open : 0 .. MaxSpans, warned : BOOLEAN]
Span == [parent : 0 .. MaxSpans, open : BOOLEAN, status : Statuses]

(* Spans point back to earlier spans, a thread's stack holds its own, and  *)
(* the clocks stay within their bounds (RunProfiler.__init__).             *)
TypeOK ==
    /\ run \in Runs
    /\ spans \in Seq(Span) /\ Len(spans) \in SpanIds
    /\ \A s \in 1 .. Len(spans) : spans[s].parent < s
    /\ warned \in BOOLEAN
    /\ \A w \in Workers : stack[w] \in Seq(1 .. Len(spans))
    /\ doing \in [Workers -> Places]
    /\ child \in [Workers -> {"none", "running", "exited", "left"}]
    /\ {idle, quiet} \subseteq 0 .. Stall + Beat + 1
    /\ beat \in {"off", "waiting", "late", "done"}
    /\ due \in 0 .. Beat /\ joined \in 0 .. JoinLimit
    /\ closing \in {"no", "joining", "sealed", "written", "closed"}
    /\ trace.summary \in Count /\ trace.page \in Count /\ {trace.grown, trace.quiet} \subseteq BOOLEAN

(* A span other than the run's is finished after every span inside it, on  *)
(* every path out of it: return, exception, timeout of a subprocess.       *)
SpansNest ==
    \A s \in 1 .. Len(spans) :
        ~spans[s].open /\ s # Root => \A t \in Open : spans[t].parent # s

(* A child runs only while subprocess_run has it in hand, unless the call  *)
(* was interrupted: one that timed out, failed or returned has none.       *)
NoChildLeft ==
    \A w \in Workers :
        child[w] = "running" => doing[w] \in {"spawned", "waiting", "timeout"}

(* Nothing a run measured is left behind: no clock out of its bounds, no   *)
(* span inside a finished one, no child of a call that was not interrupted. *)
NothingLeftBehind == TypeOK /\ SpansNest /\ NoChildLeft

(* When every thread is through before the seal, the heartbeat thread       *)
(* joined, the trace is whole: nothing open, nothing added after the       *)
(* counts, and both artefacts count what the trace holds.                  *)
QuietTraceIsWhole ==
    closing = "closed" /\ trace.quiet =>
        /\ \A s \in 1 .. Len(trace.spans) : ~trace.spans[s].open
        /\ Len(trace.spans) = trace.summary.spans
        /\ trace.page = trace.summary
        /\ ~trace.grown

(* The span of the run is finished in every trace, and spans that are open *)
(* in it belong to threads that were still at work when it was sealed.     *)
TraceOpenSpansAreAtWork ==
    closing = "closed" =>
        /\ ~trace.spans[Root].open
        /\ \A s \in Open : \E w \in Workers : s \in ToSet(stack[w])

(* What close() writes is one consistent picture of the run, as far as the  *)
(* threads let it.                                                         *)
TraceIsWhole == QuietTraceIsWhole /\ TraceOpenSpansAreAtWork

(* At the detailed level a run in which nothing happened for longer than   *)
(* the threshold and one beat has its stall warning, as long as beats come *)
(* when they are due: a heartbeat is no sign of progress.                  *)
StallIsReported ==
    run.prompt /\ Detailed /\ closing = "no" /\ quiet > Stall + Beat => warned

(* close() ends, whatever the heartbeat thread and the workers do: the     *)
(* join has a limit.                                                       *)
CloseEnds == closing = "joining" ~> closing = "closed"
=============================================================================
