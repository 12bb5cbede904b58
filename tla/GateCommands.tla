---------------------------- MODULE GateCommands ----------------------------
(***************************************************************************)
(* The commands of script_runtime_commands.py that run other commands and  *)
(* leave reports behind: the CI gate, the performance smoke check and the  *)
(* freshness check.  They are run one after the other over the same files, *)
(* a command may be killed between any two steps, and a program may fail   *)
(* to start.                                                               *)
(***************************************************************************)
EXTENDS Integers, Sequences

CONSTANTS
    Steps,     \* number of steps of the gate
    Codes,     \* exit codes of the programs it runs
    Timings,   \* names of the timing files of the smoke check
    MaxRuns    \* bound on the commands that are run

GateAssumption ==
    /\ {Steps, MaxRuns} \subseteq Nat \ {0}
    /\ Codes \subseteq Int /\ 0 \in Codes
    /\ Timings \cap {"summary", "trace", "page", "perf", "freshness"} = {}

Commands ==
    [name : {"gate"}, failFast : BOOLEAN, continue : BOOLEAN, env : BOOLEAN, profile : {"off", "basic"}]
    \cup [name : {"perf"}, strict : BOOLEAN, compareOnly : BOOLEAN]
    \cup [name : {"freshness"}, strict : BOOLEAN]

ReportFiles == {"summary", "trace", "page", "perf", "freshness"} \cup Timings

VARIABLES
    runs,      \* commands run so far, the present one included
    cmd,       \* the present command
    pc,        \* where it is
    rows,      \* its rows, one per step
    firstFailure, \* first_failure_step: 0, or the index of a step
    problem,   \* perf, freshness: something was found
    exit,      \* exit code, or how it ended
    disk       \* file -> [run, status] of the run that wrote it; run 0: absent

vars == <<runs, cmd, pc, rows, firstFailure, problem, exit, disk>>

Code(c) == <<"exit", c>>
Raised == <<"raised", 1>>
KilledExit == <<"killed", 1>>
NoExit == <<"none", 0>>

Put(file, status) == [disk EXCEPT ![file] = [run |-> runs, status |-> status]]

-----------------------------------------------------------------------------
(* The CI gate.                                                             *)

FailFast ==
    \/ cmd.failFast
    \/ cmd.env /\ ~cmd.continue

(* Slip: only a later failure stops the gate. *)
StopsNever == FALSE
Aborted == FailFast /\ firstFailure # 0

SkipStep ==
    /\ pc = "steps" /\ Len(rows) < Steps
    /\ Aborted
    /\ rows' = Append(rows, [status |-> "skipped", code |-> 0, by |-> firstFailure])
    /\ UNCHANGED <<runs, cmd, pc, firstFailure, problem, exit, disk>>

FirstFailure(code) == IF code # 0 /\ firstFailure = 0 THEN Len(rows) + 1 ELSE firstFailure
PositiveFails(code) == IF code > 0 THEN "fail" ELSE "pass"
StepStatus(code) == IF code = 0 THEN "pass" ELSE "fail"

RunStep ==
    /\ pc = "steps" /\ Len(rows) < Steps
    /\ ~Aborted
    /\ \E code \in Codes :
        /\ rows' = Append(rows, [status |-> StepStatus(code), code |-> code, by |-> 0])
        /\ firstFailure' = FirstFailure(code)
    /\ UNCHANGED <<runs, cmd, pc, problem, exit, disk>>

(* The program does not start: the error leaves the command. *)
StepRaises ==
    /\ pc = "steps" /\ Len(rows) < Steps
    /\ ~Aborted
    /\ exit' = Raised
    /\ pc' = "ended"
    /\ UNCHANGED <<runs, cmd, rows, firstFailure, problem, disk>>

Verdict == \A i \in 1 .. Len(rows) : rows[i].status = "pass"

(* Slip: a gate that ends with the code of a signal leaves no trace. *)
TraceIfPositive(code) == code > 0 /\ cmd.profile # "off"
NeedsTrace(code) == code # 0 /\ cmd.profile # "off"

(* next(..., 1): the code of the first step that has one other than 0.     *)
FirstCode ==
    LET failed == {i \in 1 .. Len(rows) : rows[i].code # 0}
    IN  IF failed = {} THEN 1 ELSE rows[CHOOSE i \in failed : \A j \in failed : i <= j].code

GateSummary ==
    /\ pc = "steps" /\ Len(rows) = Steps
    /\ disk' = Put("summary", IF Verdict THEN "pass" ELSE "fail")
    /\ exit' = Code(IF Verdict THEN 0 ELSE FirstCode)
    /\ pc' = IF NeedsTrace(exit'[2]) THEN "trace" ELSE "ended"
    /\ UNCHANGED <<runs, cmd, rows, firstFailure, problem>>

(* Slip: the page is written before the trace. *)
PageFirst ==
    /\ pc = "trace"
    /\ disk' = Put("page", "fail")
    /\ pc' = "page"
    /\ UNCHANGED <<runs, cmd, rows, firstFailure, problem, exit>>

(* _write_fail_profile_artifacts: the trace, then its page. *)
GateTrace ==
    /\ pc = "trace"
    /\ disk' = Put("trace", "fail")
    /\ pc' = "page"
    /\ UNCHANGED <<runs, cmd, rows, firstFailure, problem, exit>>

GatePage ==
    /\ pc = "page"
    /\ disk' = Put("page", "fail")
    /\ pc' = "ended"
    /\ UNCHANGED <<runs, cmd, rows, firstFailure, problem, exit>>

Gate == SkipStep \/ RunStep \/ StepRaises \/ GateSummary \/ GateTrace \/ GatePage

-----------------------------------------------------------------------------
(* The performance smoke check.                                             *)

(* The program writes its timing file when it comes to its end; one that   *)
(* fails may have written it or not.                                       *)
PerfProgram(t) ==
    /\ pc = "perf" /\ cmd.name = "perf"
    /\ ~cmd.compareOnly
    /\ t \in Timings /\ disk[t].run # runs
    /\ \E code \in Codes :
        \/ /\ code = 0
           /\ disk' = Put(t, "pass")
           /\ UNCHANGED <<pc, exit>>
        \/ /\ code # 0
           /\ disk' \in {disk, Put(t, "fail")}
           /\ exit' = Code(code)
           /\ pc' = "ended"
    /\ UNCHANGED <<runs, cmd, rows, firstFailure, problem>>

TimingsReady == cmd.compareOnly \/ \A t \in Timings : disk[t].run = runs

(* A timing, a baseline or the notes are missing or malformed.             *)
PerfUnreadable ==
    /\ pc = "perf" /\ cmd.name = "perf"
    /\ TimingsReady
    /\ exit' = Raised
    /\ pc' = "ended"
    /\ UNCHANGED <<runs, cmd, rows, firstFailure, problem, disk>>

(* A regression, or a baseline that its note does not know, is a problem.  *)
PerfCompare ==
    /\ pc = "perf" /\ cmd.name = "perf"
    /\ TimingsReady
    /\ \A t \in Timings : disk[t].run # 0
    /\ problem' \in BOOLEAN
    /\ pc' = "report"
    /\ UNCHANGED <<runs, cmd, rows, firstFailure, exit, disk>>

ReportFails == problem /\ cmd.strict

PerfReport ==
    /\ pc = "report" /\ cmd.name = "perf"
    /\ disk' = Put("perf", IF ~problem THEN "pass" ELSE IF cmd.strict THEN "fail" ELSE "warn")
    /\ exit' = Code(IF ReportFails THEN 1 ELSE 0)
    /\ pc' = "ended"
    /\ UNCHANGED <<runs, cmd, rows, firstFailure, problem>>

-----------------------------------------------------------------------------
(* The freshness check: its searches, the nested docs check, the report.   *)

FreshnessSearches ==
    /\ pc = "fresh"
    /\ \/ problem' \in BOOLEAN /\ pc' = "docs" /\ UNCHANGED exit
       \/ exit' = Raised /\ pc' = "ended" /\ UNCHANGED problem    \* a file cannot be read
    /\ UNCHANGED <<runs, cmd, rows, firstFailure, disk>>

DocsCheck ==
    /\ pc = "docs"
    /\ \E found \in BOOLEAN : problem' = (problem \/ found)
    /\ pc' = "report"
    /\ UNCHANGED <<runs, cmd, rows, firstFailure, exit, disk>>

FreshnessReport ==
    /\ pc = "report" /\ cmd.name = "freshness"
    /\ disk' = Put("freshness", IF problem THEN "fail" ELSE "pass")
    /\ exit' = Code(IF ReportFails THEN 1 ELSE 0)
    /\ pc' = "ended"
    /\ UNCHANGED <<runs, cmd, rows, firstFailure, problem>>

-----------------------------------------------------------------------------
Killed ==
    /\ pc \notin {"idle", "ended"}
    /\ exit' = KilledExit
    /\ pc' = "ended"
    /\ UNCHANGED <<runs, cmd, rows, firstFailure, problem, disk>>

Entry == [gate |-> "steps", perf |-> "perf", freshness |-> "fresh"]

Start(c) ==
    /\ pc \in {"idle", "ended"}
    /\ runs < MaxRuns
    /\ runs' = runs + 1
    /\ cmd' = c
    /\ pc' = Entry[c.name]
    /\ rows' = << >> /\ firstFailure' = 0 /\ problem' = FALSE
    /\ exit' = NoExit
    /\ UNCHANGED disk

Over == pc = "ended" /\ runs = MaxRuns /\ UNCHANGED vars

Init ==
    /\ runs = 0
    /\ cmd \in {c \in Commands : c.name = "freshness" /\ c.strict}
    /\ pc = "idle"
    /\ rows = << >> /\ firstFailure = 0 /\ problem = FALSE
    /\ exit = NoExit
    /\ disk = [f \in ReportFiles |-> [run |-> 0, status |-> "none"]]

Next ==
    \/ \E c \in Commands : Start(c)
    \/ Gate
    \/ \E t \in Timings : PerfProgram(t)
    \/ PerfUnreadable \/ PerfCompare \/ PerfReport
    \/ FreshnessSearches \/ DocsCheck \/ FreshnessReport
    \/ Killed \/ Over

Spec == Init /\ [][Next]_vars

-----------------------------------------------------------------------------
Ended == pc = "ended" /\ exit[1] = "exit"
Row == [status : {"pass", "fail", "skipped"}, code : Codes, by : 0 .. Steps]

(* One row per step, files of runs that were made (ci_gate_summary_main,   *)
(* perf_smoke_main, check_docs_freshness_main).                            *)
TypeOK ==
    /\ runs \in 0 .. MaxRuns
    /\ cmd \in Commands
    /\ pc \in {"idle", "steps", "trace", "page", "perf", "fresh", "docs", "report", "ended"}
    /\ rows \in Seq(Row) /\ Len(rows) <= Steps
    /\ firstFailure \in 0 .. Len(rows)
    /\ problem \in BOOLEAN
    /\ exit \in ({"exit"} \X Codes) \cup ({"exit"} \X {1}) \cup {Raised, KilledExit, NoExit}
    /\ \A f \in ReportFiles : disk[f].run \in 0 .. runs

(* Under fail-fast no step runs after one that failed, whatever options    *)
(* chose fail-fast: every later row is skipped and names that step; without *)
(* it every step runs.                                                     *)
NothingRunsAfterTheFailure ==
    cmd.name = "gate" =>
        \A i, j \in 1 .. Len(rows) :
            i < j /\ rows[i].status = "fail" =>
                IF cmd.failFast \/ (cmd.env /\ ~cmd.continue)
                THEN rows[j].status = "skipped" /\ rows[j].by = i
                ELSE rows[j].status # "skipped"

(* The exit code of a gate that came to its end is that of the first step  *)
(* that did not exit with 0, also one that died of a signal, and 0 only    *)
(* when every step ran and passed.                                         *)
ExitIsFirstFailure ==
    Ended /\ cmd.name = "gate" =>
        LET failed == {i \in 1 .. Steps : rows[i].code # 0 \/ rows[i].status # "pass"}
        IN  IF failed = {} THEN exit = Code(0)
            ELSE exit = Code(rows[CHOOSE i \in failed : \A j \in failed : i <= j].code)
                 /\ exit # Code(0)

(* A command that came to its end left the reports of this very run, and   *)
(* they say what its exit code says: a failing gate that profiles left its *)
(* trace and page too, and a problem fails the other two in strict mode    *)
(* only.                                                                   *)
ReportsAreOfThisRun ==
    Ended =>
        CASE cmd.name = "gate" ->
               /\ disk["summary"] = [run |-> runs, status |-> IF exit = Code(0) THEN "pass" ELSE "fail"]
               /\ exit # Code(0) /\ cmd.profile # "off" => {disk["trace"].run, disk["page"].run} = {runs}
          [] cmd.name = "freshness" ->
               /\ disk["freshness"] = [run |-> runs, status |-> IF problem THEN "fail" ELSE "pass"]
               /\ exit = Code(IF problem /\ cmd.strict THEN 1 ELSE 0)
          [] OTHER ->
               \/ /\ disk["perf"].run = runs
                  /\ exit = Code(0) <=> disk["perf"].status # "fail"
               \/ /\ exit # Code(0)
                  /\ \E t \in Timings : disk[t].run < runs \/ disk[t].status = "fail"

(* The smoke check compares timings of its own run, unless it was told to  *)
(* compare what is there.                                                  *)
PerfComparesItsOwnRun ==
    cmd.name = "perf" /\ pc = "report" /\ ~cmd.compareOnly =>
        \A t \in Timings : disk[t] = [run |-> runs, status |-> "pass"]

(* A trace never is newer than the summary it belongs to: a reader who     *)
(* finds a trace of a run finds the summary of that run or a later one,    *)
(* also after a kill between two writes.                                   *)
TraceHasItsSummary ==
    /\ disk["page"].run <= disk["trace"].run
    /\ disk["trace"].run <= disk["summary"].run
=============================================================================
