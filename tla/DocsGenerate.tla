---------------------------- MODULE DocsGenerate ----------------------------
(***************************************************************************)
(* docs_generate_specs.py: the docs.generate cases are handed to run_case  *)
(* by a pool of threads, and the command leaves a trace and three reports. *)
(* docs.generate is in no table of runners, so run_case raises for every   *)
(* case and what would render a page is never reached: it is not modelled. *)
(***************************************************************************)
EXTENDS Naturals, FiniteSets

CONSTANTS
    MaxSelected, \* docs.generate cases that may be selected, at most
    MaxWorkers   \* --jobs, at most

DocsGenerateAssumption == MaxSelected \in Nat /\ MaxWorkers \in Nat \ {0}

VARIABLES
    asked,     \* whether --surface was given
    traced,    \* whether the profile level is not off
    workers,   \* threads of the pool
    selected,  \* number of cases that were selected
    job,       \* case -> queued, running, pass, fail, raised
    raised,    \* whether an exception is on its way out of the command
    disk,      \* file the command writes -> old, pass, fail
    pc,        \* start, pool, drain, trace, report, summary, timing, ended
    errors,    \* cases that failed, and UnknownSurface
    exit       \* none, 0, 1, raised

vars == <<asked, traced, workers, selected, job, raised, disk, pc, errors, exit>>
options == <<asked, traced, workers, selected>>

Outputs == {"trace", "report", "summary", "timing"}
UnknownSurface == 0
Jobs == 1 .. selected
Running == {s \in Jobs : job[s] = "running"}
DocsType == "docs.generate"

(* default_type_runners; the command passes no runner of its own.          *)
(* Slip: a runner for docs.generate. *)
WithDocs == {"contract.check", "contract.export", "contract.job", DocsType}
Runners == {"contract.check", "contract.export", "contract.job"}

-----------------------------------------------------------------------------
(* A path of cases that is not there ends the command before the profiler  *)
(* and the reports; so does a file that cannot be loaded, with an error.   *)
MissingCases ==
    /\ pc = "start"
    /\ exit' = "1" /\ pc' = "ended"
    /\ UNCHANGED <<options, job, raised, disk, errors>>

LoadRaises ==
    /\ pc = "start"
    /\ exit' = "raised" /\ pc' = "ended"
    /\ UNCHANGED <<options, job, raised, disk, errors>>

(* Nothing selected is an error only when a surface was asked for. *)
Select ==
    /\ pc = "start"
    /\ errors' = IF asked /\ selected = 0 THEN {UnknownSurface} ELSE {}
    /\ pc' = "pool"
    /\ UNCHANGED <<options, job, raised, disk, exit>>

-----------------------------------------------------------------------------
(* The pool, which takes the cases in order; one case runs without a pool. *)
Start(s) ==
    /\ pc = "pool" /\ job[s] = "queued" /\ \A x \in 1 .. s - 1 : job[x] # "queued"
    /\ Cardinality(Running) < workers
    /\ job' = [job EXCEPT ![s] = "running"]
    /\ UNCHANGED <<options, raised, disk, pc, errors, exit>>

(* The directory of a case is made outside of the try. *)
MkdirRaises(s) ==
    /\ job[s] = "running"
    /\ job' = [job EXCEPT ![s] = "raised"]
    /\ UNCHANGED <<options, raised, disk, pc, errors, exit>>

RunCase(s) ==
    /\ job[s] = "running"
    /\ \E result \in IF DocsType \in Runners THEN {"pass", "fail"} ELSE {"fail"} :
          job' = [job EXCEPT ![s] = result]
    /\ UNCHANGED <<options, raised, disk, pc, errors, exit>>

-----------------------------------------------------------------------------
(* The command.                                                             *)
Ended(s) == job[s] \in {"pass", "fail"}
Failed == {s \in Jobs : job[s] = "fail"}

(* Slip: the results are not waited for. *)
NoneRuns == Running = {}
AllEnded == \A s \in Jobs : Ended(s)

(* Rows and errors of all cases, once the pool is closed. *)
Collect ==
    /\ pc = "pool" /\ AllEnded
    /\ errors' = errors \cup Failed
    /\ pc' = "trace"
    /\ UNCHANGED <<options, job, raised, disk, exit>>

(* The results are taken in order; the first case that raised, or an       *)
(* interrupt while the command waits, gives up those that still wait.      *)
CollectRaises ==
    /\ pc = "pool"
    /\ \E s \in Jobs : job[s] = "raised" /\ \A x \in 1 .. s - 1 : Ended(x)
    /\ raised' = TRUE /\ pc' = "drain"
    /\ UNCHANGED <<options, job, disk, errors, exit>>

Interrupted ==
    /\ pc = "pool"
    /\ raised' = TRUE /\ pc' = "drain"
    /\ UNCHANGED <<options, job, disk, errors, exit>>

(* Leaving the pool waits for the cases that run. *)
Drained ==
    /\ pc = "drain" /\ Running = {}
    /\ pc' = "trace"
    /\ UNCHANGED <<options, job, raised, disk, errors, exit>>

Verdict == IF errors = {} THEN "pass" ELSE "fail"

(* profiler.close, also when an exception is on its way: it then writes    *)
(* what the errors say, which were not collected.                          *)
CloseTrace ==
    /\ pc = "trace"
    /\ disk' = IF traced THEN [disk EXCEPT !["trace"] = Verdict] ELSE disk
    /\ IF raised THEN exit' = "raised" /\ pc' = "ended" ELSE pc' = "report" /\ UNCHANGED exit
    /\ UNCHANGED <<options, job, raised, errors>>

PayloadStatus == IF errors = {} /\ Failed = {} THEN "pass" ELSE "fail"

Save(output) ==
    /\ pc = output
    /\ disk' = [disk EXCEPT ![output] = PayloadStatus]
    /\ UNCHANGED <<options, job, raised, errors>>

WriteReport == Save("report") /\ pc' = "summary" /\ UNCHANGED exit
WriteSummary == Save("summary") /\ pc' = "timing" /\ UNCHANGED exit
WriteTiming ==
    /\ Save("timing") /\ pc' = "ended"
    /\ exit' = IF PayloadStatus = "pass" THEN "0" ELSE "1"

(* The disk is full, or the command is killed. *)
Breaks ==
    /\ pc \in Outputs
    /\ exit' = "raised" /\ pc' = "ended"
    /\ UNCHANGED <<options, job, raised, disk, errors>>

Stops == pc = "ended" /\ UNCHANGED vars

Init ==
    /\ asked \in BOOLEAN /\ traced \in BOOLEAN
    /\ workers \in 1 .. MaxWorkers
    /\ selected \in 0 .. MaxSelected
    /\ job = [s \in 1 .. MaxSelected |-> "queued"]
    /\ raised = FALSE
    /\ disk = [output \in Outputs |-> "old"]
    /\ pc = "start" /\ errors = {} /\ exit = "none"

Next ==
    \/ MissingCases \/ LoadRaises \/ Select
    \/ \E s \in Jobs : Start(s) \/ MkdirRaises(s) \/ RunCase(s)
    \/ Collect \/ CollectRaises \/ Interrupted \/ Drained
    \/ CloseTrace \/ WriteReport \/ WriteSummary \/ WriteTiming \/ Breaks \/ Stops

Spec == Init /\ [][Next]_vars

-----------------------------------------------------------------------------
(* Cases, errors and files of docs_generate_specs are what they may be.    *)
TypeOK ==
    /\ job \in [1 .. MaxSelected -> {"queued", "running", "pass", "fail", "raised"}]
    /\ disk \in [Outputs -> {"old", "pass", "fail"}]
    /\ errors \subseteq Jobs \cup {UnknownSurface}
    /\ Cardinality(Running) <= workers

(* A file of this run says what the files written before it say and what   *)
(* the cases came to, wherever the command breaks off: no report counts a  *)
(* case that has not ended, and no exit code differs from the reports.     *)
Written(output) == disk[output] # "old"
ReportsAgree ==
    /\ Written("summary") => disk["summary"] = disk["report"]
    /\ Written("timing") => disk["timing"] = disk["summary"]
    /\ Written("report") =>
         /\ traced => disk["trace"] = disk["report"]
         /\ AllEnded
         /\ disk["report"] = "pass" <=> Failed = {} /\ ~(asked /\ selected = 0)
    /\ exit = "0" => disk["timing"] = "pass"
    /\ exit = "1" => disk["timing"] = "fail" \/ \A output \in Outputs : ~Written(output)

(* The command passes only where there is nothing to do: no case of its    *)
(* type is ever run, since the dispatcher knows no runner for it           *)
(* (dispatcher.default_type_runners).                                      *)
PassesOnNothing == exit = "0" \/ disk["report"] = "pass" => selected = 0 /\ ~asked
=============================================================================
