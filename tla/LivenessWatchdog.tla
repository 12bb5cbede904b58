-------------------------- MODULE LivenessWatchdog --------------------------
(***************************************************************************)
(* A command run under the liveness watchdog: its leader process, one      *)
(* background child in the same process group, the pipes both write to,    *)
(* and the loop that reads them and gives the command up.  Both pipes are  *)
(* one stream of chunks; time is counted in ticks that saturate.           *)
(***************************************************************************)
EXTENDS Naturals, Folds, FiniteSets

CONSTANTS
    Commands,  \* the commands to start with
    Stall,     \* stall window, in ticks
    HardCap,   \* hard cap, in ticks
    Grace,     \* TERM to KILL grace, in ticks
    Room       \* chunks the pipes hold before a writer blocks

Processes == {"leader", "child"}

Command == [profiled : BOOLEAN,              \* a span context exists
            level : {"off", "basic", "strict"},
            minEvents : Nat,
            group : SUBSET Processes,        \* the processes it consists of
            deaf : SUBSET Processes,         \* those that ignore SIGTERM
            prompt : BOOLEAN]                \* the loop is scheduled at once

WatchdogAssumption ==
    /\ Commands \subseteq {c \in Command : "leader" \in c.group}
    /\ {Stall, HardCap, Grace, Room} \subseteq Nat \ {0}

VARIABLES
    run,      \* the command
    proc,     \* process -> running, exited (the leader: not waited for yet), gone
    holders,  \* processes with the write end of a pipe
    told,     \* processes a SIGTERM was delivered to
    buffered, \* chunks written and not read
    silent,   \* ticks since a process wrote
    eof,      \* the selector has no pipe left
    elapsed,  \* ticks since the start
    idle,     \* ticks since the last read
    recent,   \* age -> reads, for the ages inside the stall window
    graced,   \* ticks since SIGTERM
    pc,       \* where the watchdog is
    reason    \* why it gave the command up

vars == <<run, proc, holders, told, buffered, silent, eof, elapsed, idle, recent,
          graced, pc, reason>>

world == <<proc, holders, told, buffered, silent>>
clocks == <<elapsed, idle, recent, graced>>

Enabled == run.level \in {"basic", "strict"}
Strict == run.level = "strict"
Least(a, b) == IF a < b THEN a ELSE b

-----------------------------------------------------------------------------
(* The command.                                                             *)

Write(p) ==
    /\ proc[p] = "running" /\ p \in holders
    /\ buffered < Room
    /\ buffered' = buffered + 1
    /\ silent' = 0
    /\ UNCHANGED <<run, proc, holders, told, eof, clocks, pc, reason>>

CloseOutput(p) ==
    /\ proc[p] = "running" /\ p \in holders
    /\ holders' = holders \ {p}
    /\ UNCHANGED <<run, proc, told, buffered, silent, eof, clocks, pc, reason>>

(* Only the leader is the watchdog's own child and stays to be waited for. *)
After(p) == IF p = "leader" THEN "exited" ELSE "gone"

Exits(p) ==
    /\ proc[p] = "running"
    /\ proc' = [proc EXCEPT ![p] = After(p)]
    /\ holders' = holders \ {p}
    /\ UNCHANGED <<run, told, buffered, silent, eof, clocks, pc, reason>>

Obeys(p) == p \in told \ run.deaf /\ Exits(p)

Process(p) == Write(p) \/ CloseOutput(p) \/ Exits(p)

-----------------------------------------------------------------------------
(* The watchdog.                                                            *)

(* Without a profiler: subprocess.run, until the pipes close and the       *)
(* leader is gone.                                                         *)
PlainReturn ==
    /\ pc = "plain"
    /\ holders = {} /\ proc["leader"] = "exited"
    /\ buffered' = 0
    /\ eof' = TRUE
    /\ proc' = [proc EXCEPT !["leader"] = "gone"]
    /\ pc' = "returned"
    /\ UNCHANGED <<run, holders, told, silent, clocks, reason>>

(* Slip: the hard cap is a limit of the strict level. *)
StrictCapReached == Strict /\ elapsed > HardCap
CapReached == Enabled /\ elapsed > HardCap

InWindow == MapThenFoldSet(+, 0, LAMBDA a : recent[a], LAMBDA S : CHOOSE a \in S : TRUE, 0 .. Stall)

Stalled ==
    /\ Strict
    /\ idle > Stall
    /\ InWindow < IF run.minEvents > 1 THEN run.minEvents ELSE 1

(* SIGTERM to the group of the leader; a leader that was waited for has no *)
(* group to be found by, and nothing to terminate.                         *)
Terminate(why) ==
    /\ reason' = why
    /\ graced' = 0
    /\ told' = IF proc["leader"] = "gone" THEN told ELSE run.group
    /\ pc' = "grace"
    /\ UNCHANGED <<run, proc, holders, buffered, silent, eof, elapsed, idle, recent>>

Check ==
    /\ pc = "check"
    /\ IF CapReached THEN Terminate("hard_cap")
       ELSE IF Stalled THEN Terminate("stall")
       ELSE pc' = "select" /\ UNCHANGED <<run, world, clocks, eof, reason>>

(* Slip: end of file is read as a chunk. *)
ReadableAtEnd == buffered > 0 \/ holders = {}
Readable == buffered > 0

(* Slip: a read is no progress. *)
IdleAsBefore == idle
IdleAfterRead == 0

Read ==
    /\ pc = "select" /\ ~eof
    /\ Readable
    /\ buffered' = buffered - 1
    /\ idle' = IdleAfterRead
    /\ recent' = [recent EXCEPT ![0] = Least(@ + 1, Room)]
    /\ pc' = "poll"
    /\ UNCHANGED <<run, proc, holders, told, silent, eof, elapsed, graced, reason>>

ReadEnd ==
    /\ pc = "select" /\ ~eof
    /\ buffered = 0 /\ holders = {}
    /\ eof' = TRUE
    /\ pc' = "poll"
    /\ UNCHANGED <<run, world, clocks, reason>>

SelectTimeout ==
    /\ pc = "select"
    /\ eof \/ (buffered = 0 /\ holders # {})
    /\ pc' = "poll"
    /\ UNCHANGED <<run, world, clocks, eof, reason>>

CommandDone == proc["leader"] # "running" /\ eof

(* poll() waits for a leader that has exited, also when the loop goes on. *)
Poll ==
    /\ pc = "poll"
    /\ proc' = IF proc["leader"] = "exited" THEN [proc EXCEPT !["leader"] = "gone"] ELSE proc
    /\ pc' = IF CommandDone THEN "returned" ELSE "check"
    /\ UNCHANGED <<run, holders, told, buffered, silent, eof, clocks, reason>>

(* The leader is gone within the grace time: nothing more is sent. *)
GracePoll ==
    /\ pc = "grace"
    /\ graced < Grace
    /\ proc["leader"] # "running"
    /\ proc' = [proc EXCEPT !["leader"] = "gone"]
    /\ pc' = "raised"
    /\ UNCHANGED <<run, holders, told, buffered, silent, eof, clocks, reason>>

(* Slip: only processes that ignore SIGTERM are killed, by a second SIGTERM. *)
TermAgain == run.group \ run.deaf
Killed == run.group

(* SIGKILL to the group; the leader is not waited for. *)
GraceOver ==
    /\ pc = "grace"
    /\ graced >= Grace
    /\ proc' = IF proc["leader"] = "gone" THEN proc
               ELSE [p \in Processes |->
                       IF p \in Killed /\ proc[p] = "running" THEN After(p) ELSE proc[p]]
    /\ holders' = {p \in holders : proc'[p] = "running"}
    /\ pc' = "raised"
    /\ UNCHANGED <<run, told, buffered, silent, eof, clocks, reason>>

Watchdog ==
    \/ PlainReturn \/ Check \/ Read \/ ReadEnd \/ SelectTimeout \/ Poll
    \/ GracePoll \/ GraceOver

-----------------------------------------------------------------------------
Ended == pc \in {"returned", "raised"}

Waiting ==
    \/ pc = "plain"
    \/ pc = "select" /\ (eof \/ (buffered = 0 /\ holders # {}))
    \/ pc = "grace" /\ graced < Grace /\ proc["leader"] = "running"

Aged(n, limit) == Least(n + 1, limit + 1)

Tick ==
    /\ ~Ended
    /\ run.prompt => Waiting
    /\ elapsed' = Aged(elapsed, HardCap)
    /\ idle' = Aged(idle, Stall)
    /\ silent' = Aged(silent, Stall)
    /\ graced' = Aged(graced, Grace)
    /\ recent' = [a \in 0 .. Stall |-> IF a = 0 THEN 0 ELSE recent[a - 1]]
    /\ UNCHANGED <<run, proc, holders, told, buffered, eof, pc, reason>>

Finished == Ended /\ UNCHANGED vars

Init ==
    /\ run \in Commands
    /\ proc = [p \in Processes |-> IF p \in run.group THEN "running" ELSE "gone"]
    /\ holders = run.group
    /\ told = {}
    /\ buffered = 0
    /\ silent = 0
    /\ eof = FALSE
    /\ elapsed = 0 /\ idle = 0 /\ graced = 0
    /\ recent = [a \in 0 .. Stall |-> IF a = 0 THEN 1 ELSE 0]
    /\ pc = IF run.profiled THEN "check" ELSE "plain"
    /\ reason = "none"

Next == Watchdog \/ (\E p \in Processes : Process(p)) \/ Tick \/ Finished

Spec == Init /\ [][Next]_vars

(* The watchdog is scheduled, a process that obeys SIGTERM exits, and time *)
(* passes: a select that times out, a sleep of the grace time take some.   *)
FairSpec ==
    /\ Spec
    /\ WF_vars(Watchdog)
    /\ SF_vars(Tick)
    /\ \A p \in Processes : WF_vars(Obeys(p))

-----------------------------------------------------------------------------
(***************************************************************************)
(* What running a command under the watchdog promises its caller.          *)
(***************************************************************************)

TypeOK ==
    /\ run \in Commands
    /\ proc \in [Processes -> {"running", "exited", "gone"}]
    /\ holders \subseteq Processes
    /\ told \subseteq Processes
    /\ buffered \in 0 .. Room
    /\ silent \in 0 .. Stall + 1
    /\ eof \in BOOLEAN
    /\ elapsed \in 0 .. HardCap + 1
    /\ idle \in 0 .. Stall + 1
    /\ recent \in [0 .. Stall -> 0 .. Room]
    /\ graced \in 0 .. Grace + 1
    /\ pc \in {"plain", "check", "select", "poll", "grace", "returned", "raised"}
    /\ reason \in {"none", "stall", "hard_cap"}

(* A completed command (line 255) was waited for and its output is whole:  *)
(* nothing written by it or by a child it left behind is still in a pipe,  *)
(* and nobody is left who could write to one.                              *)
OutputIsWhole ==
    pc = "returned" => proc["leader"] = "gone" /\ buffered = 0 /\ holders = {}

(* A command is given up (lines 158 to 205) for what it did: with a loop   *)
(* that is scheduled at once, it ran past the cap, or no process of it     *)
(* wrote for a whole stall window, although the loop only sees its reads;  *)
(* what a process wrote since is still in the pipe.                        *)
GivenUpForCause ==
    run.prompt =>
        /\ reason = "hard_cap" => elapsed > HardCap
        /\ reason = "stall" => Strict /\ (silent > Stall \/ buffered > 0)

(* When the watchdog raises (lines 170, 195), the leader no longer runs:   *)
(* it had ended, obeyed SIGTERM or was killed after the grace time, deaf   *)
(* or not.  A leader that had to be killed takes its group with it.  A     *)
(* child may outlive a leader that went by itself, and then nothing more   *)
(* is sent (lines 78 to 80): nothing is said of it here.                   *)
NoLeaderLeft ==
    pc = "raised" =>
        /\ proc["leader"] # "running"
        /\ proc["leader"] = "exited" => proc["child"] # "running"

(* A command that returns was waited for and what it handed over is whole: *)
(* a child that goes on has closed its pipes.  One that is given up leaves *)
(* no running leader, and no group behind a leader that was killed.        *)
EndsClean == TypeOK /\ OutputIsWhole /\ NoLeaderLeft

(* Under a profiler and with the watchdog on, every command ends: one that *)
(* hangs, prints for ever, or leaves a child with its pipes included, and  *)
(* whatever delays the loop.                                               *)
CappedRunEnds == (run.profiled /\ Enabled /\ ~run.prompt) ~> Ended

=============================================================================
