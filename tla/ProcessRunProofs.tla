--------------------------- MODULE ProcessRunProofs ---------------------------
(***************************************************************************)
(* The watchdog and the profiler, for every set of commands and runs, every *)
(* stall window, cap, grace time, pipe size, heartbeat and bound.          *)
(***************************************************************************)
EXTENDS MCProcessRuns, Sequences, FiniteSets, FiniteSetTheorems, TLAPS

-----------------------------------------------------------------------------
(* The watchdog.                                                           *)

(***************************************************************************)
(* The end of the pipes is only seen when nobody can write any more.       *)
(***************************************************************************)
EofIsTheEnd == eof => buffered = 0 /\ holders = {}

(***************************************************************************)
(* A reason is given exactly when the command is given up.                 *)
(***************************************************************************)
GivenUpIsSaid == reason # "none" <=> pc \in {"grace", "raised"}

(***************************************************************************)
(* A loop that is scheduled at once has read what was written: it has been *)
(* idle no longer than the processes have been silent.                     *)
(***************************************************************************)
ReadsKeepUp ==
    run.prompt /\ pc \in {"check", "select", "poll"} /\ buffered = 0 => idle <= silent

(***************************************************************************)
(* Only processes of the command run.                                      *)
(***************************************************************************)
OnlyTheGroupRuns == \A p \in Watch!Processes : proc[p] = "running" => p \in run.group

WatchInv ==
    /\ Watch!TypeOK
    /\ OnlyTheGroupRuns
    /\ "leader" \in run.group
    /\ EofIsTheEnd
    /\ Watch!OutputIsWhole
    /\ Watch!NoLeaderLeft
    /\ GivenUpIsSaid
    /\ ReadsKeepUp
    /\ Watch!GivenUpForCause

LEMMA TimesAreNat ==
    /\ Stall \in Nat \ {0} /\ HardCap \in Nat \ {0} /\ Grace \in Nat \ {0} /\ Room \in Nat \ {0}
    BY ProcessRunsAssumption DEF Watch!WatchdogAssumption

(* A saturating clock stays in its range and past its limit.               *)
LEMMA ClockAges ==
    ASSUME NEW limit \in Nat, NEW n \in 0 .. limit + 1
    PROVE  /\ Watch!Aged(n, limit) \in 0 .. limit + 1
           /\ n > limit => Watch!Aged(n, limit) > limit
           /\ \A m \in 0 .. limit + 1 : n <= m => Watch!Aged(n, limit) <= Watch!Aged(m, limit)
    BY DEF Watch!Aged, Watch!Least

LEMMA WatchStarts ==
    ASSUME part = "watchdog", Watch!Init
    PROVE  WatchInv
<1>1. Stall \in Nat \ {0} /\ HardCap \in Nat \ {0} /\ Grace \in Nat \ {0} /\ Room \in Nat \ {0}
    BY TimesAreNat
<1>2. run \in Watch!Command /\ "leader" \in run.group /\ run \in Commands
    BY ProcessRunsAssumption DEF Watch!WatchdogAssumption, Watch!Init
<1>3. run.group \subseteq {"leader", "child"} /\ run.profiled \in BOOLEAN
    BY <1>2 DEF Watch!Command, Watch!Processes
<1>4. recent \in [0 .. Stall -> 0 .. Room]
    BY <1>1 DEF Watch!Init
<1>5. proc \in [Watch!Processes -> {"running", "exited", "gone"}] /\ holders \subseteq Watch!Processes
    BY <1>3 DEF Watch!Init, Watch!Processes
<1>6. pc \in {"plain", "check"} /\ reason = "none" /\ eof = FALSE /\ told = {}
    BY <1>3 DEF Watch!Init
<1>7. /\ buffered = 0 /\ silent = 0 /\ elapsed = 0 /\ idle = 0 /\ graced = 0
    BY DEF Watch!Init
<1>8. Watch!TypeOK
    <2>1. /\ buffered \in 0 .. Room /\ silent \in 0 .. Stall + 1 /\ elapsed \in 0 .. HardCap + 1
          /\ idle \in 0 .. Stall + 1 /\ graced \in 0 .. Grace + 1
        BY <1>1, <1>7
    <2>2. /\ eof \in BOOLEAN /\ told \subseteq Watch!Processes
          /\ pc \in {"plain", "check", "select", "poll", "grace", "returned", "raised"}
          /\ reason \in {"none", "stall", "hard_cap"}
        BY <1>6
    <2> QED
        BY <1>2, <1>4, <1>5, <2>1, <2>2 DEF Watch!TypeOK
<1>9. OnlyTheGroupRuns
    BY DEF OnlyTheGroupRuns, Watch!Init
<1> QED
    BY <1>2, <1>6, <1>7, <1>8, <1>9
    DEF WatchInv, EofIsTheEnd, Watch!OutputIsWhole, Watch!NoLeaderLeft, GivenUpIsSaid,
        ReadsKeepUp, Watch!GivenUpForCause

(***************************************************************************)
(* The processes of the command write, close their output and exit.        *)
(***************************************************************************)
LEMMA ProcessKeepsWatch ==
    ASSUME WatchInv, NEW p \in Watch!Processes, Watch!Process(p)
    PROVE  WatchInv'
<1>1. Stall \in Nat \ {0} /\ HardCap \in Nat \ {0} /\ Grace \in Nat \ {0} /\ Room \in Nat \ {0}
    BY TimesAreNat
<1>2. CASE Watch!Write(p)
    <2>1. /\ p \in holders /\ buffered < Room /\ buffered' = buffered + 1 /\ silent' = 0
          /\ UNCHANGED <<run, proc, holders, told, eof, elapsed, idle, recent, graced, pc, reason>>
        BY <1>2 DEF Watch!Write, Watch!clocks
    <2>2. Watch!TypeOK'
        BY <1>1, <2>1 DEF WatchInv, Watch!TypeOK
    <2>3. buffered' # 0 /\ buffered' > 0
        BY <2>1 DEF WatchInv, Watch!TypeOK
    <2> QED
        BY <2>1, <2>2, <2>3
        DEF WatchInv, EofIsTheEnd, OnlyTheGroupRuns, Watch!OutputIsWhole, Watch!NoLeaderLeft, GivenUpIsSaid,
            ReadsKeepUp, Watch!GivenUpForCause, Watch!Strict
<1>3. CASE Watch!CloseOutput(p)
    <2>1. /\ holders' = holders \ {p}
          /\ UNCHANGED <<run, proc, told, buffered, silent, eof, elapsed, idle, recent, graced, pc, reason>>
        BY <1>3 DEF Watch!CloseOutput, Watch!clocks
    <2>2. Watch!TypeOK'
        BY <2>1 DEF WatchInv, Watch!TypeOK
    <2> QED
        BY <2>1, <2>2
        DEF WatchInv, EofIsTheEnd, OnlyTheGroupRuns, Watch!OutputIsWhole, Watch!NoLeaderLeft, GivenUpIsSaid,
            ReadsKeepUp, Watch!GivenUpForCause, Watch!Strict
<1>4. CASE Watch!Exits(p)
    <2>1. /\ proc[p] = "running" /\ proc' = [proc EXCEPT ![p] = Watch!After(p)]
          /\ holders' = holders \ {p}
          /\ UNCHANGED <<run, told, buffered, silent, eof, elapsed, idle, recent, graced, pc, reason>>
        BY <1>4 DEF Watch!Exits, Watch!clocks
    <2>2. Watch!After(p) \in {"exited", "gone"}
        BY DEF Watch!After
    <2>3. Watch!TypeOK'
        BY <2>1, <2>2 DEF WatchInv, Watch!TypeOK
    <2>4. /\ proc["leader"] # "running" => proc'["leader"] = proc["leader"]
          /\ \A q \in Watch!Processes : proc'[q] = "running" => proc[q] = "running"
        BY <2>1, <2>2 DEF WatchInv, Watch!TypeOK, Watch!Processes
    <2>5. Watch!OutputIsWhole'
        BY <2>1, <2>4 DEF WatchInv, Watch!OutputIsWhole
    <2>6. Watch!NoLeaderLeft'
        BY <2>1, <2>4 DEF WatchInv, Watch!NoLeaderLeft, Watch!Processes
    <2>7. OnlyTheGroupRuns'
        BY <2>1, <2>4 DEF WatchInv, OnlyTheGroupRuns
    <2> QED
        BY <2>1, <2>3, <2>5, <2>6, <2>7
        DEF WatchInv, EofIsTheEnd, GivenUpIsSaid, ReadsKeepUp, Watch!GivenUpForCause, Watch!Strict
<1> QED
    BY <1>2, <1>3, <1>4 DEF Watch!Process

(***************************************************************************)
(* Time passes: no clock of a process that writes nothing runs slower than *)
(* the clock of the loop that reads.                                       *)
(***************************************************************************)
LEMMA TickKeepsWatch ==
    ASSUME WatchInv, Watch!Tick
    PROVE  WatchInv'
<1>1. Stall \in Nat \ {0} /\ HardCap \in Nat \ {0} /\ Grace \in Nat \ {0} /\ Room \in Nat \ {0}
    BY TimesAreNat
<1>2. /\ pc \notin {"returned", "raised"}
      /\ run.prompt => Watch!Waiting
      /\ elapsed' = Watch!Aged(elapsed, HardCap)
      /\ idle' = Watch!Aged(idle, Stall)
      /\ silent' = Watch!Aged(silent, Stall)
      /\ graced' = Watch!Aged(graced, Grace)
      /\ recent' = [a \in 0 .. Stall |-> IF a = 0 THEN 0 ELSE recent[a - 1]]
      /\ UNCHANGED <<run, proc, holders, told, buffered, eof, pc, reason>>
    BY DEF Watch!Tick, Watch!Ended
<1>3. Watch!TypeOK
    BY DEF WatchInv
<1>4. /\ elapsed' \in 0 .. HardCap + 1 /\ (elapsed > HardCap => elapsed' > HardCap)
      /\ idle' \in 0 .. Stall + 1 /\ silent' \in 0 .. Stall + 1
      /\ silent > Stall => silent' > Stall
      /\ graced' \in 0 .. Grace + 1
      /\ idle <= silent => idle' <= silent'
    <2>1. /\ elapsed \in 0 .. HardCap + 1 /\ idle \in 0 .. Stall + 1
          /\ silent \in 0 .. Stall + 1 /\ graced \in 0 .. Grace + 1
        BY <1>3 DEF Watch!TypeOK
    <2> QED
        BY <1>1, <1>2, <2>1, ClockAges
<1>5. recent' \in [0 .. Stall -> 0 .. Room]
    <2>1. \A a \in 0 .. Stall : a # 0 => a - 1 \in 0 .. Stall
        BY <1>1
    <2>2. recent \in [0 .. Stall -> 0 .. Room] /\ 0 \in 0 .. Room
        BY <1>1, <1>3 DEF Watch!TypeOK
    <2> QED
        BY <1>2, <2>1, <2>2
<1>6. Watch!TypeOK'
    BY <1>2, <1>3, <1>4, <1>5 DEF Watch!TypeOK
<1>7. ReadsKeepUp'
    BY <1>2, <1>4 DEF WatchInv, ReadsKeepUp
<1>8. Watch!GivenUpForCause'
    BY <1>2, <1>4 DEF WatchInv, Watch!GivenUpForCause, Watch!Strict
<1> QED
    BY <1>2, <1>6, <1>7, <1>8
    DEF WatchInv, EofIsTheEnd, OnlyTheGroupRuns, Watch!OutputIsWhole, Watch!NoLeaderLeft, GivenUpIsSaid

(***************************************************************************)
(* The loop: it checks, reads, sees the end of the pipes and polls.        *)
(***************************************************************************)
LEMMA LoopKeepsWatch ==
    ASSUME WatchInv,
           Watch!Check \/ Watch!Read \/ Watch!ReadEnd \/ Watch!SelectTimeout \/ Watch!Poll
    PROVE  WatchInv'
<1>1. Stall \in Nat \ {0} /\ HardCap \in Nat \ {0} /\ Grace \in Nat \ {0} /\ Room \in Nat \ {0}
    BY TimesAreNat
<1>2. Watch!TypeOK
    BY DEF WatchInv
<1>3. CASE Watch!Check
    <2>1. ASSUME NEW why \in {"hard_cap", "stall"}, Watch!Terminate(why), pc = "check",
                 why = "hard_cap" => elapsed > HardCap,
                 why = "stall" => Watch!Strict /\ idle > Stall
          PROVE  WatchInv'
        <3>1. /\ reason' = why /\ graced' = 0 /\ pc' = "grace"
              /\ told' = IF proc["leader"] = "gone" THEN told ELSE run.group
              /\ UNCHANGED <<run, proc, holders, buffered, silent, eof, elapsed, idle, recent>>
            BY <2>1 DEF Watch!Terminate
        <3>2. run.group \subseteq Watch!Processes
            BY <1>2, ProcessRunsAssumption
            DEF Watch!TypeOK, Watch!WatchdogAssumption, Watch!Command
        <3>3. Watch!TypeOK'
            BY <1>1, <1>2, <3>1, <3>2 DEF Watch!TypeOK
        <3>4. run.prompt /\ buffered = 0 => idle <= silent
            BY <2>1 DEF WatchInv, ReadsKeepUp
        <3>5. run.prompt /\ why = "stall" => silent > Stall \/ buffered > 0
            BY <1>1, <1>2, <2>1, <3>4 DEF Watch!TypeOK
        <3>6. Watch!GivenUpForCause'
            BY <2>1, <3>1, <3>5 DEF Watch!GivenUpForCause, Watch!Strict
        <3> QED
            BY <3>1, <3>3, <3>6
            DEF WatchInv, EofIsTheEnd, OnlyTheGroupRuns, Watch!OutputIsWhole, Watch!NoLeaderLeft, GivenUpIsSaid,
                ReadsKeepUp
    <2>2. CASE pc = "check" /\ Watch!CapReached /\ Watch!Terminate("hard_cap")
        BY <2>1, <2>2 DEF Watch!CapReached
    <2>3. CASE pc = "check" /\ Watch!Stalled /\ Watch!Terminate("stall")
        BY <2>1, <2>3 DEF Watch!Stalled
    <2>4. CASE /\ pc = "check" /\ pc' = "select"
               /\ UNCHANGED <<run, proc, holders, told, buffered, silent, elapsed, idle, recent,
                              graced, eof, reason>>
        <3>1. Watch!TypeOK'
            BY <1>2, <2>4 DEF Watch!TypeOK
        <3> QED
            BY <2>4, <3>1
            DEF WatchInv, EofIsTheEnd, OnlyTheGroupRuns, Watch!OutputIsWhole, Watch!NoLeaderLeft, GivenUpIsSaid,
                ReadsKeepUp, Watch!GivenUpForCause, Watch!Strict
    <2> QED
        BY <1>3, <2>2, <2>3, <2>4 DEF Watch!Check, Watch!world, Watch!clocks
<1>4. CASE Watch!Read
    <2>1. /\ pc = "select" /\ eof = FALSE /\ buffered > 0
          /\ buffered' = buffered - 1 /\ idle' = 0 /\ pc' = "poll"
          /\ recent' = [recent EXCEPT ![0] = Watch!Least(@ + 1, Room)]
          /\ UNCHANGED <<run, proc, holders, told, silent, eof, elapsed, graced, reason>>
        BY <1>2, <1>4 DEF Watch!Read, Watch!Readable, Watch!IdleAfterRead, Watch!TypeOK
    <2>2. recent' \in [0 .. Stall -> 0 .. Room]
        <3>1. recent \in [0 .. Stall -> 0 .. Room] /\ 0 \in 0 .. Stall
            BY <1>1, <1>2 DEF Watch!TypeOK
        <3>2. \A n \in 0 .. Room : Watch!Least(n + 1, Room) \in 0 .. Room
            BY <1>1 DEF Watch!Least
        <3> QED
            BY <2>1, <3>1, <3>2
    <2>3. Watch!TypeOK'
        BY <1>1, <1>2, <2>1, <2>2 DEF Watch!TypeOK
    <2>4. ReadsKeepUp'
        BY <1>1, <1>2, <2>1 DEF ReadsKeepUp, Watch!TypeOK
    <2>5. Watch!GivenUpForCause'
        BY <2>1 DEF WatchInv, Watch!GivenUpForCause, GivenUpIsSaid
    <2> QED
        BY <2>1, <2>3, <2>4, <2>5
        DEF WatchInv, EofIsTheEnd, OnlyTheGroupRuns, Watch!OutputIsWhole, Watch!NoLeaderLeft, GivenUpIsSaid
<1>5. CASE Watch!ReadEnd \/ Watch!SelectTimeout
    <2>1. /\ pc = "select" /\ pc' = "poll" /\ eof' \in BOOLEAN
          /\ eof' => eof \/ (buffered = 0 /\ holders = {})
          /\ UNCHANGED <<run, proc, holders, told, buffered, silent, elapsed, idle, recent,
                         graced, reason>>
        <3>1. CASE Watch!ReadEnd
            BY <3>1 DEF Watch!ReadEnd, Watch!world, Watch!clocks
        <3>2. CASE Watch!SelectTimeout
            BY <1>2, <3>2 DEF Watch!SelectTimeout, Watch!world, Watch!clocks, Watch!TypeOK
        <3> QED
            BY <1>5, <3>1, <3>2
    <2>2. Watch!TypeOK'
        BY <1>2, <2>1 DEF Watch!TypeOK
    <2> QED
        BY <2>1, <2>2
        DEF WatchInv, EofIsTheEnd, OnlyTheGroupRuns, Watch!OutputIsWhole, Watch!NoLeaderLeft, GivenUpIsSaid,
            ReadsKeepUp, Watch!GivenUpForCause, Watch!Strict
<1>6. CASE Watch!Poll
    <2>1. /\ pc = "poll"
          /\ proc' = IF proc["leader"] = "exited" THEN [proc EXCEPT !["leader"] = "gone"] ELSE proc
          /\ pc' = IF Watch!CommandDone THEN "returned" ELSE "check"
          /\ UNCHANGED <<run, holders, told, buffered, silent, eof, elapsed, idle, recent,
                         graced, reason>>
        BY <1>6 DEF Watch!Poll, Watch!clocks
    <2>2. proc' \in [Watch!Processes -> {"running", "exited", "gone"}]
          /\ (proc["leader"] # "running" => proc'["leader"] = "gone")
        BY <1>2, <2>1 DEF Watch!TypeOK, Watch!Processes
    <2>3. Watch!TypeOK'
        BY <1>2, <2>1, <2>2 DEF Watch!TypeOK
    <2>4. Watch!OutputIsWhole'
        BY <2>1, <2>2 DEF WatchInv, Watch!OutputIsWhole, Watch!CommandDone, EofIsTheEnd
    <2> QED
        BY <2>1, <2>3, <2>4
        DEF WatchInv, EofIsTheEnd, OnlyTheGroupRuns, Watch!NoLeaderLeft, GivenUpIsSaid, ReadsKeepUp,
            Watch!GivenUpForCause, Watch!Strict
<1> QED
    BY <1>3, <1>4, <1>5, <1>6

(***************************************************************************)
(* The ends: the plain return, the grace time and what follows it.         *)
(***************************************************************************)
LEMMA EndKeepsWatch ==
    ASSUME WatchInv, Watch!PlainReturn \/ Watch!GracePoll \/ Watch!GraceOver
    PROVE  WatchInv'
<1>1. Stall \in Nat \ {0} /\ HardCap \in Nat \ {0} /\ Grace \in Nat \ {0} /\ Room \in Nat \ {0}
    BY TimesAreNat
<1>2. Watch!TypeOK
    BY DEF WatchInv
<1>3. CASE Watch!PlainReturn
    <2>1. /\ pc = "plain" /\ holders = {} /\ buffered' = 0 /\ eof' = TRUE /\ pc' = "returned"
          /\ proc' = [proc EXCEPT !["leader"] = "gone"]
          /\ UNCHANGED <<run, holders, told, silent, elapsed, idle, recent, graced, reason>>
        BY <1>3 DEF Watch!PlainReturn, Watch!clocks
    <2>2. proc' \in [Watch!Processes -> {"running", "exited", "gone"}] /\ proc'["leader"] = "gone"
        BY <1>2, <2>1 DEF Watch!TypeOK, Watch!Processes
    <2>3. Watch!TypeOK'
        BY <1>1, <1>2, <2>1, <2>2 DEF Watch!TypeOK
    <2>4. Watch!GivenUpForCause'
        BY <2>1 DEF WatchInv, Watch!GivenUpForCause, GivenUpIsSaid
    <2> QED
        BY <2>1, <2>2, <2>3, <2>4
        DEF WatchInv, EofIsTheEnd, OnlyTheGroupRuns, Watch!OutputIsWhole, Watch!NoLeaderLeft, GivenUpIsSaid, ReadsKeepUp
<1>4. CASE Watch!GracePoll
    <2>1. /\ pc = "grace" /\ pc' = "raised"
          /\ proc' = [proc EXCEPT !["leader"] = "gone"]
          /\ UNCHANGED <<run, holders, told, buffered, silent, eof, elapsed, idle, recent, graced, reason>>
        BY <1>4 DEF Watch!GracePoll, Watch!clocks
    <2>2. proc' \in [Watch!Processes -> {"running", "exited", "gone"}] /\ proc'["leader"] = "gone"
        BY <1>2, <2>1 DEF Watch!TypeOK, Watch!Processes
    <2>3. Watch!TypeOK'
        BY <1>2, <2>1, <2>2 DEF Watch!TypeOK
    <2> QED
        BY <2>1, <2>2, <2>3
        DEF WatchInv, EofIsTheEnd, OnlyTheGroupRuns, Watch!OutputIsWhole, Watch!NoLeaderLeft, GivenUpIsSaid,
            ReadsKeepUp, Watch!GivenUpForCause, Watch!Strict
<1>5. CASE Watch!GraceOver
    <2>1. /\ pc = "grace" /\ pc' = "raised"
          /\ proc' = IF proc["leader"] = "gone" THEN proc
                     ELSE [p \in Watch!Processes |->
                             IF p \in run.group /\ proc[p] = "running" THEN Watch!After(p) ELSE proc[p]]
          /\ holders' \subseteq holders
          /\ UNCHANGED <<run, told, buffered, silent, eof, elapsed, idle, recent, graced, reason>>
        BY <1>5 DEF Watch!GraceOver, Watch!clocks, Watch!Killed
    <2>2. \A p : Watch!After(p) \in {"exited", "gone"}
        BY DEF Watch!After
    <2>3. proc' \in [Watch!Processes -> {"running", "exited", "gone"}]
        BY <1>2, <2>1, <2>2 DEF Watch!TypeOK
    <2>4. /\ proc'["leader"] # "running"
          /\ proc'["leader"] = "exited" => proc'["child"] # "running"
          /\ \A p \in Watch!Processes : proc'[p] = "running" => proc[p] = "running"
        <3>1. {"leader", "child"} \subseteq Watch!Processes /\ "leader" \in run.group
            BY DEF WatchInv, Watch!Processes
        <3>2. proc["child"] = "running" => "child" \in run.group
            BY <3>1 DEF WatchInv, OnlyTheGroupRuns
        <3> QED
            BY <2>1, <2>2, <3>1, <3>2
    <2>5. Watch!TypeOK'
        BY <1>2, <2>1, <2>3 DEF Watch!TypeOK
    <2> QED
        BY <2>1, <2>4, <2>5
        DEF WatchInv, EofIsTheEnd, OnlyTheGroupRuns, Watch!OutputIsWhole, Watch!NoLeaderLeft, GivenUpIsSaid,
            ReadsKeepUp, Watch!GivenUpForCause, Watch!Strict
<1> QED
    BY <1>3, <1>4, <1>5

WatchPart == part = "watchdog" => WatchInv

LEMMA WatchGoesOn == WatchPart /\ [Next]_vars => WatchPart'
<1> SUFFICES ASSUME WatchPart, [Next]_vars, part' = "watchdog" PROVE WatchInv'
    BY DEF WatchPart
<1>1. part = "watchdog" /\ WatchInv
    BY DEF WatchPart, Next, Watched, Profiled, vars
<1>2. ASSUME UNCHANGED <<run, idle, watchVars>> PROVE WatchInv'
    BY <1>1, <1>2
    DEF watchVars, WatchInv, Watch!TypeOK, EofIsTheEnd, OnlyTheGroupRuns, Watch!OutputIsWhole, Watch!NoLeaderLeft,
        GivenUpIsSaid, ReadsKeepUp, Watch!GivenUpForCause, Watch!Strict
<1>3. CASE Watched(Watch!Next)
    <2>1. CASE Watch!Watchdog
        BY <1>1, <2>1, LoopKeepsWatch, EndKeepsWatch DEF Watch!Watchdog
    <2>2. CASE \E p \in Watch!Processes : Watch!Process(p)
        BY <1>1, <2>2, ProcessKeepsWatch
    <2>3. CASE Watch!Tick
        BY <1>1, <2>3, TickKeepsWatch
    <2>4. CASE Watch!Finished
        BY <1>2, <2>4 DEF Watch!Finished, Watch!vars, watchVars
    <2> QED
        BY <1>3, <2>1, <2>2, <2>3, <2>4 DEF Watched, Watch!Next
<1>4. CASE UNCHANGED vars
    BY <1>2, <1>4 DEF vars
<1> QED
    BY <1>1, <1>3, <1>4 DEF Next, Profiled

(***************************************************************************)
(* The watchdog's invariant.                                               *)
(***************************************************************************)
LEMMA WatchInvariant == Spec => []WatchPart
<1>1. Init => WatchPart
    BY WatchStarts DEF Init, WatchPart
<1> QED
    BY <1>1, WatchGoesOn, PTL DEF Spec

(***************************************************************************)
(* A command that returns was waited for and its output is whole; one that *)
(* is given up leaves no running leader, and no group behind a leader that *)
(* had to be killed (run_subprocess_with_liveness, _kill_process_tree),    *)
(* for every command, stall window, cap, grace time and size of the pipes. *)
(* Of a child that outlives a leader that went by itself nothing is said.  *)
(***************************************************************************)
THEOREM CommandsEndClean == Spec => []EndsClean
<1>1. WatchPart => EndsClean
    BY DEF WatchPart, WatchInv, EndsClean, Watch!EndsClean
<1> QED
    BY <1>1, WatchInvariant, PTL

(***************************************************************************)
(* A loop that is scheduled at once gives a command up only for what it    *)
(* did: it ran past the cap, or its processes wrote nothing for a whole    *)
(* stall window that is not still in the pipe.                             *)
(***************************************************************************)
THEOREM CommandsAreGivenUpForCause == Spec => []GivenUpForCause
<1>1. WatchPart => GivenUpForCause
    BY DEF WatchPart, WatchInv, GivenUpForCause
<1> QED
    BY <1>1, WatchInvariant, PTL

-----------------------------------------------------------------------------
(* The profiler.                                                           *)

Ids(sp) == 1 .. Len(sp)
Innermost(w) == stack[w][Len(stack[w])]

(***************************************************************************)
(* The spans a thread is inside are its own and open, each is the child of *)
(* the one around it or of none, and every open span but the run's is one  *)
(* some thread is inside.                                                  *)
(***************************************************************************)
Inside(sp, st) ==
    \A w \in Workers : \A k \in 1 .. Len(st[w]) :
        /\ st[w][k] \in 2 .. Len(sp)
        /\ sp[st[w][k]].open
        /\ sp[st[w][k]].parent = 0 \/ (k > 1 /\ sp[st[w][k]].parent = st[w][k - 1])
Own(st) ==
    \A v, w \in Workers : \A j \in 1 .. Len(st[v]), k \in 1 .. Len(st[w]) :
        st[v][j] = st[w][k] => v = w /\ j = k
AtWork(sp, st) ==
    \A s \in 2 .. Len(sp) : sp[s].open =>
        \E w \in Workers : \E k \in 1 .. Len(st[w]) : st[w][k] = s
Nested(sp) ==
    \A s, t \in 1 .. Len(sp) : ~sp[s].open /\ s # 1 /\ sp[t].open => sp[t].parent # s

SpansOK(sp, st) ==
    /\ sp \in Seq(Profile!Span) /\ Len(sp) >= 1
    /\ st \in [Workers -> Seq(Nat)]
    /\ Inside(sp, st) /\ Own(st) /\ AtWork(sp, st) /\ Nested(sp)
    /\ \A s \in 1 .. Len(sp) : sp[s].parent < s

(***************************************************************************)
(* Where a thread is tells how deep it is: inside subprocess_run it is     *)
(* inside its span, waiting inside two, and a thread that is done is       *)
(* inside none.  Every wait span to come has its room.                     *)
(***************************************************************************)
Place(at, s) ==
    /\ at \in {"popen", "spawned", "exit", "timeout"} => Len(s) >= 1
    /\ at = "waiting" => Len(s) >= 2
    /\ at = "done" => Len(s) = 0
PlacesOK ==
    /\ doing \in [Workers -> Profile!Places]
    /\ child \in [Workers -> {"none", "running", "exited", "left"}]
    /\ \A w \in Workers : Place(doing[w], stack[w])
    /\ \A w \in Workers : child[w] = "running" => doing[w] \in {"spawned", "waiting", "timeout"}

Pending == {w \in Workers : doing[w] \in {"popen", "spawned"}}
RoomOK ==
    /\ run \in Runs
    /\ IsFiniteSet(Pending)
    /\ Len(spans) + Cardinality(Pending) <= run.room

(***************************************************************************)
(* The warning is only behind by what the next beat can still make up for. *)
(***************************************************************************)
ClocksOK ==
    /\ idle = quiet /\ idle \in 0 .. Silence + Beat + 1
    /\ due \in 0 .. Beat /\ joined \in 0 .. JoinLimit
    /\ warned \in BOOLEAN
    /\ beat \in {"off", "waiting", "late", "done"}
    /\ Profile!Detailed /\ closing = "no" => beat \in {"waiting", "late"}
    /\ run.prompt /\ Profile!Detailed /\ closing = "no" =>
            warned \/ idle <= Silence + Beat - due

(***************************************************************************)
(* After the seal the run's span is finished, and a trace sealed when all  *)
(* was quiet still counts what the run holds.                              *)
(***************************************************************************)
Trace == [summary : Profile!Count, spans : Seq(Profile!Span), page : Profile!Count,
          grown : BOOLEAN, quiet : BOOLEAN]
TraceOK ==
    /\ trace \in Trace
    /\ closing \in {"no", "joining", "sealed", "written", "closed"}
    /\ closing \in {"no", "joining"} => ~trace.grown /\ ~trace.quiet
    /\ closing \in {"sealed", "written", "closed"} => ~spans[1].open
    /\ closing \in {"written", "closed"} => Len(trace.spans) >= 1 /\ ~trace.spans[1].open
    /\ trace.quiet =>
        /\ Profile!Quiet
        /\ trace.summary = Profile!Summary
        /\ ~trace.grown
        /\ closing \in {"written", "closed"} => trace.spans = spans
        /\ closing = "closed" => trace.page = trace.summary

ProfInv == SpansOK(spans, stack) /\ PlacesOK /\ RoomOK /\ ClocksOK /\ TraceOK
ProfPart == part = "profiler" => ProfInv

-----------------------------------------------------------------------------
(* What opening and finishing a span does to all of them.                  *)

LEMMA PastTheEnd ==
    ASSUME NEW n \in Nat, NEW x \in 2 .. n, x = n + 1
    PROVE  FALSE
    OBVIOUS

LEMMA BeforeTheEnd ==
    ASSUME NEW m \in Nat, m >= 1
    PROVE  \A k \in 1 .. (m - 1) : k \in 1 .. m /\ k < m
    OBVIOUS

LEMMA OwnPlace ==
    ASSUME NEW st, Own(st), NEW w \in Workers, NEW m \in 1 .. Len(st[w])
    PROVE  \A v \in Workers : \A k \in 1 .. Len(st[v]) :
                st[v][k] = st[w][m] => v = w /\ k = m
    BY DEF Own

LEMMA OwnPart ==
    ASSUME NEW st, Own(st), NEW st2,
           \A v \in Workers : \A k \in 1 .. Len(st2[v]) :
                k \in 1 .. Len(st[v]) /\ st2[v][k] = st[v][k]
    PROVE  Own(st2)
    BY DEF Own

(***************************************************************************)
(* A span opened inside the innermost one of a thread, or inside none.     *)
(***************************************************************************)
LEMMA PushKeepsSpans ==
    ASSUME NEW sp, NEW st, SpansOK(sp, st), NEW w \in Workers,
           NEW p \in 0 .. MaxSpans, p = 0 \/ (Len(st[w]) >= 1 /\ p = st[w][Len(st[w])]),
           NEW sp2, sp2 = Append(sp, [parent |-> p, open |-> TRUE, status |-> "ok"]),
           NEW st2, st2 = [st EXCEPT ![w] = Append(@, Len(sp) + 1)]
    PROVE  SpansOK(sp2, st2)
<1> DEFINE new == [parent |-> p, open |-> TRUE, status |-> "ok"]
<1>1. new \in Profile!Span /\ new.parent = p /\ new.open
    BY DEF Profile!Span, Profile!Statuses
<1> HIDE DEF new
<1>2. PICK n \in Nat : n = Len(sp) /\ n >= 1
    BY DEF SpansOK
<1>3. sp2 = Append(sp, new) /\ sp \in Seq(Profile!Span)
    BY DEF SpansOK, new
<1>4. /\ sp2 \in Seq(Profile!Span) /\ Len(sp2) = n + 1
      /\ sp2[n + 1] = new /\ \A s \in 1 .. n : sp2[s] = sp[s]
    BY <1>1, <1>2, <1>3
<1>5. PICK m \in Nat : m = Len(st[w]) /\ st[w] \in Seq(Nat)
    BY DEF SpansOK
<1>6. /\ st2 \in [Workers -> Seq(Nat)]
      /\ st2[w] = Append(st[w], n + 1)
      /\ \A v \in Workers : v # w => st2[v] = st[v]
    BY <1>2, <1>5 DEF SpansOK
<1>7. Len(st2[w]) = m + 1 /\ st2[w][m + 1] = n + 1 /\ \A k \in 1 .. m : st2[w][k] = st[w][k]
    BY <1>2, <1>5, <1>6
<1>8. \A v \in Workers : \A k \in 1 .. Len(st[v]) :
            st[v][k] \in 2 .. n /\ st2[v][k] = st[v][k] /\ k \in 1 .. Len(st2[v])
    BY <1>2, <1>5, <1>6, <1>7 DEF SpansOK, Inside
<1>9. \A v \in Workers : \A k \in 1 .. Len(st2[v]) :
            k \in 1 .. Len(st[v]) \/ (v = w /\ k = m + 1 /\ st2[v][k] = n + 1)
    BY <1>5, <1>6, <1>7
<1>10. Inside(sp2, st2)
    <2> SUFFICES ASSUME NEW v \in Workers, NEW k \in 1 .. Len(st2[v])
                 PROVE  /\ st2[v][k] \in 2 .. Len(sp2)
                        /\ sp2[st2[v][k]].open
                        /\ \/ sp2[st2[v][k]].parent = 0
                           \/ k > 1 /\ sp2[st2[v][k]].parent = st2[v][k - 1]
        BY DEF Inside
    <2>1. CASE k \in 1 .. Len(st[v])
        <3>1. /\ st[v][k] \in 2 .. n /\ st2[v][k] = st[v][k] /\ sp[st[v][k]].open
              /\ sp[st[v][k]].parent = 0 \/ (k > 1 /\ sp[st[v][k]].parent = st[v][k - 1])
            BY <2>1, <1>8 DEF SpansOK, Inside
        <3>2. sp2[st2[v][k]] = sp[st[v][k]] /\ st2[v][k] \in 2 .. Len(sp2)
            BY <3>1, <1>2, <1>4
        <3>3. k > 1 => st2[v][k - 1] = st[v][k - 1]
            <4>1. k > 1 => k - 1 \in 1 .. Len(st[v])
                BY <2>1
            <4> QED
                BY <4>1, <1>8
        <3> QED
            BY <3>1, <3>2, <3>3
    <2>2. CASE v = w /\ k = m + 1 /\ st2[v][k] = n + 1
        <3>1. st2[v][k] \in 2 .. Len(sp2) /\ sp2[st2[v][k]] = new
            BY <2>2, <1>2, <1>4
        <3>2. p # 0 => k > 1 /\ p = st2[v][k - 1]
            BY <2>2, <1>5, <1>7
        <3> QED
            BY <3>1, <3>2, <1>1
    <2> QED
        BY <2>1, <2>2, <1>9
<1>14. Own(st)
    BY DEF SpansOK
<1>11. Own(st2)
    <2> SUFFICES ASSUME NEW v \in Workers, NEW u \in Workers,
                        NEW j \in 1 .. Len(st2[v]), NEW k \in 1 .. Len(st2[u]),
                        st2[v][j] = st2[u][k]
                 PROVE  v = u /\ j = k
        BY DEF Own
    <2>1. CASE j \in 1 .. Len(st[v]) /\ k \in 1 .. Len(st[u])
        <3>1. st[v][j] = st[u][k]
            BY <2>1, <1>8
        <3>2. \A x \in Workers : \A i \in 1 .. Len(st[x]) : st[x][i] = st[u][k] => x = u /\ i = k
            BY <2>1, <1>14, OwnPlace, Zenon
        <3> QED
            BY <2>1, <3>1, <3>2, Zenon
    <2>2. CASE ~(j \in 1 .. Len(st[v])) /\ ~(k \in 1 .. Len(st[u]))
        BY <2>2, <1>9
    <2>3. CASE j \in 1 .. Len(st[v]) /\ ~(k \in 1 .. Len(st[u]))
        <3>1. st2[v][j] \in 2 .. n /\ st2[u][k] = n + 1
            BY <2>3, <1>8, <1>9
        <3> QED
            BY <3>1, PastTheEnd, Zenon
    <2>4. CASE ~(j \in 1 .. Len(st[v])) /\ k \in 1 .. Len(st[u])
        <3>1. st2[u][k] \in 2 .. n /\ st2[v][j] = n + 1
            BY <2>4, <1>8, <1>9
        <3> QED
            BY <3>1, PastTheEnd, Zenon
    <2> QED
        BY <2>1, <2>2, <2>3, <2>4
<1>12. AtWork(sp2, st2)
    <2> SUFFICES ASSUME NEW s \in 2 .. (n + 1), sp2[s].open
                 PROVE  \E v \in Workers : \E k \in 1 .. Len(st2[v]) : st2[v][k] = s
        BY <1>4 DEF AtWork
    <2>1. CASE s = n + 1
        <3>1. m + 1 \in 1 .. Len(st2[w])
            BY <1>7
        <3> QED
            BY <2>1, <3>1, <1>7
    <2>2. CASE s # n + 1
        <3>1. s \in 1 .. n /\ s \in 2 .. Len(sp)
            BY <2>2, <1>2
        <3>2. sp[s].open
            BY <3>1, <1>4
        <3>3. PICK v \in Workers : \E k \in 1 .. Len(st[v]) : st[v][k] = s
            BY <3>1, <3>2 DEF SpansOK, AtWork
        <3> QED
            BY <3>3, <1>8
    <2> QED
        BY <2>1, <2>2
<1>13. Nested(sp2) /\ \A s \in 1 .. Len(sp2) : sp2[s].parent < s
    <2>1. \A s \in 1 .. (n + 1) : s \in 1 .. n \/ s = n + 1
        BY <1>2
    <2>2. p = 0 \/ (p \in 2 .. n /\ sp[p].open)
        <3>1. p # 0 => m \in 1 .. Len(st[w]) /\ p = st[w][m]
            BY <1>5
        <3> QED
            BY <3>1, <1>2 DEF SpansOK, Inside
    <2>3. ASSUME NEW s \in 1 .. (n + 1), NEW t \in 1 .. (n + 1),
                 ~sp2[s].open, s # 1, sp2[t].open
          PROVE  sp2[t].parent # s
        <3>1. s \in 1 .. n /\ sp2[s] = sp[s]
            BY <2>1, <2>3, <1>1, <1>4
        <3>2. CASE t \in 1 .. n
            BY <2>3, <3>1, <3>2, <1>2, <1>4 DEF SpansOK, Nested
        <3>3. CASE t = n + 1
            <4>1. sp2[t].parent = p
                BY <3>3, <1>1, <1>4
            <4> QED
                BY <4>1, <3>1, <2>2, <2>3, <1>2
        <3> QED
            BY <2>1, <3>2, <3>3
    <2>4. Nested(sp2)
        BY <2>3, <1>4 DEF Nested
    <2>5. \A s \in 1 .. n : sp2[s].parent < s
        BY <1>2, <1>4 DEF SpansOK
    <2>6. sp2[n + 1].parent < n + 1
        BY <2>2, <1>1, <1>2, <1>4
    <2> QED
        BY <2>1, <2>4, <2>5, <2>6, <1>4
<1>15. Len(sp2) >= 1
    BY <1>2, <1>4
<1> QED
    BY <1>4, <1>6, <1>10, <1>11, <1>12, <1>13, <1>15, Zenon DEF SpansOK

(***************************************************************************)
(* The innermost span of a thread is finished: no span inside it is open,  *)
(* for such a span would be on a thread's stack, and above it.             *)
(***************************************************************************)
LEMMA PopKeepsSpans ==
    ASSUME NEW sp, NEW st, SpansOK(sp, st), NEW w \in Workers, Len(st[w]) >= 1,
           NEW last, last = st[w][Len(st[w])],
           NEW sp2 \in Seq(Profile!Span), Len(sp2) = Len(sp),
           \A s \in 1 .. Len(sp) : s # last => sp2[s] = sp[s],
           ~sp2[last].open, sp2[last].parent = sp[last].parent,
           NEW front \in Seq(Nat), Len(front) = Len(st[w]) - 1,
           \A k \in 1 .. Len(front) : front[k] = st[w][k],
           NEW st2, st2 = [st EXCEPT ![w] = front]
    PROVE  SpansOK(sp2, st2)
<1>1. PICK n \in Nat : n = Len(sp) /\ n >= 1
    BY DEF SpansOK
<1>2. PICK m \in Nat : m = Len(st[w]) /\ m >= 1 /\ st[w] \in Seq(Nat)
    BY DEF SpansOK
<1>3. /\ st2 \in [Workers -> Seq(Nat)]
      /\ st2[w] = front
      /\ \A v \in Workers : v # w => st2[v] = st[v]
    BY DEF SpansOK
<1>4. \A v \in Workers : \A k \in 1 .. Len(st2[v]) :
        /\ k \in 1 .. Len(st[v]) /\ st2[v][k] = st[v][k]
        /\ v = w => k < m
    <2> TAKE v \in Workers
    <2>1. CASE v = w
        <3>1. \A k \in 1 .. (m - 1) : k \in 1 .. m /\ k < m
            <4>1. m \in Nat /\ m >= 1
                BY <1>2
            <4> QED
                BY <4>1, BeforeTheEnd, Zenon
        <3> QED
            BY <2>1, <3>1, <1>2, <1>3
    <2>2. CASE v # w
        BY <2>2, <1>3
    <2> QED
        BY <2>1, <2>2
<1>5. last \in 2 .. n /\ m \in 1 .. Len(st[w]) /\ last = st[w][m]
    BY <1>1, <1>2 DEF SpansOK, Inside
<1>6. \A v \in Workers : \A k \in 1 .. Len(st[v]) : st[v][k] = last => v = w /\ k = m
    <2>1. Own(st)
        BY DEF SpansOK
    <2>2. \A v \in Workers : \A k \in 1 .. Len(st[v]) : st[v][k] = st[w][m] => v = w /\ k = m
        BY <2>1, <1>5, OwnPlace, Zenon
    <2>3. last = st[w][m]
        BY <1>5
    <2> QED
        BY <2>2, <2>3, Zenon
<1>7. Inside(sp2, st2)
    <2> SUFFICES ASSUME NEW v \in Workers, NEW k \in 1 .. Len(st2[v])
                 PROVE  /\ st2[v][k] \in 2 .. Len(sp2)
                        /\ sp2[st2[v][k]].open
                        /\ \/ sp2[st2[v][k]].parent = 0
                           \/ k > 1 /\ sp2[st2[v][k]].parent = st2[v][k - 1]
        BY DEF Inside
    <2>1. k \in 1 .. Len(st[v]) /\ st2[v][k] = st[v][k] /\ st[v][k] # last
        <3>1. k \in 1 .. Len(st[v]) /\ st2[v][k] = st[v][k] /\ (v = w => k < m)
            BY <1>4
        <3>2. v = w => k # m
            BY <3>1, <1>2
        <3> QED
            BY <3>1, <3>2, <1>6
    <2>2. /\ st[v][k] \in 2 .. n /\ sp[st[v][k]].open
          /\ sp[st[v][k]].parent = 0 \/ (k > 1 /\ sp[st[v][k]].parent = st[v][k - 1])
        BY <2>1, <1>1 DEF SpansOK, Inside
    <2>3. sp2[st2[v][k]] = sp[st[v][k]]
        <3>1. st[v][k] \in 1 .. Len(sp)
            BY <2>2, <1>1
        <3> QED
            BY <3>1, <2>1
    <2>4. k > 1 => st2[v][k - 1] = st[v][k - 1]
        <3>1. Len(st2[v]) \in Nat
            BY <1>3
        <3>2. k > 1 => k - 1 \in 1 .. Len(st2[v])
            BY <3>1
        <3> QED
            BY <3>2, <1>4
    <2> QED
        BY <1>1, <2>1, <2>2, <2>3, <2>4
<1>8. Own(st2)
    <2>1. Own(st)
        BY DEF SpansOK
    <2> QED
        BY <2>1, <1>4, OwnPart, Zenon
<1>9. AtWork(sp2, st2)
    <2> SUFFICES ASSUME NEW s \in 2 .. n, sp2[s].open
                 PROVE  \E v \in Workers : \E k \in 1 .. Len(st2[v]) : st2[v][k] = s
        BY <1>1 DEF AtWork
    <2>1. s # last /\ sp[s].open
        BY <1>1
    <2>2. PICK v \in Workers : \E k \in 1 .. Len(st[v]) : st[v][k] = s
        BY <2>1, <1>1 DEF SpansOK, AtWork
    <2>5. PICK k \in 1 .. Len(st[v]) : st[v][k] = s
        BY <2>2
    <2>3. CASE v = w
        <3>1. k # m /\ k \in 1 .. m
            BY <2>1, <2>5, <2>3, <1>2, <1>5
        <3>2. k \in 1 .. Len(front)
            BY <3>1, <1>2
        <3> QED
            BY <2>5, <2>3, <3>2, <1>3
    <2>4. CASE v # w
        BY <2>5, <2>4, <1>3
    <2> QED
        BY <2>3, <2>4
<1>10. Nested(sp2)
    <2> SUFFICES ASSUME NEW s \in 1 .. n, NEW t \in 1 .. n, ~sp2[s].open, s # 1, sp2[t].open
                 PROVE  sp2[t].parent # s
        BY <1>1 DEF Nested
    <2>1. t # last /\ sp2[t] = sp[t] /\ sp[t].open
        BY <1>1
    <2>2. CASE s # last
        <3>1. ~sp[s].open /\ s \in 1 .. Len(sp) /\ t \in 1 .. Len(sp)
            BY <2>2, <1>1
        <3> QED
            BY <2>1, <3>1, Zenon DEF SpansOK, Nested
    <2>3. CASE s = last
        <3>1. sp[t] \in Profile!Span /\ sp[t].parent < t
            BY <1>1 DEF SpansOK
        <3>2. CASE t = 1
            BY <3>1, <3>2, <2>1, <2>3, <1>5, ProcessRunsAssumption
            DEF Profile!Span, Profile!ProfilerAssumption
        <3>3. CASE t # 1
            <4>1. t \in 2 .. n
                BY <3>3
            <4>2. PICK v \in Workers : \E k \in 1 .. Len(st[v]) : st[v][k] = t
                BY <4>1, <2>1, <1>1 DEF SpansOK, AtWork
            <4>6. PICK k \in 1 .. Len(st[v]) : st[v][k] = t
                BY <4>2
            <4>3. sp[t].parent = 0 \/ (k > 1 /\ sp[t].parent = st[v][k - 1])
                BY <4>6 DEF SpansOK, Inside
            <4>4. CASE sp[t].parent = 0
                BY <4>4, <2>1, <2>3, <1>5
            <4>5. CASE k > 1 /\ sp[t].parent = st[v][k - 1]
                <5>1. Len(st[v]) \in Nat
                    BY DEF SpansOK
                <5>2. k - 1 \in 1 .. Len(st[v])
                    BY <4>5, <4>6, <5>1
                <5>3. st[v][k - 1] = last => v = w /\ k - 1 = m
                    BY <5>2, <1>6
                <5>4. ~(v = w /\ k - 1 = m)
                    BY <1>2
                <5> QED
                    BY <4>5, <5>3, <5>4, <2>1, <2>3
            <4> QED
                BY <4>3, <4>4, <4>5
        <3> QED
            BY <3>2, <3>3
    <2> QED
        BY <2>2, <2>3
<1>11. \A s \in 1 .. Len(sp2) : sp2[s].parent < s
    <2> SUFFICES ASSUME NEW s \in 1 .. Len(sp) PROVE sp2[s].parent < s
        OBVIOUS
    <2>1. sp[s].parent < s
        BY DEF SpansOK
    <2>2. sp2[s].parent = sp[s].parent
        OBVIOUS
    <2> QED
        BY <2>1, <2>2
<1> QED
    BY <1>1, <1>3, <1>7, <1>8, <1>9, <1>10, <1>11 DEF SpansOK

(***************************************************************************)
(* The span of the run is no thread's: it can be finished at any time.     *)
(***************************************************************************)
LEMMA SealKeepsSpans ==
    ASSUME NEW sp, NEW st, SpansOK(sp, st),
           NEW sp2 \in Seq(Profile!Span), Len(sp2) = Len(sp),
           \A s \in 1 .. Len(sp) : s # 1 => sp2[s] = sp[s],
           ~sp2[1].open, sp2[1].parent = sp[1].parent
    PROVE  SpansOK(sp2, st)
<1>1. PICK n \in Nat : n = Len(sp) /\ n >= 1
    BY DEF SpansOK
<1>2. \A s \in 2 .. n : s \in 1 .. Len(sp) /\ s # 1 /\ sp2[s] = sp[s]
    BY <1>1
<1>3. Inside(sp2, st)
    <2> SUFFICES ASSUME NEW w \in Workers, NEW k \in 1 .. Len(st[w])
                 PROVE  /\ st[w][k] \in 2 .. Len(sp2)
                        /\ sp2[st[w][k]].open
                        /\ \/ sp2[st[w][k]].parent = 0
                           \/ k > 1 /\ sp2[st[w][k]].parent = st[w][k - 1]
        BY DEF Inside
    <2>1. /\ st[w][k] \in 2 .. Len(sp) /\ sp[st[w][k]].open
          /\ sp[st[w][k]].parent = 0 \/ (k > 1 /\ sp[st[w][k]].parent = st[w][k - 1])
        BY DEF SpansOK, Inside
    <2>2. sp2[st[w][k]] = sp[st[w][k]]
        BY <2>1, <1>1, <1>2
    <2> QED
        BY <2>1, <2>2
<1>4. AtWork(sp2, st)
    BY <1>1, <1>2 DEF SpansOK, AtWork
<1>5. Nested(sp2)
    BY <1>1 DEF SpansOK, Nested
<1>6. \A s \in 1 .. Len(sp2) : sp2[s].parent < s
    <2> SUFFICES ASSUME NEW s \in 1 .. Len(sp) PROVE sp2[s].parent < s
        OBVIOUS
    <2>1. sp[s].parent < s /\ sp2[s].parent = sp[s].parent
        BY DEF SpansOK
    <2> QED
        BY <2>1
<1> QED
    BY <1>1, <1>3, <1>4, <1>5, <1>6 DEF SpansOK

LEMMA BoundsAreNat ==
    /\ MaxSpans \in Nat \ {0} /\ Beat \in Nat \ {0} /\ Silence \in Nat \ {0} /\ JoinLimit \in Nat \ {0}
    /\ \A r \in Runs : r.room \in 1 .. MaxSpans /\ r.level \in {"basic", "detailed"} /\ r.prompt \in BOOLEAN
                       /\ r.threads \subseteq Workers
    BY ProcessRunsAssumption DEF Profile!ProfilerAssumption

(* What the summary counts stays within the bound on spans.                *)
LEMMA OpenSpansAreCounted ==
    ASSUME NEW n \in 0 .. MaxSpans, NEW S \in SUBSET (1 .. n)
    PROVE  Cardinality(S) \in 0 .. MaxSpans
<1>1. MaxSpans \in Nat
    BY BoundsAreNat
<1>2. IsFiniteSet(1 .. n) /\ Cardinality(1 .. n) = n
    BY FS_Interval, <1>1
<1>3. Cardinality(S) \in Nat /\ Cardinality(S) <= n
    BY <1>2, FS_Subset, FS_CardinalityType
<1> QED
    BY <1>1, <1>3

LEMMA LastAndFront ==
    ASSUME NEW s \in Seq(Nat), Len(s) >= 1
    PROVE  /\ s # << >>
           /\ Profile!Last(s) = s[Len(s)]
           /\ Profile!Front(s) \in Seq(Nat) /\ Len(Profile!Front(s)) = Len(s) - 1
           /\ \A k \in 1 .. Len(Profile!Front(s)) : Profile!Front(s)[k] = s[k]
<1>1. PICK n \in Nat : n = Len(s) - 1
    OBVIOUS
<1>2. /\ SubSeq(s, 1, n) \in Seq(Nat) /\ Len(SubSeq(s, 1, n)) = n
      /\ \A k \in 1 .. n : SubSeq(s, 1, n)[k] = s[k]
    BY <1>1
<1>3. Profile!Front(s) = SubSeq(s, 1, n)
    BY <1>1 DEF Profile!Front
<1>4. Profile!Last(s) = s[Len(s)] /\ s # << >>
    BY DEF Profile!Last
<1> QED
    BY <1>1, <1>2, <1>3, <1>4

(***************************************************************************)
(* What a thread does to the spans is one of these, or nothing.            *)
(***************************************************************************)
Opens(w) ==
    /\ \E p \in 0 .. MaxSpans :
        /\ p = 0 \/ (Len(stack[w]) >= 1 /\ p = Innermost(w))
        /\ spans' = Append(spans, [parent |-> p, open |-> TRUE, status |-> "ok"])
    /\ stack' = [stack EXCEPT ![w] = Append(@, Len(spans) + 1)]

FinishesSpan(s) ==
    /\ spans' \in Seq(Profile!Span) /\ Len(spans') = Len(spans)
    /\ \A t \in 1 .. Len(spans) : t # s => spans'[t] = spans[t]
    /\ ~spans'[s].open /\ spans'[s].parent = spans[s].parent

Finishes(w) ==
    /\ Len(stack[w]) >= 1
    /\ FinishesSpan(Innermost(w))
    /\ stack' = [stack EXCEPT ![w] = Profile!Front(@)]

Depths(w, n) ==
    /\ Len(stack'[w]) = n
    /\ \A v \in Workers : v # w => stack'[v] = stack[v]

LEMMA FinishSpanFinishes ==
    ASSUME SpansOK(spans, stack), NEW s \in 1 .. Len(spans), NEW status \in Profile!Statuses,
           Profile!FinishSpan(s, status)
    PROVE  FinishesSpan(s) /\ idle' = 0 /\ quiet' = 0
<1>1. spans \in Seq(Profile!Span) /\ s \in DOMAIN spans
    BY DEF SpansOK
<1>2. PICK x \in Profile!Span : x = spans[s]
    BY <1>1
<1>3. CASE x.open
    <2>1. spans' = [spans EXCEPT ![s].open = FALSE, ![s].status = status]
        BY <1>2, <1>3 DEF Profile!FinishSpan
    <2> DEFINE y == [x EXCEPT !.open = FALSE, !.status = status]
    <2>2. y \in Profile!Span /\ ~y.open /\ y.parent = x.parent
        BY DEF Profile!Span
    <2>3. spans' = [spans EXCEPT ![s] = y]
        BY <1>1, <1>2, <2>1 DEF Profile!Span
    <2> HIDE DEF y
    <2> QED
        <3>1. spans' \in Seq(Profile!Span) /\ Len(spans') = Len(spans) /\ spans'[s] = y
              /\ \A t \in 1 .. Len(spans) : t # s => spans'[t] = spans[t]
            BY <1>1, <2>2, <2>3
        <3>2. idle' = 0 /\ quiet' = 0
            BY DEF Profile!FinishSpan, Profile!Progress
        <3> QED
            BY <1>2, <2>2, <3>1, <3>2 DEF FinishesSpan
<1>4. CASE ~x.open
    BY <1>1, <1>2, <1>4 DEF Profile!FinishSpan, Profile!Progress, FinishesSpan
<1> QED
    BY <1>3, <1>4

LEMMA ReplacedSpan ==
    ASSUME NEW sp \in Seq(Profile!Span), NEW s \in 1 .. Len(sp), NEW y \in Profile!Span
    PROVE  /\ [sp EXCEPT ![s] = y] \in Seq(Profile!Span)
           /\ Len([sp EXCEPT ![s] = y]) = Len(sp)
           /\ [sp EXCEPT ![s] = y][s] = y
           /\ \A t \in 1 .. Len(sp) : t # s => [sp EXCEPT ![s] = y][t] = sp[t]
    OBVIOUS

LEMMA ClosingFinishes ==
    ASSUME SpansOK(spans, stack), NEW s \in 1 .. Len(spans),
           spans' = [spans EXCEPT ![s].open = FALSE]
    PROVE  FinishesSpan(s)
<1>1. spans \in Seq(Profile!Span) /\ s \in DOMAIN spans
    BY DEF SpansOK
<1>2. PICK x \in Profile!Span : x = spans[s]
    BY <1>1
<1> DEFINE y == [x EXCEPT !.open = FALSE]
<1>3. y \in Profile!Span /\ ~y.open /\ y.parent = x.parent
    BY DEF Profile!Span
<1>4. spans' = [spans EXCEPT ![s] = y]
    BY <1>1, <1>2
<1> HIDE DEF y
<1>5. spans' \in Seq(Profile!Span) /\ Len(spans') = Len(spans) /\ spans'[s] = y
      /\ \A t \in 1 .. Len(spans) : t # s => spans'[t] = spans[t]
    <2>1. /\ [spans EXCEPT ![s] = y] \in Seq(Profile!Span)
          /\ Len([spans EXCEPT ![s] = y]) = Len(spans)
          /\ [spans EXCEPT ![s] = y][s] = y
          /\ \A t \in 1 .. Len(spans) : t # s => [spans EXCEPT ![s] = y][t] = spans[t]
        BY <1>1, <1>3, ReplacedSpan
    <2> QED
        BY <2>1, <1>4
<1> QED
    BY <1>2, <1>3, <1>5 DEF FinishesSpan

LEMMA InnermostIsSpan ==
    ASSUME SpansOK(spans, stack), NEW w \in Workers, Len(stack[w]) >= 1
    PROVE  Innermost(w) \in 2 .. Len(spans) /\ Innermost(w) \in 1 .. Len(spans)
<1>1. stack \in [Workers -> Seq(Nat)] /\ Len(stack[w]) \in 1 .. Len(stack[w])
    BY DEF SpansOK
<1>2. stack[w][Len(stack[w])] \in 2 .. Len(spans)
    BY <1>1, Zenon DEF SpansOK, Inside
<1>3. Len(spans) \in Nat
    BY DEF SpansOK
<1> QED
    BY <1>2, <1>3 DEF Innermost

LEMMA OpenMove ==
    ASSUME SpansOK(spans, stack), Len(spans) <= MaxSpans, NEW w \in Workers, NEW p,
           p = 0 \/ (Len(stack[w]) >= 1 /\ p = Innermost(w)),
           Profile!StartSpan(w, p)
    PROVE  /\ Opens(w) /\ idle' = 0 /\ quiet' = 0
           /\ Len(spans') = Len(spans) + 1
           /\ Depths(w, Len(stack[w]) + 1)
<1>1. p \in 0 .. MaxSpans
    <2>1. CASE p = 0
        BY <2>1, BoundsAreNat
    <2>2. CASE Len(stack[w]) >= 1 /\ p = Innermost(w)
        <3>1. stack[w] \in Seq(Nat) /\ Len(stack[w]) \in 1 .. Len(stack[w]) /\ spans \in Seq(Profile!Span)
            BY <2>2 DEF SpansOK
        <3>2. p \in 2 .. Len(spans)
            BY <2>2, <3>1 DEF SpansOK, Inside, Innermost
        <3> QED
            BY <3>1, <3>2, BoundsAreNat
    <2> QED
        BY <2>1, <2>2
<1>2. /\ spans' = Append(spans, [parent |-> p, open |-> TRUE, status |-> "ok"])
      /\ stack' = [stack EXCEPT ![w] = Append(@, Len(spans) + 1)]
      /\ idle' = 0 /\ quiet' = 0
    BY DEF Profile!StartSpan, Profile!NextSpanId, Profile!Progress
<1>3. Opens(w)
    BY <1>1, <1>2 DEF Opens
<1>4. Len(spans') = Len(spans) + 1
    BY <1>2 DEF SpansOK
<1>5. Depths(w, Len(stack[w]) + 1)
    <2>1. stack \in [Workers -> Seq(Nat)] /\ Len(spans) \in Nat
        BY DEF SpansOK
    <2>2. stack'[w] = Append(stack[w], Len(spans) + 1) /\ \A v \in Workers : v # w => stack'[v] = stack[v]
        BY <1>2, <2>1
    <2> QED
        BY <2>1, <2>2 DEF Depths
<1> QED
    BY <1>2, <1>3, <1>4, <1>5

LEMMA FinishMove ==
    ASSUME SpansOK(spans, stack), NEW w \in Workers, Len(stack[w]) >= 1,
           NEW status \in Profile!Statuses,
           Profile!FinishSpan(Profile!Last(stack[w]), status),
           stack' = [stack EXCEPT ![w] = Profile!Front(@)]
    PROVE  /\ Finishes(w) /\ idle' = 0 /\ quiet' = 0
           /\ Len(spans') = Len(spans)
           /\ Depths(w, Len(stack[w]) - 1)
<1>1. stack \in [Workers -> Seq(Nat)] /\ Len(stack[w]) \in 1 .. Len(stack[w])
    BY DEF SpansOK
<1>2. Profile!Last(stack[w]) = Innermost(w) /\ Len(Profile!Front(stack[w])) = Len(stack[w]) - 1
    BY <1>1, LastAndFront DEF Innermost
<1>3. Innermost(w) \in 1 .. Len(spans)
    <2>1. stack[w][Len(stack[w])] \in 2 .. Len(spans)
        BY <1>1, Zenon DEF SpansOK, Inside
    <2>2. Len(spans) \in Nat
        BY DEF SpansOK
    <2> QED
        BY <2>1, <2>2 DEF Innermost
<1>4. FinishesSpan(Innermost(w)) /\ idle' = 0 /\ quiet' = 0
    BY <1>2, <1>3, FinishSpanFinishes
<1>5. stack'[w] = Profile!Front(stack[w]) /\ \A v \in Workers : v # w => stack'[v] = stack[v]
    BY <1>1
<1> QED
    BY <1>2, <1>4, <1>5 DEF Finishes, FinishesSpan, Depths

(***************************************************************************)
(* A thread that moves takes its own room along and nobody else's place.   *)
(***************************************************************************)
Need(at) == IF at \in {"popen", "spawned"} THEN 1 ELSE 0

LEMMA SameCardinality ==
    ASSUME NEW S
    PROVE  Profile!Cardinality(S) = Cardinality(S)
    BY DEF Profile!Cardinality, Cardinality

LEMMA RoomForIsRoom ==
    ASSUME NEW n, Profile!RoomFor(n)
    PROVE  Len(spans) + n + Cardinality(Pending) <= run.room
<1>1. Len(spans) + n + Profile!Cardinality(Pending) <= run.room
    BY DEF Profile!RoomFor, Pending
<1> QED
    BY <1>1, SameCardinality

LEMMA NeedIsSmall ==
    ASSUME NEW x
    PROVE  Need(x) \in {0, 1}
    BY DEF Need

LEMMA NeedsNoMore ==
    ASSUME NEW n \in Nat, NEW c \in Nat, NEW r \in Nat, n + c <= r,
           NEW a \in {0, 1}, NEW b \in {0, 1}, a <= b
    PROVE  n + c + a <= r + b
    OBVIOUS

LEMMA RoomAfter ==
    ASSUME PlacesOK, RoomOK, UNCHANGED run, NEW w \in Workers, NEW x \in Profile!Places,
           doing' = [doing EXCEPT ![w] = x], Len(spans') \in Nat,
           Len(spans') + Cardinality(Pending) + Need(x) <= run.room + Need(doing[w])
    PROVE  RoomOK'
<1>1. /\ doing'[w] = x /\ \A v \in Workers : v # w => doing'[v] = doing[v]
    BY DEF PlacesOK
<1>2. IsFiniteSet(Pending) /\ Cardinality(Pending) \in Nat
    BY FS_CardinalityType DEF RoomOK
<1>3. run.room \in Nat
    BY BoundsAreNat DEF RoomOK
<1>4. Pending' = IF x \in {"popen", "spawned"} THEN Pending \cup {w} ELSE Pending \ {w}
    BY <1>1 DEF Pending
<1>5. w \in Pending <=> doing[w] \in {"popen", "spawned"}
    BY DEF Pending
<1>6. CASE x \in {"popen", "spawned"}
    <2>1. Pending' = Pending \cup {w}
        BY <1>4, <1>6
    <2>2. /\ IsFiniteSet(Pending')
          /\ Cardinality(Pending') = IF w \in Pending THEN Cardinality(Pending) ELSE Cardinality(Pending) + 1
        BY <2>1, <1>2, FS_AddElement
    <2>3. Cardinality(Pending') <= Cardinality(Pending) + 1 - Need(doing[w])
        BY <2>2, <1>2, <1>5 DEF Need
    <2>4. Need(x) = 1 /\ Need(doing[w]) \in {0, 1} /\ Cardinality(Pending') \in Nat
        BY <1>6, <2>2, FS_CardinalityType DEF Need
    <2> QED
        BY <2>2, <2>3, <2>4, <1>2, <1>3 DEF RoomOK
<1>7. CASE x \notin {"popen", "spawned"}
    <2>1. Pending' = Pending \ {w}
        BY <1>4, <1>7
    <2>2. /\ IsFiniteSet(Pending')
          /\ Cardinality(Pending') = IF w \in Pending THEN Cardinality(Pending) - 1 ELSE Cardinality(Pending)
        BY <2>1, <1>2, FS_RemoveElement
    <2>3. Cardinality(Pending') <= Cardinality(Pending) - Need(doing[w])
        BY <2>2, <1>2, <1>5 DEF Need
    <2>4. Need(x) = 0 /\ Need(doing[w]) \in {0, 1} /\ Cardinality(Pending') \in Nat
        BY <1>7, <2>2, FS_CardinalityType DEF Need
    <2> QED
        BY <2>2, <2>3, <2>4, <1>2, <1>3 DEF RoomOK
<1> QED
    BY <1>6, <1>7

LEMMA PlacesAfter ==
    ASSUME PlacesOK, NEW w \in Workers,
           NEW x \in Profile!Places, doing' = [doing EXCEPT ![w] = x],
           NEW c \in {"none", "running", "exited", "left"}, child' = [child EXCEPT ![w] = c],
           \A v \in Workers : v # w => stack'[v] = stack[v],
           Place(x, stack'[w]),
           c = "running" => x \in {"spawned", "waiting", "timeout"}
    PROVE  PlacesOK'
<1>1. /\ doing' \in [Workers -> Profile!Places]
      /\ doing'[w] = x /\ \A v \in Workers : v # w => doing'[v] = doing[v]
    BY DEF PlacesOK
<1>2. /\ child' \in [Workers -> {"none", "running", "exited", "left"}]
      /\ child'[w] = c /\ \A v \in Workers : v # w => child'[v] = child[v]
    BY DEF PlacesOK
<1>3. \A v \in Workers : Place(doing'[v], stack'[v])
    BY <1>1 DEF PlacesOK
<1>4. \A v \in Workers : child'[v] = "running" => doing'[v] \in {"spawned", "waiting", "timeout"}
    BY <1>1, <1>2 DEF PlacesOK
<1> QED
    BY <1>1, <1>2, <1>3, <1>4 DEF PlacesOK, Place

(***************************************************************************)
(* Every step of a thread, its subprocess included.                        *)
(***************************************************************************)
Grown == trace' = trace \/ Profile!Grow
Progressed == (idle' = 0 /\ quiet' = 0) \/ UNCHANGED <<idle, quiet>>

Moves(w) ==
    /\ Opens(w) \/ Finishes(w) \/ UNCHANGED <<spans, stack>>
    /\ Progressed /\ Grown
    /\ UNCHANGED <<run, warned, beat, due, joined, closing>>
    /\ doing[w] # "done"
    /\ PlacesOK' /\ RoomOK'

LEMMA SameIsExcept ==
    ASSUME NEW T, NEW f \in [Workers -> T], NEW w \in Workers
    PROVE  f = [f EXCEPT ![w] = f[w]]
    OBVIOUS

LEMMA WorkerMoves ==
    ASSUME ProfInv, NEW w \in Workers, Profile!Worker(w)
    PROVE  Moves(w)
<1>1. /\ SpansOK(spans, stack) /\ PlacesOK /\ RoomOK
      /\ doing \in [Workers -> Profile!Places] /\ doing[w] \in Profile!Places
      /\ child \in [Workers -> {"none", "running", "exited", "left"}]
      /\ child[w] \in {"none", "running", "exited", "left"}
      /\ stack \in [Workers -> Seq(Nat)] /\ stack[w] \in Seq(Nat) /\ Len(stack[w]) \in Nat
      /\ spans \in Seq(Profile!Span) /\ Len(spans) \in Nat
    BY DEF ProfInv, PlacesOK, SpansOK
<1>2. /\ Cardinality(Pending) \in Nat /\ run.room \in Nat /\ run.room <= MaxSpans
      /\ Len(spans) + Cardinality(Pending) <= run.room /\ MaxSpans \in Nat
    BY <1>1, FS_CardinalityType, BoundsAreNat DEF RoomOK
<1>3. Len(spans) <= MaxSpans
    BY <1>1, <1>2
<1>4. stack[w] # << >> <=> Len(stack[w]) >= 1
    BY <1>1
<1>5. /\ Place(doing[w], stack[w])
      /\ child[w] = "running" => doing[w] \in {"spawned", "waiting", "timeout"}
    BY <1>1 DEF PlacesOK
<1>6. {"code", "raising", "popen", "spawned", "waiting", "exit", "timeout", "done"} = Profile!Places
    BY DEF Profile!Places
<1>7. /\ doing = [doing EXCEPT ![w] = doing[w]] /\ child = [child EXCEPT ![w] = child[w]]
    BY <1>1
<1>8. ASSUME NEW x \in Profile!Places, doing' = [doing EXCEPT ![w] = x],
             NEW c \in {"none", "running", "exited", "left"}, child' = [child EXCEPT ![w] = c],
             \A v \in Workers : v # w => stack'[v] = stack[v],
             Place(x, stack'[w]),
             c = "running" => x \in {"spawned", "waiting", "timeout"},
             Len(spans') + Cardinality(Pending) + Need(x) <= run.room + Need(doing[w]),
             Len(spans') \in Nat,
             Opens(w) \/ Finishes(w) \/ UNCHANGED <<spans, stack>>,
             Progressed, Grown,
             UNCHANGED <<run, warned, beat, due, joined, closing>>,
             doing[w] # "done"
      PROVE  Moves(w)
    BY <1>1, <1>8, RoomAfter, PlacesAfter DEF Moves
<1>9. Need(doing[w]) <= Need(doing[w])
    BY NeedIsSmall
<1>10. ASSUME NEW x \in Profile!Places, Need(x) <= Need(doing[w])
       PROVE  Len(spans) + Cardinality(Pending) + Need(x) <= run.room + Need(doing[w])
    <2>1. Len(spans) \in Nat /\ Cardinality(Pending) \in Nat /\ run.room \in Nat
        BY <1>1, <1>2
    <2>2. Len(spans) + Cardinality(Pending) <= run.room
        BY <1>2
    <2>3. Need(x) \in {0, 1} /\ Need(doing[w]) \in {0, 1}
        BY NeedIsSmall
    <2> QED
        BY <2>1, <2>2, <2>3, <1>10, NeedsNoMore
<1>11. CASE Profile!Enter(w)
    <2>1. PICK p \in Profile!Parents(w) : Profile!StartSpan(w, p)
        BY <1>11 DEF Profile!Enter
    <2>2. /\ doing[w] = "code" /\ Profile!RoomFor(1)
          /\ UNCHANGED <<run, warned, doing, child, beat, due, joined, closing, trace>>
        BY <1>11 DEF Profile!Enter, Profile!clocks
    <2>3. p = 0 \/ (Len(stack[w]) >= 1 /\ p = Innermost(w))
        BY <2>1, <1>1, <1>4, LastAndFront DEF Profile!Parents, Innermost
    <2>4. /\ Opens(w) /\ idle' = 0 /\ quiet' = 0 /\ Len(spans') = Len(spans) + 1
          /\ Depths(w, Len(stack[w]) + 1)
        BY <2>1, <2>3, <1>1, <1>3, OpenMove
    <2>5. Len(spans) + 1 + Cardinality(Pending) <= run.room
        BY <2>2, RoomForIsRoom
    <2>6. Place(doing[w], stack'[w]) /\ child[w] # "running"
        BY <2>2, <1>5 DEF Place
    <2>7. Len(spans') + Cardinality(Pending) + Need(doing[w]) <= run.room + Need(doing[w])
          /\ Len(spans') \in Nat
        <3>1. Need(doing[w]) = 0
            BY <2>2 DEF Need
        <3> QED
            BY <2>4, <2>5, <3>1, <1>1, <1>2
    <2> QED
        BY <2>2, <2>4, <2>6, <2>7, <1>1, <1>7, <1>8 DEF Depths, Progressed, Grown
<1>12. CASE Profile!Leave(w)
    <2>1. /\ doing[w] = "code" /\ stack[w] # << >>
          /\ Profile!FinishSpan(Profile!Last(stack[w]), "ok")
          /\ stack' = [stack EXCEPT ![w] = Profile!Front(@)]
          /\ UNCHANGED <<run, warned, doing, child, beat, due, joined, closing, trace>>
        BY <1>12 DEF Profile!Leave, Profile!clocks
    <2>2. /\ Finishes(w) /\ idle' = 0 /\ quiet' = 0 /\ Len(spans') = Len(spans)
          /\ Depths(w, Len(stack[w]) - 1)
        BY <2>1, <1>1, <1>4, FinishMove DEF Profile!Statuses
    <2>3. Place(doing[w], stack'[w]) /\ child[w] # "running"
        BY <2>1, <1>5 DEF Place
    <2>4. Len(spans) + Cardinality(Pending) + Need(doing[w]) <= run.room + Need(doing[w])
        BY <1>1, <1>9, <1>10
    <2> QED
        BY <2>1, <2>2, <2>3, <2>4, <1>1, <1>7, <1>8 DEF Depths, Progressed, Grown
<1>13. CASE Profile!Raise(w) \/ Profile!WorkerDone(w)
    <2>1. PICK x \in {"raising", "done"} :
            /\ doing' = [doing EXCEPT ![w] = x]
            /\ x = "done" => stack[w] = << >>
        BY <1>13 DEF Profile!Raise, Profile!WorkerDone
    <2>2. /\ doing[w] \in {"code", "raising"}
          /\ UNCHANGED <<run, spans, warned, stack, child, idle, quiet, beat, due, joined, closing, trace>>
        BY <1>13 DEF Profile!Raise, Profile!WorkerDone, Profile!clocks
    <2>3. Place(x, stack'[w]) /\ child[w] # "running"
        BY <2>1, <2>2, <1>1, <1>4, <1>5 DEF Place
    <2>4. Need(x) <= Need(doing[w]) /\ x \in Profile!Places
        BY <2>1, <2>2, <1>6 DEF Need
    <2> QED
        BY <2>1, <2>2, <2>3, <2>4, <1>1, <1>7, <1>8, <1>10 DEF Progressed, Grown
<1>14. CASE Profile!Unwind(w)
    <2>1. /\ doing[w] = "raising" /\ stack[w] # << >>
          /\ Profile!FinishSpan(Profile!Last(stack[w]), "error")
          /\ stack' = [stack EXCEPT ![w] = Profile!Front(@)]
          /\ UNCHANGED <<run, warned, child, beat, due, joined, closing, trace>>
        BY <1>14 DEF Profile!Unwind, Profile!FinishOnError, Profile!clocks
    <2>2. PICK x \in {"raising", "code"} : doing' = [doing EXCEPT ![w] = x]
        BY <1>14 DEF Profile!Unwind
    <2>3. /\ Finishes(w) /\ idle' = 0 /\ quiet' = 0 /\ Len(spans') = Len(spans)
          /\ Depths(w, Len(stack[w]) - 1)
        BY <2>1, <1>1, <1>4, FinishMove DEF Profile!Statuses
    <2>4. Place(x, stack'[w]) /\ child[w] # "running"
        BY <2>1, <2>2, <1>5 DEF Place
    <2>5. Need(x) <= Need(doing[w]) /\ x \in Profile!Places
        BY <2>1, <2>2, <1>6 DEF Need
    <2> QED
        BY <2>1, <2>2, <2>3, <2>4, <2>5, <1>1, <1>7, <1>8, <1>10 DEF Depths, Progressed, Grown

<1>15. CASE Profile!SubprocessStart(w)
    <2>1. PICK p \in Profile!Parents(w) : Profile!StartSpan(w, p)
        BY <1>15 DEF Profile!SubprocessStart
    <2>2. /\ doing[w] = "code" /\ Profile!RoomFor(2) /\ doing' = [doing EXCEPT ![w] = "popen"]
          /\ UNCHANGED <<run, warned, child, beat, due, joined, closing, trace>>
        BY <1>15 DEF Profile!SubprocessStart, Profile!clocks
    <2>3. p = 0 \/ (Len(stack[w]) >= 1 /\ p = Innermost(w))
        BY <2>1, <1>1, <1>4, LastAndFront DEF Profile!Parents, Innermost
    <2>4. /\ Opens(w) /\ idle' = 0 /\ quiet' = 0 /\ Len(spans') = Len(spans) + 1
          /\ Depths(w, Len(stack[w]) + 1)
        BY <2>1, <2>3, <1>1, <1>3, OpenMove
    <2>5. Len(spans) + 2 + Cardinality(Pending) <= run.room
        BY <2>2, RoomForIsRoom
    <2>6. Place("popen", stack'[w]) /\ child[w] # "running"
        BY <2>2, <2>4, <1>1, <1>5 DEF Place, Depths
    <2>7. Len(spans') + Cardinality(Pending) + Need("popen") <= run.room + Need(doing[w])
          /\ Len(spans') \in Nat
        <3>1. Need("popen") = 1 /\ Need(doing[w]) = 0
            BY <2>2 DEF Need
        <3> QED
            BY <2>4, <2>5, <3>1, <1>1, <1>2
    <2> QED
        BY <2>2, <2>4, <2>6, <2>7, <1>1, <1>6, <1>7, <1>8 DEF Depths, Progressed, Grown
<1>16. CASE Profile!Popen(w)
    <2>1. /\ doing[w] = "popen"
          /\ UNCHANGED <<run, spans, warned, stack, beat, due, joined, closing>>
        BY <1>16 DEF Profile!Popen, Profile!clocks
    <2>2. CASE /\ child' = [child EXCEPT ![w] = "running"]
               /\ doing' = [doing EXCEPT ![w] = "spawned"]
               /\ Profile!Progress /\ Profile!Grow
        <3>1. Place("spawned", stack'[w]) /\ Need("spawned") <= Need(doing[w])
            BY <2>1, <1>1, <1>5 DEF Place, Need
        <3> QED
            BY <2>1, <2>2, <3>1, <1>1, <1>6, <1>8, <1>10 DEF Profile!Progress, Progressed, Grown
    <2>3. CASE doing' = [doing EXCEPT ![w] = "raising"] /\ UNCHANGED <<child, idle, quiet, trace>>
        <3>1. Place("raising", stack'[w]) /\ Need("raising") <= Need(doing[w]) /\ child[w] # "running"
            BY <2>1, <1>5 DEF Place, Need
        <3> QED
            BY <2>1, <2>3, <3>1, <1>1, <1>6, <1>7, <1>8, <1>10 DEF Progressed, Grown
    <2> QED
        BY <1>16, <2>2, <2>3 DEF Profile!Popen
<1>17. CASE Profile!OpenWait(w)
    <2>1. /\ doing[w] = "spawned" /\ Profile!StartSpan(w, Profile!Last(stack[w]))
          /\ doing' = [doing EXCEPT ![w] = "waiting"]
          /\ UNCHANGED <<run, warned, child, beat, due, joined, closing, trace>>
        BY <1>17 DEF Profile!OpenWait, Profile!clocks
    <2>2. Len(stack[w]) >= 1
        BY <2>1, <1>5 DEF Place
    <2>3. Profile!Last(stack[w]) = Innermost(w)
        BY <2>2, <1>1, LastAndFront DEF Innermost
    <2>4. Len(spans) + 1 + Cardinality(Pending) <= run.room + 1
        BY <1>1, <1>2
    <2>5. /\ Opens(w) /\ idle' = 0 /\ quiet' = 0 /\ Len(spans') = Len(spans) + 1
          /\ Depths(w, Len(stack[w]) + 1)
        BY <2>1, <2>2, <2>3, <1>1, <1>3, OpenMove
    <2>6. Place("waiting", stack'[w])
        BY <2>2, <2>5, <1>1 DEF Place, Depths
    <2>7. Len(spans') + Cardinality(Pending) + Need("waiting") <= run.room + Need(doing[w])
          /\ Len(spans') \in Nat
        <3>1. Need("waiting") = 0 /\ Need(doing[w]) = 1
            BY <2>1 DEF Need
        <3> QED
            BY <2>4, <2>5, <3>1, <1>1, <1>2
    <2> QED
        BY <2>1, <2>5, <2>6, <2>7, <1>1, <1>6, <1>7, <1>8 DEF Depths, Progressed, Grown
<1>18. CASE Profile!ChildExits(w)
    <2>1. /\ child[w] = "running" /\ child' = [child EXCEPT ![w] = "exited"]
          /\ UNCHANGED <<run, spans, warned, stack, doing, idle, quiet, beat, due, joined, closing, trace>>
        BY <1>18 DEF Profile!ChildExits, Profile!clocks
    <2>2. doing[w] # "done" /\ Place(doing[w], stack'[w])
        BY <2>1, <1>5
    <2>3. Len(spans) + Cardinality(Pending) + Need(doing[w]) <= run.room + Need(doing[w])
        BY <1>1, <1>9, <1>10
    <2> QED
        BY <2>1, <2>2, <2>3, <1>1, <1>7, <1>8 DEF Progressed, Grown
<1>19. CASE Profile!Communicated(w)
    <2>1. /\ doing[w] = "waiting" /\ child[w] = "exited"
          /\ Profile!FinishSpan(Profile!Last(stack[w]), "ok")
          /\ stack' = [stack EXCEPT ![w] = Profile!Front(@)]
          /\ doing' = [doing EXCEPT ![w] = "exit"]
          /\ UNCHANGED <<run, warned, child, beat, due, joined, closing, trace>>
        BY <1>19 DEF Profile!Communicated, Profile!clocks
    <2>2. Len(stack[w]) >= 2
        BY <2>1, <1>5 DEF Place
    <2>3. /\ Finishes(w) /\ idle' = 0 /\ quiet' = 0 /\ Len(spans') = Len(spans)
          /\ Depths(w, Len(stack[w]) - 1)
        <3>1. Len(stack[w]) >= 1
            BY <2>2, <1>1
        <3> QED
            BY <2>1, <3>1, <1>1, FinishMove DEF Profile!Statuses
    <2>4. Place("exit", stack'[w])
        BY <2>2, <2>3, <1>1 DEF Place, Depths
    <2>5. Need("exit") <= Need(doing[w])
        BY <2>1 DEF Need
    <2> QED
        BY <2>1, <2>3, <2>4, <2>5, <1>1, <1>6, <1>7, <1>8, <1>10 DEF Depths, Progressed, Grown
<1>20. CASE Profile!Returned(w)
    <2>1. /\ doing[w] = "exit" /\ idle' = 0 /\ quiet' = 0 /\ Profile!Grow
          /\ child' = [child EXCEPT ![w] = "none"]
          /\ UNCHANGED <<run, warned, beat, due, joined, closing>>
        BY <1>20 DEF Profile!Returned, Profile!Progress, Profile!clocks
    <2>2. Len(stack[w]) >= 1
        BY <2>1, <1>5 DEF Place
    <2>3. CASE doing' = [doing EXCEPT ![w] = "raising"] /\ UNCHANGED <<spans, stack>>
        <3>1. Place("raising", stack'[w]) /\ Need("raising") <= Need(doing[w])
            BY <2>1 DEF Place, Need
        <3> QED
            BY <2>1, <2>3, <3>1, <1>1, <1>6, <1>8, <1>10 DEF Progressed, Grown
    <2>4. CASE /\ doing' = [doing EXCEPT ![w] = "code"]
               /\ spans' = [spans EXCEPT ![Profile!Last(stack[w])].open = FALSE]
               /\ stack' = [stack EXCEPT ![w] = Profile!Front(@)]
        <3>1. Innermost(w) \in 1 .. Len(spans) /\ Profile!Last(stack[w]) = Innermost(w)
              /\ Len(Profile!Front(stack[w])) = Len(stack[w]) - 1
            BY <2>2, <1>1, LastAndFront, InnermostIsSpan DEF Innermost
        <3>2. FinishesSpan(Innermost(w))
            BY <2>4, <3>1, <1>1, ClosingFinishes
        <3>3. Finishes(w) /\ \A v \in Workers : v # w => stack'[v] = stack[v]
            BY <2>2, <2>4, <3>2, <1>1 DEF Finishes
        <3>4. Place("code", stack'[w]) /\ Need("code") <= Need(doing[w])
            BY <2>1 DEF Place, Need
        <3>5. Len(spans') = Len(spans)
            BY <3>2 DEF FinishesSpan
        <3> QED
            BY <2>1, <2>4, <3>3, <3>4, <3>5, <1>1, <1>6, <1>8, <1>10 DEF Progressed, Grown
    <2> QED
        BY <1>20, <2>3, <2>4 DEF Profile!Returned
<1>21. CASE Profile!TimedOut(w)
    <2>1. /\ doing[w] = "waiting" /\ doing' = [doing EXCEPT ![w] = "timeout"]
          /\ idle' = 0 /\ quiet' = 0 /\ Profile!Grow
          /\ UNCHANGED <<run, spans, warned, stack, child, beat, due, joined, closing>>
        BY <1>21 DEF Profile!TimedOut, Profile!Progress, Profile!clocks
    <2>2. Place("timeout", stack'[w]) /\ Need("timeout") <= Need(doing[w])
        BY <2>1, <1>1, <1>5 DEF Place, Need
    <2> QED
        BY <2>1, <2>2, <1>1, <1>6, <1>7, <1>8, <1>10 DEF Progressed, Grown
<1>22. CASE Profile!Kill(w)
    <2>1. /\ doing[w] = "timeout" /\ doing' = [doing EXCEPT ![w] = "raising"]
          /\ child' = [child EXCEPT ![w] = "none"]
          /\ idle' = 0 /\ quiet' = 0 /\ Profile!Grow
          /\ UNCHANGED <<run, spans, warned, stack, beat, due, joined, closing>>
        BY <1>22 DEF Profile!Kill, Profile!KillChild, Profile!Progress, Profile!clocks
    <2>2. Place("raising", stack'[w]) /\ Need("raising") <= Need(doing[w])
        BY <2>1 DEF Place, Need
    <2> QED
        BY <2>1, <2>2, <1>1, <1>6, <1>8, <1>10 DEF Progressed, Grown
<1>23. CASE Profile!Interrupted(w)
    <2>1. /\ doing[w] \in {"spawned", "waiting", "timeout"}
          /\ doing' = [doing EXCEPT ![w] = "raising"]
          /\ child' = [child EXCEPT ![w] = IF @ = "running" THEN "left" ELSE @]
          /\ UNCHANGED <<run, spans, warned, stack, idle, quiet, beat, due, joined, closing, trace>>
        BY <1>23 DEF Profile!Interrupted, Profile!clocks
    <2>2. Place("raising", stack'[w]) /\ Need("raising") <= Need(doing[w])
        BY <2>1, NeedIsSmall DEF Place, Need
    <2>3. PICK c \in {"none", "exited", "left"} : child' = [child EXCEPT ![w] = c]
        BY <2>1, <1>1
    <2> QED
        BY <2>1, <2>2, <2>3, <1>1, <1>6, <1>8, <1>10 DEF Progressed, Grown
<1> QED
    BY <1>11, <1>12, <1>13, <1>14, <1>15, <1>16, <1>17, <1>18, <1>19, <1>20, <1>21, <1>22, <1>23
    DEF Profile!Worker, Profile!Subprocess


LEMMA MovesKeepSpans ==
    ASSUME SpansOK(spans, stack), NEW w \in Workers,
           Opens(w) \/ Finishes(w) \/ UNCHANGED <<spans, stack>>
    PROVE  SpansOK(spans', stack') /\ spans'[1] = spans[1] /\ Len(spans') >= 1
<1>1. spans \in Seq(Profile!Span) /\ Len(spans) \in Nat /\ Len(spans) >= 1
      /\ stack[w] \in Seq(Nat)
    BY DEF SpansOK
<1>2. CASE Opens(w)
    <2>1. PICK p \in 0 .. MaxSpans :
            /\ p = 0 \/ (Len(stack[w]) >= 1 /\ p = stack[w][Len(stack[w])])
            /\ spans' = Append(spans, [parent |-> p, open |-> TRUE, status |-> "ok"])
        BY <1>2 DEF Opens, Innermost
    <2>2. stack' = [stack EXCEPT ![w] = Append(@, Len(spans) + 1)]
        BY <1>2 DEF Opens
    <2>3. SpansOK(spans', stack')
        BY <2>1, <2>2, PushKeepsSpans
    <2>4. spans'[1] = spans[1] /\ Len(spans') >= 1
        BY <2>1, <1>1
    <2> QED
        BY <2>3, <2>4
<1>3. CASE Finishes(w)
    <2>1. /\ Len(stack[w]) >= 1 /\ stack' = [stack EXCEPT ![w] = Profile!Front(stack[w])]
          /\ FinishesSpan(Innermost(w))
        BY <1>3 DEF Finishes
    <2>2. /\ Profile!Front(stack[w]) \in Seq(Nat)
          /\ Len(Profile!Front(stack[w])) = Len(stack[w]) - 1
          /\ \A k \in 1 .. Len(Profile!Front(stack[w])) : Profile!Front(stack[w])[k] = stack[w][k]
        BY <1>1, <2>1, LastAndFront
    <2>3. Innermost(w) = stack[w][Len(stack[w])] /\ Innermost(w) \in 2 .. Len(spans)
        BY <2>1, InnermostIsSpan DEF Innermost
    <2>4. /\ spans' \in Seq(Profile!Span) /\ Len(spans') = Len(spans)
          /\ \A t \in 1 .. Len(spans) : t # Innermost(w) => spans'[t] = spans[t]
          /\ ~spans'[Innermost(w)].open /\ spans'[Innermost(w)].parent = spans[Innermost(w)].parent
        BY <2>1 DEF FinishesSpan
    <2>5. SpansOK(spans', stack')
        BY <2>1, <2>2, <2>3, <2>4, PopKeepsSpans
    <2>6. spans'[1] = spans[1] /\ Len(spans') >= 1
        BY <2>3, <2>4, <1>1
    <2> QED
        BY <2>5, <2>6
<1>4. CASE UNCHANGED <<spans, stack>>
    BY <1>1, <1>4
<1> QED
    BY <1>2, <1>3, <1>4

(***************************************************************************)
(* A trace that was not sealed in quiet may grow, and no other.            *)
(***************************************************************************)
LEMMA GrownTraceIsOK ==
    ASSUME TraceOK, ~trace.quiet, Grown, UNCHANGED closing, spans'[1] = spans[1]
    PROVE  TraceOK'
<1>1. trace \in Trace
    BY DEF TraceOK
<1>2. CASE trace' = trace
    BY <1>2 DEF TraceOK
<1>3. CASE closing = "sealed" /\ trace' = [trace EXCEPT !.grown = TRUE]
    <2>1. trace' \in Trace /\ ~trace'.quiet /\ trace'.spans = trace.spans
        BY <1>1, <1>3 DEF Trace
    <2> QED
        BY <1>3, <2>1 DEF TraceOK
<1> QED
    BY <1>2, <1>3 DEF Grown, Profile!Grow

LEMMA ProgressKeepsClocks ==
    ASSUME ClocksOK, Progressed, UNCHANGED <<run, warned, beat, due, joined, closing>>
    PROVE  ClocksOK'
<1>1. CASE UNCHANGED <<idle, quiet>>
    BY <1>1 DEF ClocksOK, Profile!Detailed
<1>2. CASE idle' = 0 /\ quiet' = 0
    <2>1. 0 \in 0 .. Silence + Beat + 1 /\ \A d \in 0 .. Beat : 0 <= Silence + Beat - d
        BY BoundsAreNat
    <2> QED
        BY <1>2, <2>1 DEF ClocksOK, Profile!Detailed
<1> QED
    BY <1>1, <1>2 DEF Progressed

LEMMA WorkerKeeps ==
    ASSUME ProfInv, NEW w \in Workers, Profile!Worker(w)
    PROVE  ProfInv'
<1>1. Moves(w)
    BY WorkerMoves
<1>2. SpansOK(spans', stack') /\ spans'[1] = spans[1]
    BY <1>1, MovesKeepSpans DEF Moves, ProfInv
<1>3. ~trace.quiet
    BY <1>1 DEF Moves, ProfInv, TraceOK, Profile!Quiet
<1>4. TraceOK'
    BY <1>1, <1>2, <1>3, GrownTraceIsOK DEF Moves, ProfInv
<1>5. ClocksOK'
    BY <1>1, ProgressKeepsClocks DEF Moves, ProfInv
<1> QED
    BY <1>1, <1>2, <1>4, <1>5 DEF Moves, ProfInv, SpansOK, Inside, Own, AtWork, Nested


(***************************************************************************)
(* The steps that are no thread's.                                         *)
(***************************************************************************)
Counted == Profile!Summary \in Profile!Count

LEMMA SummaryCounts == SpansOK(spans, stack) /\ RoomOK /\ ClocksOK => Counted
<1> SUFFICES ASSUME SpansOK(spans, stack), RoomOK, ClocksOK
             PROVE  Counted
    OBVIOUS
<1>1. Len(spans) \in 0 .. MaxSpans
    <2>1. Len(spans) \in Nat /\ run.room \in Nat /\ run.room <= MaxSpans /\ MaxSpans \in Nat
        BY BoundsAreNat DEF SpansOK, RoomOK
    <2>2. Cardinality(Pending) \in Nat /\ Len(spans) + Cardinality(Pending) <= run.room
        BY FS_CardinalityType DEF RoomOK
    <2> QED
        BY <2>1, <2>2
<1>2. Profile!Open \in SUBSET (1 .. Len(spans))
    BY DEF Profile!Open
<1>3. Cardinality(Profile!Open) \in 0 .. MaxSpans
    BY <1>1, <1>2, OpenSpansAreCounted
<1>4. Profile!Cardinality(Profile!Open) \in 0 .. MaxSpans /\ warned \in BOOLEAN
    BY <1>3, SameCardinality DEF ClocksOK
<1> QED
    BY <1>1, <1>4 DEF Counted, Profile!Summary, Profile!Count

LEMMA SameTraceIsOK ==
    ASSUME TraceOK, UNCHANGED <<spans, doing, warned, trace, closing>>, Profile!Quiet => Profile!Quiet'
    PROVE  TraceOK'
<1>1. Profile!Summary' = Profile!Summary
    BY DEF Profile!Summary, Profile!Open
<1> QED
    BY <1>1 DEF TraceOK

LEMMA SameSpansAreOK ==
    ASSUME SpansOK(spans, stack), PlacesOK, RoomOK, UNCHANGED <<run, spans, stack, doing, child>>
    PROVE  SpansOK(spans, stack)' /\ PlacesOK' /\ RoomOK'
<1>1. Pending' = Pending
    BY DEF Pending
<1>2. PlacesOK' /\ RoomOK'
    BY <1>1 DEF PlacesOK, Place, RoomOK
<1>3. SpansOK(spans, stack)'
    <2>1. SpansOK(spans', stack')
        OBVIOUS
    <2> QED
        BY <2>1 DEF SpansOK, Inside, Own, AtWork, Nested
<1> QED
    BY <1>2, <1>3

LEMMA WatcherKeeps ==
    ASSUME ProfInv, Profile!WatcherEvent
    PROVE  ProfInv'
<1>1. /\ UNCHANGED <<run, spans, warned, stack, doing, child, beat, due, joined, closing, trace>>
      /\ Progressed
    BY DEF Profile!WatcherEvent, Profile!workers, Profile!clocks, Profile!Progress, Progressed
<1>2. TraceOK'
    BY <1>1, SameTraceIsOK DEF ProfInv, Profile!Quiet
<1> QED
    BY <1>1, <1>2, SameSpansAreOK, ProgressKeepsClocks DEF ProfInv

LEMMA WakeUpKeeps ==
    ASSUME ProfInv, Profile!WakeUp
    PROVE  ProfInv'
<1>1. /\ UNCHANGED <<run, spans, warned, stack, doing, child, idle, quiet, due, joined, closing, trace>>
      /\ beat = "waiting" /\ ((closing # "no" /\ beat' = "done") \/ (closing = "no" /\ beat' = "late"))
    BY DEF Profile!WakeUp, Profile!workers, Profile!clocks
<1>2. TraceOK'
    BY <1>1, SameTraceIsOK DEF ProfInv, Profile!Quiet
<1>3. ClocksOK'
    BY <1>1 DEF ProfInv, ClocksOK, Profile!Detailed
<1> QED
    BY <1>1, <1>2, <1>3, SameSpansAreOK DEF ProfInv

LEMMA HeartbeatKeeps ==
    ASSUME ProfInv, Profile!Heartbeat
    PROVE  ProfInv'
<1>1. /\ UNCHANGED <<run, spans, stack, doing, child, idle, quiet, joined, closing>> /\ Grown
      /\ beat = "late" /\ beat' = "waiting" /\ due' = Beat /\ warned' = (warned \/ idle > Silence)
    BY DEF Profile!Heartbeat, Profile!BeatProgress, Profile!workers, Grown
<1>2. ~trace.quiet
    BY <1>1 DEF ProfInv, TraceOK, Profile!Quiet
<1>3. TraceOK'
    BY <1>1, <1>2, GrownTraceIsOK DEF ProfInv
<1>4. ClocksOK'
    <2>1. warned \in BOOLEAN /\ idle \in Nat
        BY BoundsAreNat DEF ProfInv, ClocksOK
    <2>2. warned' \in BOOLEAN
        BY <2>1, <1>1, Zenon
    <2>3. idle <= Silence => idle <= Silence + Beat - Beat
        BY <2>1, BoundsAreNat
    <2>4. idle > Silence \/ idle <= Silence
        BY <2>1, BoundsAreNat
    <2>5. warned' \/ idle' <= Silence + Beat - due'
        BY <2>3, <2>4, <1>1
    <2>6. due' \in 0 .. Beat
        BY <1>1, BoundsAreNat
    <2> QED
        BY <2>2, <2>5, <2>6, <1>1 DEF ProfInv, ClocksOK, Profile!Detailed
<1> QED
    BY <1>1, <1>3, <1>4, SameSpansAreOK DEF ProfInv

LEMMA SealKeeps ==
    ASSUME ProfInv, Profile!Seal
    PROVE  ProfInv'
<1>1. /\ UNCHANGED <<run, warned, stack, doing, child, beat, due, joined>>
      /\ closing = "joining" /\ closing' = "sealed" /\ Profile!FinishSpan(1, "ok")
      /\ trace' = [trace EXCEPT !.summary = Profile!Summary', !.quiet = Profile!Quiet]
    BY DEF Profile!Seal, Profile!FinishRoot, Profile!Root, Profile!workers, Profile!clocks
<1>2. /\ SpansOK(spans, stack) /\ PlacesOK /\ RoomOK /\ ClocksOK /\ TraceOK
      /\ 1 \in 1 .. Len(spans) /\ Len(spans) \in Nat
    BY DEF ProfInv, SpansOK
<1>3. FinishesSpan(1) /\ idle' = 0 /\ quiet' = 0
    BY <1>1, <1>2, FinishSpanFinishes DEF Profile!Statuses
<1>4. SpansOK(spans', stack) /\ Len(spans') = Len(spans) /\ ~spans'[1].open
    BY <1>2, <1>3, SealKeepsSpans DEF FinishesSpan
<1>5. SpansOK(spans, stack)'
    BY <1>1, <1>4 DEF SpansOK, Inside, Own, AtWork, Nested
<1>6. PlacesOK' /\ RoomOK'
    <2>1. Pending' = Pending
        BY <1>1 DEF Pending
    <2> QED
        BY <2>1, <1>1, <1>2, <1>4 DEF PlacesOK, Place, RoomOK
<1>7. ClocksOK'
    <2>1. 0 \in 0 .. Silence + Beat + 1
        BY BoundsAreNat
    <2> QED
        BY <2>1, <1>1, <1>2, <1>3 DEF ClocksOK, Profile!Detailed
<1>8. Profile!Summary' \in Profile!Count
    <2>1. Counted'
        BY <1>5, <1>6, <1>7, SummaryCounts, PTL
    <2> QED
        BY <2>1 DEF Counted
<1>9. TraceOK'
    <2>1. trace \in Trace /\ ~trace.grown /\ Profile!Quiet \in BOOLEAN
        BY <1>1, <1>2 DEF TraceOK, Profile!Quiet
    <2>2. /\ trace' \in Trace /\ ~trace'.grown
          /\ trace'.summary = Profile!Summary' /\ trace'.quiet = Profile!Quiet
        BY <2>1, <1>1, <1>8 DEF Trace
    <2>3. Profile!Quiet => Profile!Quiet'
        BY <1>1 DEF Profile!Quiet
    <2> QED
        BY <2>2, <2>3, <1>1, <1>4 DEF TraceOK
<1> QED
    BY <1>5, <1>6, <1>7, <1>9 DEF ProfInv

LEMMA WritesKeep ==
    ASSUME ProfInv, Profile!CloseStarts \/ Profile!WriteTrace \/ Profile!WriteSummary
    PROVE  ProfInv'
<1>1. /\ UNCHANGED <<run, spans, warned, stack, doing, child, idle, quiet, beat, due, joined>>
      /\ closing' # "no"
    BY DEF Profile!CloseStarts, Profile!WriteTrace, Profile!WriteSummary, Profile!workers, Profile!clocks
<1>2. /\ SpansOK(spans, stack) /\ PlacesOK /\ RoomOK /\ ClocksOK /\ TraceOK /\ trace \in Trace
      /\ spans \in Seq(Profile!Span) /\ Len(spans) >= 1
    BY DEF ProfInv, SpansOK, TraceOK
<1>3. ClocksOK'
    BY <1>1, <1>2 DEF ClocksOK
<1>4. Profile!Summary' = Profile!Summary /\ Profile!Quiet' = Profile!Quiet
    BY <1>1 DEF Profile!Summary, Profile!Open, Profile!Quiet
<1>5. Profile!Summary \in Profile!Count
    BY <1>2, SummaryCounts DEF Counted
<1>6. TraceOK'
    <2>1. CASE Profile!CloseStarts
        BY <2>1, <1>1, <1>2 DEF Profile!CloseStarts, TraceOK
    <2>2. CASE Profile!WriteTrace
        <3>1. /\ closing = "sealed" /\ closing' = "written" /\ trace' = [trace EXCEPT !.spans = spans]
            BY <2>2 DEF Profile!WriteTrace
        <3>2. /\ trace' \in Trace /\ trace'.spans = spans /\ trace'.quiet = trace.quiet
              /\ trace'.grown = trace.grown /\ trace'.summary = trace.summary
            BY <3>1, <1>2 DEF Trace
        <3> QED
            BY <3>1, <3>2, <1>1, <1>2, <1>4 DEF TraceOK
    <2>3. CASE Profile!WriteSummary
        <3>1. /\ closing = "written" /\ closing' = "closed"
              /\ trace' = [trace EXCEPT !.page = Profile!Summary]
            BY <2>3 DEF Profile!WriteSummary
        <3>2. /\ trace' \in Trace /\ trace'.spans = trace.spans /\ trace'.quiet = trace.quiet
              /\ trace'.grown = trace.grown /\ trace'.summary = trace.summary
              /\ trace'.page = Profile!Summary
            BY <3>1, <1>2, <1>5 DEF Trace
        <3> QED
            BY <3>1, <3>2, <1>1, <1>2, <1>4 DEF TraceOK
    <2> QED
        BY <2>1, <2>2, <2>3
<1> QED
    BY <1>1, <1>2, <1>3, <1>6, SameSpansAreOK DEF ProfInv

LEMMA ClocksTick ==
    ASSUME NEW S \in Nat, NEW B \in Nat, NEW i \in 0 .. S + B + 1, NEW d \in 0 .. B
    PROVE  /\ Profile!Least(i + 1, S + B + 1) \in 0 .. S + B + 1
           /\ (IF d > 0 THEN d - 1 ELSE 0) \in 0 .. B
           /\ d # 0 /\ i <= S + B - d =>
                Profile!Least(i + 1, S + B + 1) <= S + B - (IF d > 0 THEN d - 1 ELSE 0)
    BY DEF Profile!Least

LEMMA JoinTick ==
    ASSUME NEW j \in Nat, NEW n \in 0 .. j
    PROVE  Profile!Least(n + 1, j) \in 0 .. j
    BY DEF Profile!Least

LEMMA TickKeeps ==
    ASSUME ProfInv, Profile!Tick
    PROVE  ProfInv'
<1>1. /\ UNCHANGED <<run, spans, warned, stack, doing, child, beat, closing, trace>>
      /\ closing \in {"no", "joining"} /\ ~Profile!Urgent
    BY DEF Profile!Tick, Profile!workers
<1>2. TraceOK'
    BY <1>1, SameTraceIsOK DEF ProfInv, Profile!Quiet
<1>3. ClocksOK /\ Silence \in Nat /\ Beat \in Nat /\ JoinLimit \in Nat
    BY BoundsAreNat DEF ProfInv
<1>4. CASE closing = "joining"
    <2>1. joined' = Profile!Least(joined + 1, JoinLimit) /\ UNCHANGED <<idle, quiet, due>>
        BY <1>4 DEF Profile!Tick
    <2>2. joined' \in 0 .. JoinLimit
        BY <2>1, <1>3, JoinTick DEF ClocksOK
    <2>3. ClocksOK'
        BY <2>1, <2>2, <1>1, <1>3, <1>4 DEF ClocksOK, Profile!Detailed
    <2> QED
        BY <2>3, <1>1, <1>2, SameSpansAreOK DEF ProfInv
<1>5. CASE closing # "joining"
    <2>1. /\ idle' = Profile!Least(idle + 1, Silence + Beat + 1)
          /\ quiet' = Profile!Least(quiet + 1, Silence + Beat + 1)
          /\ due' = (IF due > 0 THEN due - 1 ELSE 0)
          /\ UNCHANGED joined
        BY <1>5 DEF Profile!Tick
    <2>2. idle = quiet /\ idle \in 0 .. Silence + Beat + 1 /\ due \in 0 .. Beat
        BY <1>3 DEF ClocksOK
    <2>3. idle' = quiet' /\ idle' \in 0 .. Silence + Beat + 1 /\ due' \in 0 .. Beat
        BY <2>1, <2>2, <1>3, ClocksTick
    <2>4. due # 0 /\ idle <= Silence + Beat - due => idle' <= Silence + Beat - due'
        BY <2>1, <2>2, <1>3, ClocksTick
    <2>5. run.prompt /\ Profile!Detailed /\ closing = "no" => due # 0
        BY <1>1, <1>3 DEF ClocksOK, Profile!Urgent
    <2>6. run.prompt /\ Profile!Detailed /\ closing = "no" => warned \/ idle' <= Silence + Beat - due'
        BY <2>4, <2>5, <1>3, Zenon DEF ClocksOK
    <2>7. ClocksOK'
        BY <2>1, <2>3, <2>6, <1>1, <1>3 DEF ClocksOK, Profile!Detailed
    <2> QED
        BY <2>7, <1>1, <1>2, SameSpansAreOK DEF ProfInv
<1> QED
    BY <1>4, <1>5


-----------------------------------------------------------------------------
(* The invariant of the profiler, and what follows from it.                *)

LEMMA ProfStarts ==
    ASSUME Profile!Init
    PROVE  ProfInv
<1>1. /\ run \in Runs /\ warned = FALSE
      /\ stack = [w \in Workers |-> << >>]
      /\ doing = [w \in Workers |-> IF w \in run.threads THEN "code" ELSE "done"]
      /\ child = [w \in Workers |-> "none"]
      /\ idle = 0 /\ quiet = 0 /\ due = Beat /\ joined = 0 /\ closing = "no"
      /\ beat = IF Profile!Detailed THEN "waiting" ELSE "off"
    BY DEF Profile!Init
<1> DEFINE root == [parent |-> 0, open |-> TRUE, status |-> "ok"]
<1>2. root \in Profile!Span /\ root.parent = 0
    BY BoundsAreNat DEF Profile!Span, Profile!Statuses
<1>3. spans = <<root>>
    BY DEF Profile!Init
<1> HIDE DEF root
<1>4. spans \in Seq(Profile!Span) /\ Len(spans) = 1 /\ spans[1] = root
    BY <1>2, <1>3
<1>5. SpansOK(spans, stack)
    <2>1. stack \in [Workers -> Seq(Nat)] /\ \A w \in Workers : Len(stack[w]) = 0
        BY <1>1
    <2>2. Inside(spans, stack) /\ Own(stack)
        BY <2>1 DEF Inside, Own
    <2>3. AtWork(spans, stack) /\ Nested(spans)
        BY <1>4 DEF AtWork, Nested
    <2>4. \A s \in 1 .. Len(spans) : spans[s].parent < s
        BY <1>2, <1>4
    <2> QED
        BY <2>1, <2>2, <2>3, <2>4, <1>4 DEF SpansOK
<1>6. PlacesOK
    BY <1>1 DEF PlacesOK, Place, Profile!Places
<1>7. RoomOK
    <2>1. Pending = {}
        BY <1>1 DEF Pending
    <2>2. IsFiniteSet(Pending) /\ Cardinality(Pending) = 0
        BY <2>1, FS_EmptySet
    <2>3. run.room \in Nat /\ 1 <= run.room
        BY <1>1, BoundsAreNat
    <2> QED
        BY <2>2, <2>3, <1>1, <1>4 DEF RoomOK
<1>8. ClocksOK
    <2>1. 0 \in 0 .. Silence + Beat + 1 /\ Beat \in 0 .. Beat /\ 0 \in 0 .. JoinLimit
          /\ 0 <= Silence + Beat - Beat
        BY BoundsAreNat
    <2> QED
        BY <2>1, <1>1 DEF ClocksOK
<1>9. TraceOK
    <2>1. trace = [summary |-> Profile!NoSummary, spans |-> << >>, page |-> Profile!NoSummary,
                   grown |-> FALSE, quiet |-> FALSE]
        BY DEF Profile!Init
    <2>2. Profile!NoSummary \in Profile!Count
        BY BoundsAreNat DEF Profile!NoSummary, Profile!Count
    <2>3. << >> \in Seq(Profile!Span)
        OBVIOUS
    <2>4. trace \in Trace /\ ~trace.grown /\ ~trace.quiet
        BY <2>1, <2>2, <2>3 DEF Trace
    <2> QED
        BY <2>4, <1>1 DEF TraceOK
<1> QED
    BY <1>5, <1>6, <1>7, <1>8, <1>9 DEF ProfInv

LEMMA ProfGoesOn == ProfPart /\ [Next]_vars => ProfPart'
<1> SUFFICES ASSUME ProfPart, [Next]_vars, part' = "profiler" PROVE ProfInv'
    BY DEF ProfPart
<1>1. part = "profiler" /\ ProfInv
    BY DEF ProfPart, Next, Watched, Profiled, vars
<1>2. ASSUME UNCHANGED <<run, idle, profileVars>> PROVE ProfInv'
    <2>1. /\ SpansOK(spans, stack)' /\ PlacesOK' /\ RoomOK'
        BY <1>1, <1>2, SameSpansAreOK DEF profileVars, ProfInv
    <2>2. TraceOK'
        BY <1>1, <1>2, SameTraceIsOK DEF profileVars, ProfInv, Profile!Quiet
    <2>3. ClocksOK'
        BY <1>1, <1>2 DEF profileVars, ProfInv, ClocksOK, Profile!Detailed
    <2> QED
        BY <2>1, <2>2, <2>3 DEF ProfInv
<1>3. CASE Profiled(Profile!Next)
    <2>1. CASE \E w \in Workers : Profile!Worker(w)
        BY <1>1, <2>1, WorkerKeeps
    <2>2. CASE Profile!WatcherEvent
        BY <1>1, <2>2, WatcherKeeps
    <2>3. CASE Profile!WakeUp
        BY <1>1, <2>3, WakeUpKeeps
    <2>4. CASE Profile!Heartbeat
        BY <1>1, <2>4, HeartbeatKeeps
    <2>5. CASE Profile!Close
        BY <1>1, <2>5, SealKeeps, WritesKeep DEF Profile!Close
    <2>6. CASE Profile!Tick
        BY <1>1, <2>6, TickKeeps
    <2>7. CASE Profile!Finished
        <3>1. UNCHANGED <<run, idle, profileVars>>
            BY <2>7 DEF Profile!Finished, Profile!vars, profileVars
        <3> QED
            BY <1>2, <3>1
    <2> QED
        BY <1>3, <2>1, <2>2, <2>3, <2>4, <2>5, <2>6, <2>7 DEF Profiled, Profile!Next
<1>4. CASE UNCHANGED vars
    BY <1>2, <1>4 DEF vars
<1> QED
    BY <1>1, <1>3, <1>4 DEF Next, Watched

(***************************************************************************)
(* The profiler's invariant.                                               *)
(***************************************************************************)
LEMMA ProfInvariant == Spec => []ProfPart
<1>1. Init => ProfPart
    BY ProfStarts DEF Init, ProfPart
<1> QED
    BY <1>1, ProfGoesOn, PTL DEF Spec

(***************************************************************************)
(* Whatever the threads of a run do, and however many they are, no span is *)
(* left open inside a finished one, no child process is left running by a  *)
(* subprocess_run that returned, failed or timed out - only by one that    *)
(* was interrupted - and every clock stays in its range (RunProfiler.span, *)
(* RunProfiler.subprocess_run).                                            *)
(***************************************************************************)
THEOREM RunsLeaveNothingBehind == Spec => []NothingLeftBehind
<1>1. ProfInv => Profile!NothingLeftBehind
    <2> SUFFICES ASSUME ProfInv PROVE Profile!NothingLeftBehind
        OBVIOUS
    <2>1. /\ SpansOK(spans, stack) /\ PlacesOK /\ RoomOK /\ ClocksOK /\ TraceOK
          /\ stack \in [Workers -> Seq(Nat)] /\ Len(spans) \in Nat
        BY DEF ProfInv, SpansOK
    <2>2. Len(spans) \in 1 .. MaxSpans
        <3>1. Cardinality(Pending) \in Nat /\ run.room \in Nat /\ run.room <= MaxSpans /\ MaxSpans \in Nat
            BY <2>1, FS_CardinalityType, BoundsAreNat DEF RoomOK
        <3> QED
            BY <3>1, <2>1 DEF RoomOK, SpansOK
    <2>3. \A w \in Workers : stack[w] \in Seq(1 .. Len(spans))
        <3> TAKE w \in Workers
        <3>1. \A k \in 1 .. Len(stack[w]) : stack[w][k] \in 1 .. Len(spans)
            <4>1. \A k \in 1 .. Len(stack[w]) : stack[w][k] \in 2 .. Len(spans)
                BY <2>1 DEF SpansOK, Inside
            <4> QED
                BY <4>1, <2>1
        <3>2. stack[w] \in Seq(Nat)
            BY <2>1
        <3>3. stack[w] \in [1 .. Len(stack[w]) -> 1 .. Len(spans)] /\ Len(stack[w]) \in Nat
            BY <3>1, <3>2
        <3> QED
            BY <3>3
    <2>4. Profile!TypeOK
        <3>1. {idle, quiet} \subseteq 0 .. Silence + Beat + 1
            BY <2>1 DEF ClocksOK
        <3>2. trace.summary \in Profile!Count /\ trace.page \in Profile!Count
              /\ {trace.grown, trace.quiet} \subseteq BOOLEAN
            BY <2>1 DEF TraceOK, Trace
        <3> QED
            BY <3>1, <3>2, <2>1, <2>2, <2>3
            DEF Profile!TypeOK, Profile!SpanIds, SpansOK, PlacesOK, RoomOK, ClocksOK, TraceOK
    <2>5. Profile!SpansNest
        BY <2>1 DEF Profile!SpansNest, Profile!Root, Profile!Open, SpansOK, Nested
    <2>6. Profile!NoChildLeft
        BY <2>1 DEF Profile!NoChildLeft, PlacesOK
    <2> QED
        BY <2>4, <2>5, <2>6 DEF Profile!NothingLeftBehind
<1>2. ProfPart => NothingLeftBehind
    BY <1>1 DEF ProfPart, NothingLeftBehind
<1> QED
    BY <1>2, ProfInvariant, PTL

(***************************************************************************)
(* What close() writes is one picture of the run: after a quiet end the    *)
(* trace is whole and both artefacts count what it holds, and at any end   *)
(* the run's span is finished and what is open belongs to a thread that is *)
(* still at work (RunProfiler.close).                                      *)
(***************************************************************************)
THEOREM TracesAreWhole == Spec => []TraceIsWhole
<1>1. ProfInv => Profile!TraceIsWhole
    <2> SUFFICES ASSUME ProfInv, closing = "closed" PROVE Profile!TraceIsWhole
        BY DEF Profile!TraceIsWhole, Profile!QuietTraceIsWhole, Profile!TraceOpenSpansAreAtWork
    <2>1. /\ SpansOK(spans, stack) /\ PlacesOK /\ TraceOK
          /\ stack \in [Workers -> Seq(Nat)] /\ Len(spans) \in Nat
        BY DEF ProfInv, SpansOK
    <2>2. ~spans[1].open /\ ~trace.spans[1].open
        BY <2>1 DEF TraceOK
    <2>3. \A s \in 1 .. Len(spans) : spans[s].open =>
                \E w \in Workers : \E k \in 1 .. Len(stack[w]) : stack[w][k] = s
        <3> SUFFICES ASSUME NEW s \in 1 .. Len(spans), spans[s].open
                     PROVE  \E w \in Workers : \E k \in 1 .. Len(stack[w]) : stack[w][k] = s
            OBVIOUS
        <3>1. s \in 2 .. Len(spans)
            BY <2>1, <2>2
        <3> QED
            BY <3>1, <2>1 DEF SpansOK, AtWork
    <2>4. Profile!TraceOpenSpansAreAtWork
        <3>1. \A w \in Workers : \A k \in 1 .. Len(stack[w]) : stack[w][k] \in Profile!ToSet(stack[w])
            BY <2>1 DEF Profile!ToSet
        <3>2. \A s \in Profile!Open : \E w \in Workers : s \in Profile!ToSet(stack[w])
            BY <3>1, <2>3 DEF Profile!Open
        <3> QED
            BY <3>2, <2>2 DEF Profile!TraceOpenSpansAreAtWork, Profile!Root
    <2>5. ASSUME trace.quiet
          PROVE  /\ \A s \in 1 .. Len(trace.spans) : ~trace.spans[s].open
                 /\ Len(trace.spans) = trace.summary.spans
                 /\ trace.page = trace.summary
                 /\ ~trace.grown
        <3>1. /\ Profile!Quiet /\ trace.summary = Profile!Summary /\ ~trace.grown
              /\ trace.spans = spans /\ trace.page = trace.summary
            BY <2>1, <2>5 DEF TraceOK
        <3>2. \A w \in Workers : Len(stack[w]) = 0
            BY <3>1, <2>1 DEF Profile!Quiet, PlacesOK, Place
        <3>3. \A s \in 1 .. Len(spans) : ~spans[s].open
            BY <3>2, <2>3
        <3>4. trace.summary.spans = Len(spans)
            BY <3>1 DEF Profile!Summary
        <3> QED
            BY <3>1, <3>3, <3>4
    <2> QED
        BY <2>4, <2>5 DEF Profile!TraceIsWhole, Profile!QuietTraceIsWhole
<1>2. ProfPart => TraceIsWhole
    BY <1>1 DEF ProfPart, TraceIsWhole
<1> QED
    BY <1>2, ProfInvariant, PTL

(***************************************************************************)
(* A detailed run in which nothing happened for longer than the threshold  *)
(* and one beat has its stall warning, when beats come as they are due:    *)
(* no heartbeat counts as progress (RunProfiler._heartbeat_loop).          *)
(***************************************************************************)
THEOREM StallsAreReported == Spec => []StallIsReported
<1>1. ProfInv => Profile!StallIsReported
    <2> SUFFICES ASSUME ProfInv, run.prompt, Profile!Detailed, closing = "no", quiet > Silence + Beat
                 PROVE  warned
        BY DEF Profile!StallIsReported
    <2>1. (warned \/ idle <= Silence + Beat - due) /\ idle = quiet /\ due \in 0 .. Beat /\ idle \in 0 .. Silence + Beat + 1
        BY DEF ProfInv, ClocksOK
    <2>2. ~(idle <= Silence + Beat - due)
        BY <2>1, BoundsAreNat
    <2> QED
        BY <2>1, <2>2, Zenon
<1>2. ProfPart => StallIsReported
    BY <1>1 DEF ProfPart, StallIsReported
<1> QED
    BY <1>2, ProfInvariant, PTL
=============================================================================
