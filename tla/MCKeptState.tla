----------------------------- MODULE MCKeptState -----------------------------
(***************************************************************************)
(* What a case or a command leaves behind for the next: caches of one      *)
(* process, the environment and output of cli.run, and the reports,        *)
(* documents and snapshots that the commands write.  Each behaviour is     *)
(* about one of them (part); they share no state, and the variables of the *)
(* others are 0.                                                           *)
(***************************************************************************)
EXTENDS Integers

CONSTANTS Chains, Contents, MaxWrites, Threads, Kinds, MaxVersion, MaxToken,
          Callers, Requests, Lifetimes, DefaultLife, MaxTime,
          Keys, Values, MaxPatches, MaxCases, MaxDepth,
          Steps, Codes, Timings, MaxRuns, CaseDefs,
          MaxSelected, MaxWorkers, Files, Required, Commits, MaxSteps
VARIABLES part,
    file, gone, docCases, chainPc, ref, key, got, chainBegan,
    version, scanToken, scanCache, stack, scanBegan, resetAt, result,
    time, tokenCache, callerPc, request, now, token, cached,
    active, env, frames, done, buffer, seen, readers,
    pc, exit, disk, errors,
    runs, cmd, rows, firstFailure, problem,
    cases, only, reports, artifact,
    asked, traced, workers, selected, job, raised,
    snapshot, manifest, lock, target, last, steps

Chain == INSTANCE ChainCaches WITH pc <- chainPc, began <- chainBegan
Scan  == INSTANCE ScanCaches WITH token <- scanToken, cache <- scanCache, began <- scanBegan
Token == INSTANCE TokenCache WITH cache <- tokenCache, pc <- callerPc
Effects == INSTANCE SideEffects
Gate == INSTANCE GateCommands
Parity == INSTANCE Conformance
Generate == INSTANCE DocsGenerate
Sync == INSTANCE SnapshotSync

chainVars == <<file, gone, docCases, chainPc, ref, key, got, chainBegan>>
scanVars == <<version, scanToken, scanCache, stack, scanBegan, resetAt, result>>
tokenVars == <<time, tokenCache, callerPc, request, now, token, cached>>
effectVars == <<active, env, frames, done, buffer, seen, readers>>
gateVars == <<runs, cmd, rows, firstFailure, problem>>
parityVars == <<cases, only, reports, artifact>>
docsVars == <<asked, traced, workers, selected, job, raised>>
syncVars == <<snapshot, manifest, lock, target, last, steps>>
processVars == <<chainVars, scanVars, tokenVars, effectVars>>
commandVars == <<pc, exit, disk, errors, gateVars, parityVars, docsVars, syncVars>>
vars == <<part, processVars, commandVars>>

ASSUME KeptStateAssumption ==
    /\ Chain!ChainCachesAssumption /\ Scan!ScanCachesAssumption
    /\ Token!TokenCacheAssumption /\ Effects!SideEffectsAssumption
    /\ Parity!ConformanceAssumption /\ Gate!GateAssumption
    /\ Generate!DocsGenerateAssumption /\ Sync!SnapshotAssumption

NoChain == file = 0 /\ gone = 0 /\ docCases = 0 /\ chainPc = 0 /\ ref = 0 /\ key = 0 /\ got = 0 /\ chainBegan = 0
NoScan == version = 0 /\ scanToken = 0 /\ scanCache = 0 /\ stack = 0 /\ scanBegan = 0 /\ resetAt = 0 /\ result = 0
NoToken == time = 0 /\ tokenCache = 0 /\ callerPc = 0 /\ request = 0 /\ now = 0 /\ token = 0 /\ cached = 0
NoEffects == active = 0 /\ env = 0 /\ frames = 0 /\ done = 0 /\ buffer = 0 /\ seen = 0 /\ readers = 0
NoGate == runs = 0 /\ cmd = 0 /\ rows = 0 /\ firstFailure = 0 /\ problem = 0
NoParity == cases = 0 /\ only = 0 /\ reports = 0 /\ artifact = 0
NoDocs == asked = 0 /\ traced = 0 /\ workers = 0 /\ selected = 0 /\ job = 0 /\ raised = 0
NoSync == snapshot = 0 /\ manifest = 0 /\ lock = 0 /\ target = 0 /\ last = 0 /\ steps = 0
NoCommand == NoGate /\ NoParity /\ NoDocs /\ NoSync /\ pc = 0 /\ exit = 0 /\ disk = 0 /\ errors = 0
NoProcess == NoChain /\ NoScan /\ NoToken /\ NoEffects

Init ==
    \/ part = "chain" /\ Chain!Init /\ NoScan /\ NoToken /\ NoEffects /\ NoCommand
    \/ part = "scan" /\ Scan!Init /\ NoChain /\ NoToken /\ NoEffects /\ NoCommand
    \/ part = "token" /\ Token!Init /\ NoChain /\ NoScan /\ NoEffects /\ NoCommand
    \/ part = "effects" /\ Effects!Init /\ NoChain /\ NoScan /\ NoToken /\ NoCommand
    \/ part = "gate" /\ Gate!Init /\ NoProcess /\ NoParity /\ NoDocs /\ NoSync /\ errors = 0
    \/ part = "parity" /\ Parity!Init /\ NoProcess /\ NoGate /\ NoDocs /\ NoSync /\ disk = 0
    \/ part = "docs" /\ Generate!Init /\ NoProcess /\ NoGate /\ NoParity /\ NoSync
    \/ part = "sync" /\ Sync!Init /\ NoProcess /\ NoGate /\ NoParity /\ NoDocs /\ errors = 0 /\ disk = 0

Next ==
    \/ part = "chain" /\ Chain!Next /\ UNCHANGED <<part, scanVars, tokenVars, effectVars, commandVars>>
    \/ part = "scan" /\ Scan!Next /\ UNCHANGED <<part, chainVars, tokenVars, effectVars, commandVars>>
    \/ part = "token" /\ Token!Next /\ UNCHANGED <<part, chainVars, scanVars, effectVars, commandVars>>
    \/ part = "effects" /\ Effects!Next /\ UNCHANGED <<part, chainVars, scanVars, tokenVars, commandVars>>
    \/ part = "gate" /\ Gate!Next /\ UNCHANGED <<part, processVars, parityVars, docsVars, syncVars, errors>>
    \/ part = "parity" /\ Parity!Next /\ UNCHANGED <<part, processVars, gateVars, docsVars, syncVars, disk>>
    \/ part = "docs" /\ Generate!Next /\ UNCHANGED <<part, processVars, gateVars, parityVars, syncVars>>
    \/ part = "sync" /\ Sync!Next /\ UNCHANGED <<part, processVars, gateVars, parityVars, docsVars, errors, disk>>

Spec == Init /\ [][Next]_vars

-----------------------------------------------------------------------------
(* Chains: a case, the case beside another that does not compile, and a     *)
(* document that lacks it.                                                  *)
DocContents == {[a |-> "1"], [a |-> "1", b |-> "malformed"], [b |-> "1"]}
(* Tokens: two cases that share a token but not the skew, and a third.     *)
Case(audience, skew) == [url |-> "u", clientEnv |-> "ID", scope |-> "s", audience |-> audience, skew |-> skew]
TokenCases == {Case("a", 0), Case("a", 1), Case("b", 0)}
Lives == {-1, 2}

(* Gate: programs that pass, fail, fail otherwise, die of a signal.         *)
ExitCodes == {0, 1, 2, -9}

(* Parity: cases the implementations agree on or not.                       *)
Impls == {"python", "php"}
Result(status, category) == [status |-> status, category |-> category]
Passes == Result("pass", "none")
Fails(category) == Result("fail", category)
Undeclared == Result("none", "none")
NoOverride == [i \in Impls |-> Undeclared]
Alike == {[i \in Impls |-> o] : o \in {Passes, Fails("assertion")}}
Apart == [python |-> Passes, php |-> Fails("runtime")]
Base == [id : {"a", "b"}, requires : {"none", "malformed", "well"}, needs : {{"python_only"}, {"shared"}},
         whenMissing : {"fail", "skip", "other"},
         expect : {Passes, Fails("runtime"), Undeclared},
         override : {NoOverride, [python |-> Undeclared, php |-> Fails("runtime")]},
         does : Alike \cup {Apart}]
(* needs and whenMissing only matter for a well-formed requires. *)
Defs ==
    {c \in Base :
        /\ c.requires # "well" => c.needs = {"shared"} /\ c.whenMissing = "fail"
        /\ c.id = "b" => c.requires # "malformed" /\ c.expect = Passes /\ c.whenMissing # "other"}

(* Sync: two commits that share a file, and one that lacks a file. *)
ThreeCommits == [c1 |-> [a |-> "1", b |-> "1"], c2 |-> [a |-> "1", b |-> "2"], c3 |-> [a |-> "2"]]

-----------------------------------------------------------------------------
(* The chain engine's document cache: no chain works with a document older *)
(* than its start, or with none unless it was moved away; what is cached   *)
(* under the key a document has now is what it says now, or nothing at all *)
(* when it was away in between.                                            *)
ChainCachesAreTrue ==
    part = "chain" =>
        Chain!TypeOK /\ Chain!NeverOlderThanTheStart /\ Chain!NothingMeansGone /\ Chain!EntryOfNowIsOfNow
(* No governance check is given a value from before the reset its lookup   *)
(* began under, and none can be found, whatever threads still store.       *)
ScanCachesAreFresh ==
    part = "scan" => Scan!TypeOK /\ Scan!NothingFromBeforeTheReset /\ Scan!ReachableEntriesAreFresh
(* An access token from _OAUTH_TOKEN_CACHE was good for longer than the    *)
(* refresh skew when it was asked for, by the life the endpoint said or    *)
(* else the default one; every token that is served was issued for the     *)
(* scope and audience asked for.                                           *)
TokensAreGood ==
    part = "token" => Token!TypeOK /\ Token!CachedTokenIsLive /\ Token!TokenIsForTheRequest
(* While a cli.run case is set up and runs, the process looks as it        *)
(* patched it and as nobody else did; what it compares as its output is    *)
(* what its entrypoint printed, and of an earlier case at most what nobody *)
(* could read before.                                                      *)
ProcessIsOwn ==
    part = "effects" => Effects!TypeOK /\ Effects!EnvironmentIsOwn /\ Effects!SeenIsOwnOrUnread
(* A cli.run case leaves the process as it found it, whatever it raises.   *)
RestoredOnLeave == [][part = "effects" => Effects!Restores]_vars
(* Gate: under fail-fast every step after the first failed one is skipped  *)
(* and names it, without it every step runs; the exit code is that of the  *)
(* first step that failed, also of a signal, and 0 only when all passed.   *)
GateTellsTheTruth ==
    part = "gate" => Gate!TypeOK /\ Gate!NothingRunsAfterTheFailure /\ Gate!ExitIsFirstFailure
(* Gate, smoke and freshness check: the reports on disk are of this run    *)
(* and say what its exit code says, a comparison is of timings of its own  *)
(* run, and no trace is newer than its summary, kills at any step included. *)
ReportsAreOfThisRun ==
    part = "gate" => Gate!ReportsAreOfThisRun /\ Gate!PerfComparesItsOwnRun /\ Gate!TraceHasItsSummary
(* Parity: when the command passes, cases came to what was expected of     *)
(* each implementation, and differ only where that was declared; no case   *)
(* passes where its capability is missing, and every failure is in the     *)
(* artefact.                                                               *)
ParityMeansAgreement ==
    part = "parity" =>
        /\ Parity!TypeOK /\ Parity!ParityMeansAgreement
        /\ Parity!NoPassWithoutCapability /\ Parity!FailuresAreInTheArtifact
(* Docs: trace, report, summary, timing file and exit code say the same    *)
(* and what the cases came to, wherever the command breaks off; it passes  *)
(* only where there is no case to run.                                     *)
DocsCommandTellsTheTruth ==
    part = "docs" => Generate!TypeOK /\ Generate!ReportsAgree /\ Generate!PassesOnNothing
(* Sync: a check that passes means the snapshot is the lock's commit. *)
SnapshotIsTheCommit == part = "sync" => Sync!TypeOK /\ Sync!VerifiedIsTheCommit
(* Sync: a write of a commit that has every required file, and that is not *)
(* killed, ends with a snapshot that verifies.                             *)
WritesVerify == [][part = "sync" => Sync!WriteVerifies]_vars
=============================================================================
