---------------------------- MODULE SideEffects ----------------------------
(***************************************************************************)
(* What cli.run cases do to the process they run in: the environment and   *)
(* modules they patch under two locks, and the one output buffer that all  *)
(* cases of a run print to.  Threads are those of the governance pool (no  *)
(* output is captured there) or the single one of the runner's own         *)
(* commands.  A patched thing is a key; its values are small.              *)
(***************************************************************************)
EXTENDS Naturals, Sequences, SequencesExt, FiniteSets

CONSTANTS
    Threads,    \* threads that run cases
    Keys,       \* environment variables, modules, attributes that cases patch
    Values,     \* what they may be set to
    MaxPatches, \* bound on the patches of a case
    MaxCases,   \* bound on the cases of a thread
    MaxDepth    \* bound on runs inside a run: an entrypoint may be the runner itself

SideEffectsAssumption ==
    /\ IsFiniteSet(Threads)
    /\ {MaxPatches, MaxCases, MaxDepth} \subseteq Nat

Missing == "missing"

VARIABLES
    active,   \* the threads of this process
    env,      \* key -> value or Missing
    frames,   \* thread -> the cases it is in, outermost first:
              \* [undo, wanted, entry, stage]; stage is setup, main, after, undo
    done,     \* thread -> outermost cases it has begun
    buffer,   \* captured output nobody has read: set of [case, part]
    seen,     \* what the case that read last found
    readers   \* the cases that read, that one is the greatest

vars == <<active, env, frames, done, buffer, seen, readers>>

Single == Cardinality(active) = 1  \* the runner's own commands: output is captured
Depth(t) == Len(frames[t])
Top(t) == frames[t][Depth(t)]
InMain(t) == Depth(t) > 0 => Top(t).stage = "main"
SetTop(t, f) == frames' = [frames EXCEPT ![t][Depth(t)] = f]

(* Both locks are reentrant and always taken in the same order. *)
(* Slip: there is no lock. *)
NoLock(t) == TRUE
LockFree(t) == \A x \in Threads \ {t} : Depth(x) = 0

Output(t, part) ==
    IF Single /\ Depth(t) = 1 THEN buffer \cup {[case |-> done[t], part |-> part]} ELSE buffer

-----------------------------------------------------------------------------
Enter(t) ==
    /\ InMain(t) /\ Depth(t) < MaxDepth /\ LockFree(t)
    /\ Depth(t) = 0 => done[t] < MaxCases
    /\ done' = [done EXCEPT ![t] = IF Depth(t) = 0 THEN @ + 1 ELSE @]
    /\ frames' = [frames EXCEPT ![t] = Append(@, [undo |-> <<>>, wanted |-> env, entry |-> env, stage |-> "setup"])]
    /\ UNCHANGED <<active, env, buffer, seen, readers>>

(* setenv, setattr, setitem, and delenv of a variable that is there; the   *)
(* hook before the entrypoint may patch what the harness patched.          *)
Patch(t, key, value) ==
    /\ Depth(t) > 0 /\ Top(t).stage = "setup" /\ Len(Top(t).undo) < MaxPatches
    /\ value = Missing => env[key] # Missing
    /\ env' = [env EXCEPT ![key] = value]
    /\ SetTop(t, [Top(t) EXCEPT !.undo = Append(@, [key |-> key, old |-> env[key]]),
                                !.wanted = [@ EXCEPT ![key] = value]])
    /\ UNCHANGED <<active, done, buffer, seen, readers>>

(* The patch context is left, also on the way of an exception: what was    *)
(* patched is undone, the last first, then the locks are released.         *)
Leave(t) == SetTop(t, [Top(t) EXCEPT !.stage = "undo"])

(* Slip: in the order in which the patches were made. *)
FirstMade(undo) == 1
NextUndo(undo) == Len(undo)

Undo(t) ==
    /\ Depth(t) > 0 /\ Top(t).stage = "undo" /\ Top(t).undo # <<>>
    /\ LET undo == Top(t).undo
           i == NextUndo(undo)
       IN  /\ env' = [env EXCEPT ![undo[i].key] = undo[i].old]
           /\ SetTop(t, [Top(t) EXCEPT !.undo = RemoveAt(undo, i)])
    /\ UNCHANGED <<active, done, buffer, seen, readers>>

Release(t) ==
    /\ Depth(t) > 0 /\ Top(t).stage = "undo" /\ Top(t).undo = <<>>
    /\ frames' = [frames EXCEPT ![t] = Front(@)]
    /\ UNCHANGED <<active, env, done, buffer, seen, readers>>

(* A setup item is malformed, safe mode forbids a hook, the hook raises.   *)
SetupFails(t) ==
    /\ Depth(t) > 0 /\ Top(t).stage = "setup"
    /\ Leave(t)
    /\ UNCHANGED <<active, env, done, buffer, seen, readers>>

(* The entrypoint prints, and may run cases of its own (with a capture of  *)
(* their own).                                                             *)
Call(t) ==
    /\ Depth(t) > 0 /\ Top(t).stage = "setup"
    /\ SetTop(t, [Top(t) EXCEPT !.stage = "main"])
    /\ buffer' = Output(t, "main")
    /\ UNCHANGED <<active, env, done, seen, readers>>

(* Another exception than SystemExit: nobody reads what was printed. *)
MainRaises(t) ==
    /\ Depth(t) > 0 /\ Top(t).stage = "main"
    /\ Leave(t)
    /\ UNCHANGED <<active, env, done, buffer, seen, readers>>

(* read_capture empties the buffer; then the exit code is compared. *)
(* Slip: what was read stays in the buffer. *)
ReadAndKeep(t) ==
    /\ Depth(t) > 0 /\ Top(t).stage = "main"
    /\ IF Single /\ Depth(t) = 1
       THEN seen' = buffer /\ readers' = readers \cup {done[t]}
       ELSE UNCHANGED <<seen, readers>>
    /\ UNCHANGED buffer
    /\ SetTop(t, [Top(t) EXCEPT !.stage = "after"]) \/ Leave(t)
    /\ UNCHANGED <<active, env, done>>
ReadCapture(t) ==
    /\ Depth(t) > 0 /\ Top(t).stage = "main"
    /\ IF Single /\ Depth(t) = 1
       THEN seen' = buffer /\ buffer' = {} /\ readers' = readers \cup {done[t]}
       ELSE UNCHANGED <<seen, buffer, readers>>
    /\ SetTop(t, [Top(t) EXCEPT !.stage = "after"]) \/ Leave(t)
    /\ UNCHANGED <<active, env, done>>

(* The hook after the entrypoint and the assertion-health warnings print   *)
(* to the same buffer, which the next case reads.                          *)
End(t) ==
    /\ Depth(t) > 0 /\ Top(t).stage = "after"
    /\ \/ UNCHANGED buffer
       \/ buffer' = Output(t, "late")
    /\ Leave(t)
    /\ UNCHANGED <<active, env, done, seen, readers>>

Init ==
    /\ active \in SUBSET Threads \ {{}}
    /\ env \in [Keys -> Values \cup {Missing}]
    /\ frames = [t \in Threads |-> <<>>]
    /\ done = [t \in Threads |-> 0]
    /\ buffer = {} /\ seen = {} /\ readers = {}

Next ==
    \E t \in active :
        \/ Enter(t) \/ SetupFails(t) \/ Call(t) \/ MainRaises(t) \/ ReadCapture(t) \/ End(t)
        \/ Undo(t) \/ Release(t)
        \/ \E key \in Keys, value \in Values \cup {Missing} : Patch(t, key, value)

Spec == Init /\ [][Next]_vars

-----------------------------------------------------------------------------
(* A case has at most as many patches to undo as it made, output is of     *)
(* cases that began (RuntimeContext, cli.run).                             *)
TypeOK ==
    /\ env \in [Keys -> Values \cup {Missing}]
    /\ \A t \in Threads : Depth(t) <= MaxDepth
    /\ \A t \in Threads : \A i \in 1 .. Depth(t) :
         /\ frames[t][i].stage \in {"setup", "main", "after", "undo"}
         /\ i < Depth(t) => frames[t][i].stage = "main"
    /\ \A x \in buffer \cup seen : x.case \in 1 .. MaxCases
    /\ readers \subseteq 1 .. MaxCases

(* While a case is set up and runs, the process looks as it patched it and *)
(* as nobody else did, also after runs inside its entrypoint have ended.   *)
EnvironmentIsOwn ==
    \A t \in Threads : Depth(t) > 0 /\ Top(t).stage # "undo" => env = Top(t).wanted

(* A case leaves the process as it found it, by whatever exception it ends *)
(* and however often it or its hooks patched one thing.                    *)
Restores == \A t \in Threads : Len(frames'[t]) < Len(frames[t]) => env' = Top(t).entry
RestoredOnLeave == [][Restores]_vars

(* What a case compares as its output has what its entrypoint printed; of  *)
(* an earlier case it has at most what that printed after its own output   *)
(* was read or before an exception kept it from being read.                *)
SeenIsOwnOrUnread ==
    readers # {} =>
        LET reader == CHOOSE c \in readers : \A x \in readers : x <= c
        IN  /\ [case |-> reader, part |-> "main"] \in seen
            /\ \A x \in seen : x.case \in readers \ {reader} => x.part = "late"
=============================================================================
