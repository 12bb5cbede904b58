---------------------------- MODULE SnapshotSync ----------------------------
(***************************************************************************)
(* sync_data_contracts_specs.sh: the vendored snapshot of the upstream     *)
(* specifications, its manifest and the lock that pins the commit.  A      *)
(* write may be killed between any two steps, and somebody may edit the    *)
(* snapshot.  Hashes do not collide; a manifest is the set of [file,       *)
(* version] pairs it lists.                                                *)
(***************************************************************************)
EXTENDS Naturals, FiniteSets

CONSTANTS
    Files,     \* files the patterns select
    Required,  \* those the snapshot must have
    Commits,   \* commit -> the selected files it has: function from files to versions
    MaxSteps   \* bound on the commands that are run

SnapshotAssumption ==
    /\ Required \subseteq Files /\ IsFiniteSet(Files)
    /\ "none" \notin DOMAIN Commits
    /\ \A c \in DOMAIN Commits : DOMAIN Commits[c] \subseteq Files
    /\ MaxSteps \in Nat

VARIABLES
    snapshot,  \* what SNAP_ROOT holds: set of [file, version]
    manifest,  \* what MANIFEST_FILE lists
    lock,      \* [commit, manifest, count]; NoLock while there is none
    target,    \* the commit that is being written
    pc,        \* idle, remove, copy, manifest, lock, verify
    exit,      \* exit code of the last command: none, 0, 1
    last,      \* that command: none, write, check
    steps

vars == <<snapshot, manifest, lock, target, pc, exit, last, steps>>

NoLock == [commit |-> "none", manifest |-> {}, count |-> 0]
Selected(c) == {[file |-> f, version |-> Commits[c][f]] : f \in DOMAIN Commits[c]}
PathsOf(entries) == {e.file : e \in entries}

(* Every pattern selects at least one file: here, one pattern per file.    *)
PatternsMatch(c) == DOMAIN Commits[c] = Files

(* Slip: the snapshot is not hashed again. *)
LockAndManifest ==
    /\ lock # NoLock
    /\ lock.manifest = manifest
    /\ lock.count = Cardinality(manifest)
    /\ Required \subseteq PathsOf(snapshot)
(* verify_mode: drift, the manifest's hash, the count, required files. *)
Verified ==
    /\ lock # NoLock
    /\ manifest = snapshot
    /\ lock.manifest = manifest
    /\ lock.count = Cardinality(manifest)
    /\ Required \subseteq PathsOf(snapshot)

-----------------------------------------------------------------------------
CheckMode ==
    /\ pc = "idle" /\ steps < MaxSteps
    /\ exit' = IF Verified THEN "0" ELSE "1"
    /\ last' = "check" /\ steps' = steps + 1
    /\ UNCHANGED <<snapshot, manifest, lock, target, pc>>

(* The tag is resolved and its tree extracted, or nothing happens. *)
WriteMode(c) ==
    /\ pc = "idle" /\ steps < MaxSteps
    /\ target' = c
    /\ pc' = "remove" /\ exit' = "none" /\ last' = "write" /\ steps' = steps + 1
    /\ UNCHANGED <<snapshot, manifest, lock>>

Remove ==
    /\ pc = "remove"
    /\ snapshot' = {}
    /\ pc' = "copy"
    /\ UNCHANGED <<manifest, lock, target, exit, last, steps>>

Copy(entry) ==
    /\ pc = "copy" /\ entry \in Selected(target) \ snapshot
    /\ snapshot' = snapshot \cup {entry}
    /\ UNCHANGED <<manifest, lock, target, pc, exit, last, steps>>

(* A pattern that matched nothing ends the command after the copy. *)
CopyEnds ==
    /\ pc = "copy" /\ Selected(target) \subseteq snapshot
    /\ IF PatternsMatch(target)
       THEN manifest' = {} /\ pc' = "manifest" /\ UNCHANGED exit
       ELSE exit' = "1" /\ pc' = "idle" /\ UNCHANGED manifest
    /\ UNCHANGED <<snapshot, lock, target, last, steps>>

WriteManifest(entry) ==
    /\ pc = "manifest" /\ entry \in snapshot \ manifest
    /\ manifest' = manifest \cup {entry}
    /\ UNCHANGED <<snapshot, lock, target, pc, exit, last, steps>>

(* Slip: the lock is written while the manifest is. *)
LockEarly ==
    /\ pc = "manifest"
    /\ lock' = [commit |-> target, manifest |-> manifest, count |-> Cardinality(manifest)]
    /\ pc' = "verify"
    /\ UNCHANGED <<snapshot, manifest, target, exit, last, steps>>
WriteLock ==
    /\ pc = "manifest" /\ snapshot \subseteq manifest
    /\ lock' = [commit |-> target, manifest |-> manifest, count |-> Cardinality(manifest)]
    /\ pc' = "verify"
    /\ UNCHANGED <<snapshot, manifest, target, exit, last, steps>>

VerifyAfter ==
    /\ pc = "verify"
    /\ exit' = IF Verified THEN "0" ELSE "1"
    /\ pc' = "idle"
    /\ UNCHANGED <<snapshot, manifest, lock, target, last, steps>>

Killed ==
    /\ pc # "idle"
    /\ pc' = "idle" /\ exit' = "none"
    /\ UNCHANGED <<snapshot, manifest, lock, target, last, steps>>

(* Somebody edits, adds or removes a file of the snapshot. *)
Edit(file) ==
    /\ pc = "idle" /\ steps < MaxSteps
    /\ \E s \in {{e \in snapshot : e.file # file},
                 {e \in snapshot : e.file # file} \cup {[file |-> file, version |-> "edited"]}} :
          s # snapshot /\ snapshot' = s
    /\ exit' = "none" /\ last' = "none" /\ steps' = steps + 1
    /\ UNCHANGED <<manifest, lock, target, pc>>

Init ==
    /\ snapshot = {} /\ manifest = {} /\ lock = NoLock
    /\ target \in DOMAIN Commits
    /\ pc = "idle" /\ exit = "none" /\ last = "none" /\ steps = 0

Next ==
    \/ CheckMode \/ Remove \/ CopyEnds \/ WriteLock \/ VerifyAfter \/ Killed
    \/ \E c \in DOMAIN Commits : WriteMode(c)
    \/ \E c \in DOMAIN Commits : \E entry \in Selected(c) : Copy(entry) \/ WriteManifest(entry)
    \/ \E file \in Files : Edit(file)

Spec == Init /\ [][Next]_vars

-----------------------------------------------------------------------------
(* Snapshot and manifest hold files that were selected, each once (the     *)
(* three things sync_data_contracts_specs.sh writes).                      *)
TypeOK ==
    /\ PathsOf(snapshot) \subseteq Files /\ PathsOf(manifest) \subseteq Files
    /\ Cardinality(snapshot) = Cardinality(PathsOf(snapshot))
    /\ lock.commit \in DOMAIN Commits \cup {"none"}
    /\ pc \in {"idle", "remove", "copy", "manifest", "verify"}

(* A check that passes tells the truth: the snapshot is, file by file,     *)
(* what the commit of the lock has, whatever was killed half-way or edited *)
(* before.                                                                 *)
VerifiedIsTheCommit ==
    exit = "0" /\ pc = "idle" =>
        lock.commit # "none" /\ snapshot = Selected(lock.commit)

(* A write that was not killed and whose commit has every file ends with a *)
(* snapshot that verifies.                                                 *)
WriteVerifies ==
    pc = "verify" /\ pc' = "idle" /\ Required \subseteq DOMAIN Commits[target] =>
        exit' \in {"0", "none"}
WholeWriteVerifies == [][WriteVerifies]_vars
=============================================================================
