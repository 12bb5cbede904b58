--------------------------- MODULE KeptStateProofs ---------------------------
(***************************************************************************)
(* What holds of the state that cases and commands leave behind, for every *)
(* number of threads, callers, cases, files and versions.  Each part of    *)
(* MCKeptState has its invariant; a step of one part leaves the others.    *)
(***************************************************************************)
EXTENDS MCKeptState, Sequences, FiniteSets, FiniteSetTheorems, TLAPS

-----------------------------------------------------------------------------
(* The snapshot of the upstream specifications.                            *)

(***************************************************************************)
(* No file is there twice, and from the copy on snapshot and manifest are  *)
(* on their way to what the commit has.  A lock is only ever written over  *)
(* the whole manifest of its commit.                                       *)
(***************************************************************************)
OncePerFile(S) == \A x, y \in S : x.file = y.file => x = y
Listed(S) == IsFiniteSet(S) /\ OncePerFile(S) /\ \A e \in S : e.file \in Files

SyncInv ==
    /\ Listed(snapshot) /\ Listed(manifest)
    /\ target \in DOMAIN Commits
    /\ pc \in {"idle", "remove", "copy", "manifest", "verify"}
    /\ pc = "copy" => snapshot \subseteq Sync!Selected(target)
    /\ pc = "manifest" => snapshot = Sync!Selected(target) /\ manifest \subseteq snapshot
    /\ pc = "verify" => /\ snapshot = Sync!Selected(target) /\ manifest = snapshot
                        /\ lock.commit = target /\ lock.count = Cardinality(manifest)
    /\ lock # Sync!NoLock =>
            lock.commit \in DOMAIN Commits /\ lock.manifest = Sync!Selected(lock.commit)
    /\ lock.commit \in DOMAIN Commits \cup {"none"}
    /\ exit = "0" /\ pc = "idle" =>
            lock.commit \in DOMAIN Commits /\ snapshot = Sync!Selected(lock.commit)
SyncPart == part = "sync" => SyncInv

LEMMA SyncCardinality ==
    ASSUME NEW S
    PROVE  Sync!Cardinality(S) = Cardinality(S)
    BY DEF Sync!Cardinality, Cardinality

LEMMA ListedOnce ==
    ASSUME NEW S, Listed(S)
    PROVE  Cardinality(S) = Cardinality(Sync!PathsOf(S)) /\ Sync!PathsOf(S) \subseteq Files
<1> DEFINE f == [e \in S |-> e.file]
<1>1. f \in Bijection(S, Sync!PathsOf(S))
    BY DEF Listed, OncePerFile, Sync!PathsOf, Bijection, Injection, Surjection, IsInjective
<1>2. ExistsBijection(S, Sync!PathsOf(S))
    BY <1>1 DEF ExistsBijection
<1>3. IsFiniteSet(S) /\ \A e \in S : e.file \in Files
    BY DEF Listed
<1>4. Cardinality(S) = Cardinality(Sync!PathsOf(S))
    BY <1>2, <1>3, FS_Bijection
<1> QED
    BY <1>3, <1>4 DEF Sync!PathsOf

LEMMA SelectedIsListed ==
    ASSUME NEW c \in DOMAIN Commits
    PROVE  /\ OncePerFile(Sync!Selected(c)) /\ \A e \in Sync!Selected(c) : e.file \in Files
           /\ Sync!PathsOf(Sync!Selected(c)) = DOMAIN Commits[c]
<1>1. DOMAIN Commits[c] \subseteq Files
    BY KeptStateAssumption DEF Sync!SnapshotAssumption
<1>2. \A e \in Sync!Selected(c) : e.file \in DOMAIN Commits[c] /\ e.version = Commits[c][e.file]
        /\ e = [file |-> e.file, version |-> e.version]
    BY DEF Sync!Selected
<1>3. \A f \in DOMAIN Commits[c] : [file |-> f, version |-> Commits[c][f]] \in Sync!Selected(c)
    BY DEF Sync!Selected
<1>4. OncePerFile(Sync!Selected(c))
    BY <1>2 DEF OncePerFile
<1>5. Sync!PathsOf(Sync!Selected(c)) = DOMAIN Commits[c]
    <2>1. \A f \in DOMAIN Commits[c] : \E e \in Sync!Selected(c) : f = e.file
        BY <1>3
    <2> QED
        BY <2>1, <1>2 DEF Sync!PathsOf
<1> QED
    BY <1>1, <1>2, <1>4, <1>5

LEMMA OneMore ==
    ASSUME NEW c \in DOMAIN Commits, NEW S, Listed(S), S \subseteq Sync!Selected(c),
           NEW e \in Sync!Selected(c)
    PROVE  Listed(S \cup {e})
<1>1. OncePerFile(S \cup {e}) /\ \A x \in S \cup {e} : x.file \in Files
    BY SelectedIsListed DEF OncePerFile
<1>2. IsFiniteSet(S \cup {e})
    BY FS_AddElement DEF Listed
<1> QED
    BY <1>1, <1>2 DEF Listed

(* Editing a file takes out what was there of it, and may put one in.      *)
LEMMA EditedIsListed ==
    ASSUME NEW S, Listed(S), NEW name \in Files
    PROVE  LET rest == {e \in S : e.file # name}
           IN  Listed(rest) /\ Listed(rest \cup {[file |-> name, version |-> "edited"]})
<1> DEFINE rest == {e \in S : e.file # name}
           edited == [file |-> name, version |-> "edited"]
<1>1. edited.file = name /\ \A e \in rest : e \in S /\ e.file # name
    OBVIOUS
<1>2. IsFiniteSet(rest) /\ rest \subseteq S
    BY FS_Subset DEF Listed
<1> HIDE DEF rest, edited
<1>3. IsFiniteSet(rest \cup {edited})
    BY <1>2, FS_AddElement
<1>4. OncePerFile(rest) /\ OncePerFile(rest \cup {edited})
    BY <1>1 DEF Listed, OncePerFile
<1>5. \A e \in rest \cup {edited} : e.file \in Files
    BY <1>1 DEF Listed
<1> QED
    BY <1>2, <1>3, <1>4, <1>5 DEF Listed, rest, edited

LEMMA VerifiedIsSelected ==
    ASSUME SyncInv, Sync!Verified
    PROVE  lock.commit \in DOMAIN Commits /\ snapshot = Sync!Selected(lock.commit)
    BY DEF SyncInv, Sync!Verified

LEMMA SyncStarts ==
    ASSUME Sync!Init
    PROVE  SyncInv
<1>1. Listed({})
    BY FS_EmptySet DEF Listed, OncePerFile
<1> QED
    BY <1>1 DEF Sync!Init, SyncInv, Sync!NoLock

LEMMA SyncSteps ==
    ASSUME SyncInv, Sync!Next
    PROVE  SyncInv'
<1>1. /\ Listed(snapshot) /\ Listed(manifest) /\ target \in DOMAIN Commits
      /\ "none" \notin DOMAIN Commits
    BY KeptStateAssumption DEF SyncInv, Sync!SnapshotAssumption
<1>2. CASE Sync!CheckMode
    <2>1. /\ pc = "idle" /\ UNCHANGED <<snapshot, manifest, lock, target, pc>>
          /\ exit' = "0" => Sync!Verified
        BY <1>2 DEF Sync!CheckMode
    <2> QED
        BY <2>1, VerifiedIsSelected DEF SyncInv, Listed, OncePerFile
<1>3. CASE \E c \in DOMAIN Commits : Sync!WriteMode(c)
    BY <1>3 DEF Sync!WriteMode, SyncInv, Listed, OncePerFile
<1>4. CASE Sync!Remove
    <2>1. Listed({})
        BY FS_EmptySet DEF Listed, OncePerFile
    <2> QED
        BY <1>4, <2>1 DEF Sync!Remove, SyncInv, Listed, OncePerFile
<1>5. CASE \E c \in DOMAIN Commits : \E entry \in Sync!Selected(c) : Sync!Copy(entry)
    <2>1. PICK entry : Sync!Copy(entry)
        BY <1>5
    <2>2. /\ pc = "copy" /\ entry \in Sync!Selected(target) /\ snapshot' = snapshot \cup {entry}
          /\ UNCHANGED <<manifest, lock, target, pc, exit>> /\ snapshot \subseteq Sync!Selected(target)
        BY <2>1 DEF Sync!Copy, SyncInv
    <2>3. Listed(snapshot \cup {entry})
        BY <2>2, <1>1, OneMore
    <2>4. Listed(snapshot)' /\ Listed(manifest)'
        BY <2>2, <2>3, <1>1 DEF Listed, OncePerFile
    <2>5. Sync!Selected(target)' = Sync!Selected(target)
        BY <2>2 DEF Sync!Selected
    <2> QED
        BY <2>2, <2>4, <2>5 DEF SyncInv
<1>6. CASE Sync!CopyEnds
    <2>1. /\ pc = "copy" /\ snapshot = Sync!Selected(target)
          /\ UNCHANGED <<snapshot, lock, target>>
          /\ \/ manifest' = {} /\ pc' = "manifest" /\ UNCHANGED exit
             \/ exit' = "1" /\ pc' = "idle" /\ UNCHANGED manifest
        BY <1>6 DEF Sync!CopyEnds, SyncInv
    <2>2. Listed({})
        BY FS_EmptySet DEF Listed, OncePerFile
    <2>3. Listed(snapshot)' /\ Listed(manifest)'
        BY <2>1, <2>2, <1>1 DEF Listed, OncePerFile
    <2> QED
        BY <2>1, <2>3 DEF SyncInv
<1>7. CASE \E c \in DOMAIN Commits : \E entry \in Sync!Selected(c) : Sync!WriteManifest(entry)
    <2>1. PICK entry : Sync!WriteManifest(entry)
        BY <1>7
    <2>2. /\ pc = "manifest" /\ entry \in snapshot /\ manifest' = manifest \cup {entry}
          /\ UNCHANGED <<snapshot, lock, target, pc, exit>>
          /\ snapshot = Sync!Selected(target) /\ manifest \subseteq snapshot
        BY <2>1 DEF Sync!WriteManifest, SyncInv
    <2>3. Listed(manifest \cup {entry})
        BY <2>2, <1>1, OneMore
    <2>4. Listed(snapshot)' /\ Listed(manifest)'
        BY <2>2, <2>3, <1>1 DEF Listed, OncePerFile
    <2> QED
        BY <2>2, <2>4 DEF SyncInv
<1>8. CASE Sync!WriteLock
    <2>1. /\ pc = "manifest" /\ pc' = "verify" /\ UNCHANGED <<snapshot, manifest, target, exit>>
          /\ lock' = [commit |-> target, manifest |-> manifest, count |-> Sync!Cardinality(manifest)]
          /\ snapshot = Sync!Selected(target) /\ manifest = snapshot
        BY <1>8 DEF Sync!WriteLock, SyncInv
    <2>2. lock'.commit = target /\ lock'.manifest = manifest /\ lock'.count = Cardinality(manifest)
        BY <2>1, SyncCardinality
    <2> QED
        BY <2>1, <2>2, <1>1 DEF SyncInv, Listed, OncePerFile
<1>9. CASE Sync!VerifyAfter
    <2>1. /\ pc' = "idle" /\ UNCHANGED <<snapshot, manifest, lock, target>>
          /\ exit' = "0" => Sync!Verified
        BY <1>9 DEF Sync!VerifyAfter
    <2> QED
        BY <2>1, VerifiedIsSelected DEF SyncInv, Listed, OncePerFile
<1>10. CASE Sync!Killed
    BY <1>10 DEF Sync!Killed, SyncInv, Listed, OncePerFile
<1>11. CASE \E name \in Files : Sync!Edit(name)
    <2>1. PICK name \in Files : Sync!Edit(name)
        BY <1>11
    <2>2. /\ pc = "idle" /\ exit' = "none" /\ UNCHANGED <<manifest, lock, target, pc>>
          /\ \/ snapshot' = {e \in snapshot : e.file # name}
             \/ snapshot' = {e \in snapshot : e.file # name} \cup {[file |-> name, version |-> "edited"]}
        BY <2>1 DEF Sync!Edit
    <2>3. Listed(snapshot')
        BY <2>2, <1>1, EditedIsListed
    <2>4. Listed(snapshot)' /\ Listed(manifest)'
        BY <2>2, <2>3, <1>1 DEF Listed, OncePerFile
    <2> QED
        BY <2>2, <2>4 DEF SyncInv
<1> QED
    BY <1>2, <1>3, <1>4, <1>5, <1>6, <1>7, <1>8, <1>9, <1>10, <1>11 DEF Sync!Next

LEMMA SyncGoesOn == SyncPart /\ [Next]_vars => SyncPart'
<1> SUFFICES ASSUME SyncPart, [Next]_vars, part' = "sync" PROVE SyncInv'
    BY DEF SyncPart
<1>1. part = "sync" /\ SyncInv
    BY DEF SyncPart, Next, vars
<1>2. CASE Sync!Next
    BY <1>1, <1>2, SyncSteps
<1>3. CASE UNCHANGED vars
    BY <1>1, <1>3 DEF vars, commandVars, syncVars, SyncInv, Listed, OncePerFile, Sync!Selected
<1> QED
    BY <1>1, <1>2, <1>3 DEF Next

(***************************************************************************)
(* The invariant of the snapshot.                                          *)
(***************************************************************************)
LEMMA SyncInvariant == Spec => []SyncPart
<1>1. Init => SyncPart
    BY SyncStarts DEF Init, SyncPart
<1> QED
    BY <1>1, SyncGoesOn, PTL DEF Spec

(***************************************************************************)
(* A check of the snapshot that passes means it is, file by file, what the *)
(* commit in the lock has, whatever write was killed half-way and whatever *)
(* was edited before (verify_mode of sync_data_contracts_specs.sh).        *)
(***************************************************************************)
THEOREM VerifiedSnapshotsAreTheCommit == Spec => []SnapshotIsTheCommit
<1>1. SyncInv => Sync!TypeOK /\ Sync!VerifiedIsTheCommit
    <2> SUFFICES ASSUME SyncInv PROVE Sync!TypeOK /\ Sync!VerifiedIsTheCommit
        OBVIOUS
    <2>1. /\ Sync!PathsOf(snapshot) \subseteq Files /\ Sync!PathsOf(manifest) \subseteq Files
          /\ Sync!Cardinality(snapshot) = Sync!Cardinality(Sync!PathsOf(snapshot))
        BY ListedOnce, SyncCardinality DEF SyncInv
    <2>2. "none" \notin DOMAIN Commits
        BY KeptStateAssumption DEF Sync!SnapshotAssumption
    <2> QED
        BY <2>1, <2>2 DEF SyncInv, Sync!TypeOK, Sync!VerifiedIsTheCommit
<1>2. SyncPart => SnapshotIsTheCommit
    BY <1>1 DEF SyncPart, SnapshotIsTheCommit
<1> QED
    BY <1>2, SyncInvariant, PTL


-----------------------------------------------------------------------------
(* The caches of the governance checks.                                    *)

(***************************************************************************)
(* A frame is of the reset it was entered under, an outer one of the same  *)
(* or an earlier one; what it or an entry holds under the token of now was *)
(* read after the last reset.  A frame never holds what is older than the  *)
(* reset its lookup began under.                                           *)
(***************************************************************************)
ScanEntry == [token : Nat, kind : Scan!AllKinds, oldest : Nat]
ScanFrame == [kind : Scan!AllKinds, token : Nat, got : Nat]

(* ver, cur and reset: the versions, the token, and the last reset's version. *)
Recent(tok, value, ver, cur, reset) ==
    value \in 1 .. ver /\ tok <= cur /\ (tok = cur => value >= reset)

FramesOf(fs, start, ver, cur, reset) ==
    /\ fs \in Seq(ScanFrame)
    /\ \A i \in 1 .. Len(fs) :
         /\ fs[i].token <= cur
         /\ fs[i].got # 0 => Recent(fs[i].token, fs[i].got, ver, cur, reset) /\ fs[i].got >= start
    /\ \A i \in 2 .. Len(fs) :
         /\ fs[i].kind = Scan!Inner[fs[i - 1].kind]
         /\ fs[i - 1].token <= fs[i].token

EntriesOf(S, ver, cur, reset) ==
    /\ S \subseteq ScanEntry
    /\ \A x \in S : Recent(x.token, x.oldest, ver, cur, reset)
    /\ \A x, y \in S : x.kind = y.kind /\ x.token = y.token => x = y

Numbers(ver, cur, reset) == ver \in Nat /\ cur \in Nat /\ reset \in 1 .. ver

ScanInv ==
    /\ Numbers(version, scanToken, resetAt)
    /\ EntriesOf(scanCache, version, scanToken, resetAt)
    /\ stack \in [Threads -> Seq(ScanFrame)]
    /\ scanBegan \in [Threads -> Nat] /\ result \in [Threads -> Nat]
    /\ \A t \in Threads :
         /\ scanBegan[t] <= resetAt
         /\ FramesOf(stack[t], scanBegan[t], version, scanToken, resetAt)
         /\ result[t] # 0 => result[t] >= scanBegan[t]
ScanPart == part = "scan" => ScanInv

LEMMA ScanStarts ==
    ASSUME Scan!Init
    PROVE  ScanInv
<1>1. /\ version = 1 /\ scanToken = 0 /\ scanCache = {} /\ resetAt = 1
      /\ stack = [t \in Threads |-> << >>]
      /\ scanBegan = [t \in Threads |-> 1] /\ result = [t \in Threads |-> 0]
    BY DEF Scan!Init
<1>2. FramesOf(<< >>, 1, 1, 0, 1)
    BY DEF FramesOf
<1>3. EntriesOf({}, 1, 0, 1) /\ Numbers(1, 0, 1)
    BY DEF EntriesOf, Numbers
<1> QED
    BY <1>1, <1>2, <1>3 DEF ScanInv

LEMMA GotKeepsFrames ==
    ASSUME NEW ver, NEW cur, NEW reset, Numbers(ver, cur, reset),
           NEW start, NEW fs, FramesOf(fs, start, ver, cur, reset), Len(fs) >= 1,
           NEW value, value >= start, Recent(fs[Len(fs)].token, value, ver, cur, reset)
    PROVE  FramesOf([fs EXCEPT ![Len(fs)].got = value], start, ver, cur, reset)
<1>1. fs \in Seq(ScanFrame) /\ Len(fs) \in 1 .. Len(fs) /\ value \in Nat
    BY DEF FramesOf, Recent, Numbers
<1>2. PICK n \in Nat : n = Len(fs) /\ n >= 1
    BY <1>1
<1>3. PICK f \in ScanFrame : f = fs[n]
    BY <1>1, <1>2
<1> DEFINE g == [f EXCEPT !.got = value]
           new == [fs EXCEPT ![n].got = value]
<1>4. g \in ScanFrame /\ g.kind = f.kind /\ g.token = f.token /\ g.got = value
    BY <1>1 DEF ScanFrame
<1>5. new \in Seq(ScanFrame) /\ Len(new) = n /\ new[n] = g
      /\ \A i \in 1 .. n : i # n => new[i] = fs[i]
    <2>1. new = [fs EXCEPT ![n] = g]
        BY <1>1, <1>2, <1>3
    <2> HIDE DEF g, new
    <2> QED
        BY <2>1, <1>1, <1>2, <1>4
<1> HIDE DEF g, new
<1>6. \A i \in 1 .. n : new[i].token = fs[i].token /\ new[i].kind = fs[i].kind
    BY <1>3, <1>4, <1>5
<1>7. \A i \in 1 .. n :
         /\ new[i].token <= cur
         /\ new[i].got # 0 => Recent(new[i].token, new[i].got, ver, cur, reset) /\ new[i].got >= start
    BY <1>2, <1>3, <1>4, <1>5 DEF FramesOf
<1>8. \A i \in 2 .. n : i \in 1 .. n /\ i - 1 \in 1 .. n
    BY <1>2
<1>9. \A i \in 2 .. n :
         /\ new[i].kind = Scan!Inner[new[i - 1].kind]
         /\ new[i - 1].token <= new[i].token
    BY <1>2, <1>6, <1>8 DEF FramesOf
<1>10. FramesOf(new, start, ver, cur, reset)
    BY <1>5, <1>7, <1>9 DEF FramesOf
<1> QED
    BY <1>2, <1>10 DEF new

LEMMA PushKeepsFrames ==
    ASSUME NEW ver, NEW cur, NEW reset, Numbers(ver, cur, reset),
           NEW start, NEW fs, FramesOf(fs, start, ver, cur, reset),
           NEW kind \in Scan!AllKinds,
           Len(fs) >= 1 => kind = Scan!Inner[fs[Len(fs)].kind]
    PROVE  FramesOf(Append(fs, Scan!Frame(kind, cur)), start, ver, cur, reset)
<1> DEFINE f == Scan!Frame(kind, cur)
           new == Append(fs, f)
<1>1. fs \in Seq(ScanFrame) /\ cur \in Nat
    BY DEF FramesOf, Numbers
<1>2. f \in ScanFrame /\ f.kind = kind /\ f.token = cur /\ f.got = 0
    BY <1>1 DEF Scan!Frame, ScanFrame
<1> HIDE DEF f
<1>3. PICK n \in Nat : n = Len(fs)
    BY <1>1
<1>4. new \in Seq(ScanFrame) /\ Len(new) = n + 1 /\ new[n + 1] = f
      /\ \A i \in 1 .. n : new[i] = fs[i]
    BY <1>1, <1>2, <1>3
<1> HIDE DEF new
<1>5. \A i \in 1 .. (n + 1) :
         /\ new[i].token <= cur
         /\ new[i].got # 0 => Recent(new[i].token, new[i].got, ver, cur, reset) /\ new[i].got >= start
    <2> TAKE i \in 1 .. (n + 1)
    <2>1. CASE i = n + 1
        BY <2>1, <1>1, <1>2, <1>4
    <2>2. CASE i \in 1 .. n
        BY <2>2, <1>3, <1>4 DEF FramesOf
    <2> QED
        BY <2>1, <2>2, <1>3
<1>6. \A i \in 2 .. (n + 1) :
         /\ new[i].kind = Scan!Inner[new[i - 1].kind]
         /\ new[i - 1].token <= new[i].token
    <2> TAKE i \in 2 .. (n + 1)
    <2>1. CASE i = n + 1
        <3>1. i - 1 = n /\ n \in 1 .. n /\ n >= 1 /\ new[n] = fs[n]
            BY <2>1, <1>3, <1>4
        <3>2. fs[n].token <= cur
            BY <3>1, <1>3 DEF FramesOf
        <3> QED
            BY <2>1, <3>1, <3>2, <1>2, <1>3, <1>4
    <2>2. CASE i \in 2 .. n
        <3>1. i \in 1 .. n /\ i - 1 \in 1 .. n
            BY <2>2, <1>3
        <3> QED
            BY <2>2, <3>1, <1>3, <1>4 DEF FramesOf
    <2> QED
        BY <2>1, <2>2, <1>3
<1>7. FramesOf(new, start, ver, cur, reset)
    BY <1>4, <1>5, <1>6 DEF FramesOf
<1> QED
    BY <1>7 DEF new, f

LEMMA PopKeepsFrames ==
    ASSUME NEW ver, NEW cur, NEW reset,
           NEW start, NEW fs, FramesOf(fs, start, ver, cur, reset), Len(fs) >= 1
    PROVE  /\ FramesOf(SubSeq(fs, 1, Len(fs) - 1), start, ver, cur, reset)
           /\ Len(SubSeq(fs, 1, Len(fs) - 1)) = Len(fs) - 1
           /\ \A i \in 1 .. Len(fs) - 1 : SubSeq(fs, 1, Len(fs) - 1)[i] = fs[i]
<1>1. fs \in Seq(ScanFrame)
    BY DEF FramesOf
<1>2. PICK n \in Nat : n = Len(fs) - 1
    BY <1>1
<1> DEFINE new == SubSeq(fs, 1, n)
<1>3. new \in Seq(ScanFrame) /\ Len(new) = n /\ \A i \in 1 .. n : new[i] = fs[i]
    BY <1>1, <1>2
<1> HIDE DEF new
<1>4. \A i \in 1 .. n : i \in 1 .. Len(fs)
    BY <1>1, <1>2
<1>5. \A i \in 2 .. n : i \in 2 .. Len(fs) /\ i - 1 \in 1 .. n /\ i \in 1 .. n
    BY <1>1, <1>2
<1>6. FramesOf(new, start, ver, cur, reset)
    BY <1>3, <1>4, <1>5 DEF FramesOf
<1> QED
    BY <1>2, <1>3, <1>6 DEF new

(***************************************************************************)
(* What a thread is given goes to the frame below, or is its result.       *)
(***************************************************************************)
LEMMA DeliverKeeps ==
    ASSUME ScanInv, NEW t \in Threads, NEW rest, NEW start,
           FramesOf(rest, start, version, scanToken, resetAt),
           NEW value \in 1 .. version, value >= start, start <= resetAt, start \in Nat,
           Len(rest) >= 1 => Recent(rest[Len(rest)].token, value, version, scanToken, resetAt),
           Scan!Deliver(t, rest, value)
    PROVE  /\ stack' \in [Threads -> Seq(ScanFrame)] /\ result' \in [Threads -> Nat]
           /\ FramesOf(stack'[t], start, version, scanToken, resetAt)
           /\ result'[t] = value \/ result'[t] = result[t]
           /\ rest = << >> => result'[t] = value
           /\ \A u \in Threads : u # t => stack'[u] = stack[u] /\ result'[u] = result[u]
<1>1. /\ stack \in [Threads -> Seq(ScanFrame)] /\ result \in [Threads -> Nat] /\ value \in Nat
      /\ rest \in Seq(ScanFrame) /\ Numbers(version, scanToken, resetAt)
    BY DEF ScanInv, FramesOf, Numbers
<1>2. CASE rest = << >>
    <2>1. result' = [result EXCEPT ![t] = value] /\ stack' = [stack EXCEPT ![t] = rest]
        BY <1>2 DEF Scan!Deliver
    <2> QED
        BY <2>1, <1>1, <1>2
<1>3. CASE rest # << >>
    <2>1. /\ stack' = [stack EXCEPT ![t] = [rest EXCEPT ![Len(rest)].got = value]]
          /\ UNCHANGED result /\ Len(rest) >= 1
        BY <1>1, <1>3 DEF Scan!Deliver
    <2> DEFINE new == [rest EXCEPT ![Len(rest)].got = value]
    <2>2. FramesOf(new, start, version, scanToken, resetAt)
        BY <2>1, <1>1, GotKeepsFrames
    <2>3. stack' = [stack EXCEPT ![t] = new] /\ new \in Seq(ScanFrame)
        BY <2>1, <2>2 DEF FramesOf
    <2> HIDE DEF new
    <2> QED
        BY <2>1, <2>2, <2>3, <1>1, <1>3
<1> QED
    BY <1>2, <1>3


LEMMA EnterKeeps ==
    ASSUME ScanInv, NEW t \in Threads, NEW rest, NEW start \in Nat, start <= resetAt,
           FramesOf(rest, start, version, scanToken, resetAt),
           NEW kind \in Scan!AllKinds,
           Len(rest) >= 1 => kind = Scan!Inner[rest[Len(rest)].kind],
           Scan!Enter(t, kind, rest)
    PROVE  /\ stack' \in [Threads -> Seq(ScanFrame)] /\ result' \in [Threads -> Nat]
           /\ FramesOf(stack'[t], start, version, scanToken, resetAt)
           /\ result'[t] # 0 => result'[t] >= start \/ (rest # << >> /\ result'[t] = result[t])
           /\ \A u \in Threads : u # t => stack'[u] = stack[u] /\ result'[u] = result[u]
           /\ UNCHANGED scanCache
<1>1. /\ stack \in [Threads -> Seq(ScanFrame)] /\ result \in [Threads -> Nat]
      /\ Numbers(version, scanToken, resetAt) /\ rest \in Seq(ScanFrame)
    BY DEF ScanInv, FramesOf
<1>2. CASE Scan!Found(kind, scanToken) # {}
    <2>1. PICK x \in Scan!Found(kind, scanToken) : Scan!Deliver(t, rest, x.oldest) /\ UNCHANGED scanCache
        BY <1>2 DEF Scan!Enter
    <2>2. x \in scanCache /\ x.token = scanToken
        BY <2>1 DEF Scan!Found
    <2>3. Recent(scanToken, x.oldest, version, scanToken, resetAt)
        BY <2>2 DEF ScanInv, EntriesOf
    <2>4. x.oldest \in 1 .. version /\ x.oldest >= resetAt
        BY <2>3 DEF Recent
    <2>5. x.oldest >= start
        BY <2>4, <1>1 DEF Numbers
    <2>6. Len(rest) >= 1 => Recent(rest[Len(rest)].token, x.oldest, version, scanToken, resetAt)
        <3>1. Len(rest) >= 1 => rest[Len(rest)].token <= scanToken
            <4>1. Len(rest) >= 1 => Len(rest) \in 1 .. Len(rest)
                BY <1>1
            <4>2. \A i \in 1 .. Len(rest) : rest[i].token <= scanToken
                BY DEF FramesOf
            <4> QED
                BY <4>1, <4>2
        <3> QED
            BY <3>1, <2>4 DEF Recent
    <2> QED
        BY <2>1, <2>4, <2>5, <2>6, DeliverKeeps
<1>3. CASE Scan!Found(kind, scanToken) = {}
    <2>1. /\ stack' = [stack EXCEPT ![t] = Append(rest, Scan!Frame(kind, scanToken))]
          /\ result' = [result EXCEPT ![t] = 0] /\ UNCHANGED scanCache
        BY <1>3 DEF Scan!Enter
    <2> DEFINE new == Append(rest, Scan!Frame(kind, scanToken))
    <2>2. FramesOf(new, start, version, scanToken, resetAt)
        BY <1>1, PushKeepsFrames
    <2>3. stack' = [stack EXCEPT ![t] = new] /\ new \in Seq(ScanFrame)
        BY <2>1, <2>2 DEF FramesOf
    <2> HIDE DEF new
    <2> QED
        BY <2>1, <2>2, <2>3, <1>1
<1> QED
    BY <1>2, <1>3

(* A step of one thread, seen from all of them.                             *)
LEMMA ThreadKeeps ==
    ASSUME ScanInv, NEW t \in Threads, NEW start \in Nat, start <= resetAt,
           UNCHANGED <<version, scanToken, resetAt>>,
           scanBegan' = [scanBegan EXCEPT ![t] = start],
           stack' \in [Threads -> Seq(ScanFrame)], result' \in [Threads -> Nat],
           FramesOf(stack'[t], start, version, scanToken, resetAt),
           result'[t] # 0 => result'[t] >= start,
           \A u \in Threads : u # t => stack'[u] = stack[u] /\ result'[u] = result[u],
           EntriesOf(scanCache', version, scanToken, resetAt)
    PROVE  ScanInv'
<1>1. /\ scanBegan' \in [Threads -> Nat] /\ scanBegan'[t] = start
      /\ \A u \in Threads : u # t => scanBegan'[u] = scanBegan[u]
    BY DEF ScanInv
<1>2. ASSUME NEW u \in Threads
      PROVE  /\ scanBegan'[u] <= resetAt'
             /\ FramesOf(stack'[u], scanBegan'[u], version', scanToken', resetAt')
             /\ result'[u] # 0 => result'[u] >= scanBegan'[u]
    <2>1. CASE u = t
        BY <2>1, <1>1
    <2>2. CASE u # t
        BY <2>2, <1>1 DEF ScanInv
    <2> QED
        BY <2>1, <2>2
<1>3. EntriesOf(scanCache', version', scanToken', resetAt') /\ Numbers(version', scanToken', resetAt')
    BY DEF ScanInv
<1> QED
    BY <1>1, <1>2, <1>3 DEF ScanInv

LEMMA ScanKinds ==
    /\ Kinds \subseteq Scan!AllKinds
    /\ \A k \in Scan!AllKinds : Scan!Inner[k] # Scan!Disk => Scan!Inner[k] \in Scan!AllKinds
<1>1. Kinds \subseteq Scan!AllKinds
    BY KeptStateAssumption DEF Scan!ScanCachesAssumption
<1>2. Scan!AllKinds = {"external", "iter", "normalize", "certify", "all", "chainRef", "chain", "symbols", "conformanceIds"}
    BY DEF Scan!AllKinds, Scan!Inner
<1> QED
    BY <1>1, <1>2 DEF Scan!Inner, Scan!Disk

LEMMA LookupKeeps ==
    ASSUME ScanInv, NEW t \in Threads, NEW kind \in Kinds, Scan!Lookup(t, kind)
    PROVE  ScanInv'
<1>1. /\ scanBegan' = [scanBegan EXCEPT ![t] = resetAt] /\ Scan!Enter(t, kind, << >>)
      /\ UNCHANGED <<version, scanToken, resetAt>>
    BY DEF Scan!Lookup
<1>2. resetAt \in Nat /\ resetAt <= resetAt
    BY DEF ScanInv, Numbers
<1>3. FramesOf(<< >>, resetAt, version, scanToken, resetAt) /\ kind \in Scan!AllKinds
    BY ScanKinds DEF FramesOf
<1>4. /\ stack' \in [Threads -> Seq(ScanFrame)] /\ result' \in [Threads -> Nat]
      /\ FramesOf(stack'[t], resetAt, version, scanToken, resetAt)
      /\ result'[t] # 0 => result'[t] >= resetAt
      /\ \A u \in Threads : u # t => stack'[u] = stack[u] /\ result'[u] = result[u]
      /\ UNCHANGED scanCache
    BY <1>1, <1>2, <1>3, EnterKeeps
<1> QED
    BY <1>1, <1>2, <1>4, ThreadKeeps DEF ScanInv

LEMMA SameBegan ==
    ASSUME ScanInv, NEW t \in Threads, UNCHANGED scanBegan
    PROVE  /\ scanBegan' = [scanBegan EXCEPT ![t] = scanBegan[t]]
           /\ scanBegan[t] \in Nat /\ scanBegan[t] <= resetAt
           /\ FramesOf(stack[t], scanBegan[t], version, scanToken, resetAt)
           /\ stack \in [Threads -> Seq(ScanFrame)] /\ result \in [Threads -> Nat]
           /\ Numbers(version, scanToken, resetAt)
           /\ EntriesOf(scanCache, version, scanToken, resetAt)
           /\ result[t] # 0 => result[t] >= scanBegan[t]
           /\ stack[t] # << >> => Len(stack[t]) >= 1
    BY DEF ScanInv

LEMMA DescendKeeps ==
    ASSUME ScanInv, NEW t \in Threads, Scan!Descend(t)
    PROVE  ScanInv'
<1>1. /\ Scan!Enter(t, Scan!Inner[Scan!TopOf(t).kind], stack[t]) /\ stack[t] # << >>
      /\ Scan!Inner[Scan!TopOf(t).kind] # Scan!Disk
      /\ UNCHANGED <<version, scanToken, scanBegan, resetAt>>
    BY DEF Scan!Descend
<1>2. /\ scanBegan' = [scanBegan EXCEPT ![t] = scanBegan[t]]
      /\ scanBegan[t] \in Nat /\ scanBegan[t] <= resetAt
      /\ FramesOf(stack[t], scanBegan[t], version, scanToken, resetAt)
      /\ stack \in [Threads -> Seq(ScanFrame)]
      /\ EntriesOf(scanCache, version, scanToken, resetAt)
      /\ result[t] # 0 => result[t] >= scanBegan[t]
      /\ Len(stack[t]) >= 1
    BY <1>1, SameBegan
<1>3. Scan!TopOf(t) = stack[t][Len(stack[t])] /\ stack[t][Len(stack[t])] \in ScanFrame
    BY <1>2 DEF Scan!TopOf
<1>4. Scan!Inner[Scan!TopOf(t).kind] \in Scan!AllKinds
    BY <1>1, <1>3, ScanKinds DEF ScanFrame
<1>5. /\ stack' \in [Threads -> Seq(ScanFrame)] /\ result' \in [Threads -> Nat]
      /\ FramesOf(stack'[t], scanBegan[t], version, scanToken, resetAt)
      /\ result'[t] # 0 => result'[t] >= scanBegan[t]
      /\ \A u \in Threads : u # t => stack'[u] = stack[u] /\ result'[u] = result[u]
      /\ UNCHANGED scanCache
    BY <1>1, <1>2, <1>3, <1>4, EnterKeeps
<1> QED
    BY <1>1, <1>2, <1>5, ThreadKeeps

LEMMA ReadKeeps ==
    ASSUME ScanInv, NEW t \in Threads, Scan!Read(t)
    PROVE  ScanInv'
<1>1. /\ stack' = [stack EXCEPT ![t][Len(stack[t])].got = version] /\ stack[t] # << >>
      /\ UNCHANGED <<version, scanToken, scanCache, scanBegan, resetAt, result>>
    BY DEF Scan!Read
<1>2. /\ scanBegan' = [scanBegan EXCEPT ![t] = scanBegan[t]]
      /\ scanBegan[t] \in Nat /\ scanBegan[t] <= resetAt
      /\ FramesOf(stack[t], scanBegan[t], version, scanToken, resetAt)
      /\ stack \in [Threads -> Seq(ScanFrame)] /\ result \in [Threads -> Nat]
      /\ Numbers(version, scanToken, resetAt)
      /\ EntriesOf(scanCache, version, scanToken, resetAt)
      /\ result[t] # 0 => result[t] >= scanBegan[t]
      /\ Len(stack[t]) >= 1
    BY <1>1, SameBegan
<1> DEFINE new == [stack[t] EXCEPT ![Len(stack[t])].got = version]
<1>3. stack' = [stack EXCEPT ![t] = new]
    BY <1>1, <1>2
<1>4. stack[t][Len(stack[t])].token <= scanToken
    BY <1>2 DEF FramesOf
<1>5. Recent(stack[t][Len(stack[t])].token, version, version, scanToken, resetAt) /\ version >= scanBegan[t]
    BY <1>2, <1>4 DEF Recent, Numbers
<1>6. FramesOf(new, scanBegan[t], version, scanToken, resetAt)
    BY <1>2, <1>5, GotKeepsFrames
<1> HIDE DEF new
<1>7. new \in Seq(ScanFrame)
    BY <1>6 DEF FramesOf
<1>8. /\ stack' \in [Threads -> Seq(ScanFrame)] /\ stack'[t] = new
      /\ \A u \in Threads : u # t => stack'[u] = stack[u]
    BY <1>2, <1>3, <1>7
<1> QED
    BY <1>1, <1>2, <1>6, <1>8, ThreadKeeps

LEMMA OuterIsRecent ==
    ASSUME NEW a \in Nat, NEW b \in Nat, a <= b, NEW cur \in Nat, NEW value, NEW ver, NEW reset,
           Recent(b, value, ver, cur, reset)
    PROVE  Recent(a, value, ver, cur, reset)
    BY DEF Recent

LEMMA StoreKeeps ==
    ASSUME ScanInv, NEW t \in Threads, Scan!Store(t)
    PROVE  ScanInv'
<1>1. /\ stack[t] # << >> /\ Scan!TopOf(t).got # 0
      /\ UNCHANGED <<version, scanToken, scanBegan, resetAt>>
    BY DEF Scan!Store
<1>2. /\ scanBegan' = [scanBegan EXCEPT ![t] = scanBegan[t]]
      /\ scanBegan[t] \in Nat /\ scanBegan[t] <= resetAt
      /\ FramesOf(stack[t], scanBegan[t], version, scanToken, resetAt)
      /\ stack \in [Threads -> Seq(ScanFrame)] /\ result \in [Threads -> Nat]
      /\ Numbers(version, scanToken, resetAt)
      /\ EntriesOf(scanCache, version, scanToken, resetAt)
      /\ result[t] # 0 => result[t] >= scanBegan[t]
      /\ Len(stack[t]) >= 1
    BY <1>1, SameBegan
<1>3. PICK f \in ScanFrame : f = Scan!TopOf(t) /\ f = stack[t][Len(stack[t])]
    BY <1>2 DEF Scan!TopOf
<1>4. f.got # 0 /\ Recent(f.token, f.got, version, scanToken, resetAt) /\ f.got >= scanBegan[t]
    BY <1>1, <1>2, <1>3 DEF FramesOf
<1>5. /\ scanCache' = {x \in scanCache : ~(x.kind = f.kind /\ x.token = f.token)}
                        \cup {[token |-> f.token, kind |-> f.kind, oldest |-> f.got]}
      /\ Scan!Deliver(t, SubSeq(stack[t], 1, Len(stack[t]) - 1), f.got)
    BY <1>3 DEF Scan!Store, Scan!StoreToken
<1>6. EntriesOf(scanCache', version, scanToken, resetAt)
    <2> DEFINE x0 == [token |-> f.token, kind |-> f.kind, oldest |-> f.got]
    <2>1. x0 \in ScanEntry /\ x0.token = f.token /\ x0.kind = f.kind /\ x0.oldest = f.got
        BY DEF ScanEntry, ScanFrame
    <2> HIDE DEF x0
    <2>2. \A x \in scanCache' : x = x0 \/ (x \in scanCache /\ ~(x.kind = f.kind /\ x.token = f.token))
        BY <1>5 DEF x0
    <2> QED
        BY <2>1, <2>2, <1>2, <1>4 DEF EntriesOf
<1> DEFINE rest == SubSeq(stack[t], 1, Len(stack[t]) - 1)
<1>7. /\ FramesOf(rest, scanBegan[t], version, scanToken, resetAt)
      /\ Len(rest) = Len(stack[t]) - 1
      /\ \A i \in 1 .. Len(stack[t]) - 1 : rest[i] = stack[t][i]
    BY <1>2, PopKeepsFrames
<1> HIDE DEF rest
<1>8. Scan!Deliver(t, rest, f.got)
    BY <1>5 DEF rest
<1>9. Len(rest) >= 1 => Recent(rest[Len(rest)].token, f.got, version, scanToken, resetAt)
    <2> SUFFICES ASSUME Len(rest) >= 1
                 PROVE  Recent(rest[Len(rest)].token, f.got, version, scanToken, resetAt)
        OBVIOUS
    <2>1. PICK n \in Nat : n = Len(stack[t]) /\ n >= 2
        BY <1>2, <1>7
    <2>2. rest[Len(rest)] = stack[t][n - 1] /\ n \in 2 .. Len(stack[t]) /\ n - 1 \in 1 .. Len(stack[t])
        BY <2>1, <1>7
    <2>3. stack[t][n - 1].token <= f.token
        <3>1. \A i \in 2 .. Len(stack[t]) : stack[t][i - 1].token <= stack[t][i].token
            BY <1>2 DEF FramesOf
        <3> QED
            BY <3>1, <2>1, <2>2, <1>3
    <2>4. stack[t][n - 1].token \in Nat /\ f.token \in Nat /\ scanToken \in Nat
        <3>1. stack[t] \in Seq(ScanFrame)
            BY <1>2
        <3>2. stack[t][n - 1] \in ScanFrame
            BY <3>1, <2>2
        <3> QED
            BY <3>2, <1>2 DEF ScanFrame, Numbers
    <2>5. Recent(stack[t][n - 1].token, f.got, version, scanToken, resetAt)
        BY <2>3, <2>4, <1>4, OuterIsRecent
    <2> QED
        BY <2>2, <2>5
<1>10. f.got \in 1 .. version
    BY <1>4 DEF Recent
<1>11. /\ stack' \in [Threads -> Seq(ScanFrame)] /\ result' \in [Threads -> Nat]
       /\ FramesOf(stack'[t], scanBegan[t], version, scanToken, resetAt)
       /\ result'[t] = f.got \/ result'[t] = result[t]
       /\ \A u \in Threads : u # t => stack'[u] = stack[u] /\ result'[u] = result[u]
    BY <1>2, <1>4, <1>7, <1>8, <1>9, <1>10, DeliverKeeps
<1> QED
    BY <1>1, <1>2, <1>4, <1>6, <1>11, ThreadKeeps

LEMMA RaiseKeeps ==
    ASSUME ScanInv, NEW t \in Threads, Scan!Raise(t)
    PROVE  ScanInv'
<1>1. /\ stack' = [stack EXCEPT ![t] = << >>] /\ result' = [result EXCEPT ![t] = 0]
      /\ UNCHANGED <<version, scanToken, scanCache, scanBegan, resetAt>>
    BY DEF Scan!Raise
<1>2. /\ scanBegan' = [scanBegan EXCEPT ![t] = scanBegan[t]]
      /\ scanBegan[t] \in Nat /\ scanBegan[t] <= resetAt
      /\ stack \in [Threads -> Seq(ScanFrame)] /\ result \in [Threads -> Nat]
      /\ EntriesOf(scanCache, version, scanToken, resetAt)
    BY <1>1, SameBegan
<1>3. FramesOf(<< >>, scanBegan[t], version, scanToken, resetAt)
    BY DEF FramesOf
<1>4. /\ stack' \in [Threads -> Seq(ScanFrame)] /\ stack'[t] = << >>
      /\ result' \in [Threads -> Nat] /\ result'[t] = 0
      /\ \A u \in Threads : u # t => stack'[u] = stack[u] /\ result'[u] = result[u]
    BY <1>1, <1>2
<1> QED
    BY <1>1, <1>2, <1>3, <1>4, ThreadKeeps

(***************************************************************************)
(* After a reset nothing is under its token; a change makes nothing older. *)
(***************************************************************************)
LEMMA ResetKeeps ==
    ASSUME ScanInv, Scan!Reset
    PROVE  ScanInv'
<1>1. /\ scanToken' = scanToken + 1 /\ scanCache' = {} /\ resetAt' = version
      /\ UNCHANGED <<version, stack, scanBegan, result>>
    BY DEF Scan!Reset
<1>2. Numbers(version, scanToken, resetAt)
    BY DEF ScanInv
<1>3. Numbers(version', scanToken', resetAt') /\ EntriesOf(scanCache', version', scanToken', resetAt')
    BY <1>1, <1>2 DEF Numbers, EntriesOf
<1>4. ASSUME NEW t \in Threads
      PROVE  /\ scanBegan'[t] <= resetAt'
             /\ FramesOf(stack'[t], scanBegan'[t], version', scanToken', resetAt')
    <2>1. scanBegan[t] <= resetAt /\ scanBegan[t] \in Nat
          /\ FramesOf(stack[t], scanBegan[t], version, scanToken, resetAt)
        BY DEF ScanInv
    <2>2. \A i \in 1 .. Len(stack[t]) : stack[t][i].token \in Nat
        <3>1. stack[t] \in Seq(ScanFrame)
            BY <2>1 DEF FramesOf
        <3>2. \A i \in 1 .. Len(stack[t]) : stack[t][i] \in ScanFrame
            BY <3>1
        <3> QED
            BY <3>2 DEF ScanFrame
    <2>3. FramesOf(stack[t], scanBegan[t], version, scanToken + 1, version)
        BY <2>1, <2>2, <1>2 DEF FramesOf, Recent, Numbers
    <2> QED
        BY <2>1, <2>3, <1>1, <1>2 DEF Numbers
<1> QED
    BY <1>1, <1>3, <1>4 DEF ScanInv

LEMMA ChangeKeeps ==
    ASSUME ScanInv, Scan!Change
    PROVE  ScanInv'
<1>1. /\ version' = version + 1
      /\ UNCHANGED <<scanToken, scanCache, stack, scanBegan, resetAt, result>>
    BY DEF Scan!Change
<1>2. Numbers(version, scanToken, resetAt)
    BY DEF ScanInv
<1>3. \A tok, value : Recent(tok, value, version, scanToken, resetAt)
                        => Recent(tok, value, version + 1, scanToken, resetAt)
    BY <1>2 DEF Recent, Numbers
<1>4. EntriesOf(scanCache, version + 1, scanToken, resetAt) /\ Numbers(version + 1, scanToken, resetAt)
    BY <1>2, <1>3 DEF ScanInv, EntriesOf, Numbers
<1>5. \A t \in Threads : FramesOf(stack[t], scanBegan[t], version + 1, scanToken, resetAt)
    BY <1>3 DEF ScanInv, FramesOf
<1> QED
    BY <1>1, <1>4, <1>5 DEF ScanInv

LEMMA ScanGoesOn == ScanPart /\ [Next]_vars => ScanPart'
<1> SUFFICES ASSUME ScanPart, [Next]_vars, part' = "scan" PROVE ScanInv'
    BY DEF ScanPart
<1>1. part = "scan" /\ ScanInv
    BY DEF ScanPart, Next, vars
<1>2. CASE Scan!Next
    <2>1. CASE Scan!Reset
        BY <1>1, <2>1, ResetKeeps
    <2>2. CASE Scan!Change
        BY <1>1, <2>2, ChangeKeeps
    <2>3. CASE \E t \in Threads : \E kind \in Kinds : Scan!Lookup(t, kind)
        BY <1>1, <2>3, LookupKeeps
    <2>4. CASE \E t \in Threads : Scan!Descend(t) \/ Scan!Read(t) \/ Scan!Store(t) \/ Scan!Raise(t)
        BY <1>1, <2>4, DescendKeeps, ReadKeeps, StoreKeeps, RaiseKeeps
    <2> QED
        BY <1>2, <2>1, <2>2, <2>3, <2>4 DEF Scan!Next
<1>3. CASE UNCHANGED vars
    BY <1>1, <1>3 DEF vars, processVars, scanVars, ScanInv
<1> QED
    BY <1>1, <1>2, <1>3 DEF Next

(***************************************************************************)
(* The invariant of the governance caches.                                 *)
(***************************************************************************)
LEMMA ScanInvariant == Spec => []ScanPart
<1>1. Init => ScanPart
    BY ScanStarts DEF Init, ScanPart
<1> QED
    BY <1>1, ScanGoesOn, PTL DEF Spec

(***************************************************************************)
(* However many check threads there are, and whatever of them still store  *)
(* while the caches are reset, no lookup is given a value from before the  *)
(* reset it began under and none such can be found (_reset_scan_caches).   *)
(***************************************************************************)
THEOREM ScansAreNeverStale == Spec => []ScanCachesAreFresh
<1>1. ScanInv => Scan!TypeOK /\ Scan!NothingFromBeforeTheReset /\ Scan!ReachableEntriesAreFresh
    <2> SUFFICES ASSUME ScanInv
                 PROVE  Scan!TypeOK /\ Scan!NothingFromBeforeTheReset /\ Scan!ReachableEntriesAreFresh
        OBVIOUS
    <2>1. EntriesOf(scanCache, version, scanToken, resetAt)
        BY DEF ScanInv
    <2>2. \A t \in Threads : \A i \in 1 .. Len(stack[t]) :
            i > 1 => stack[t][i].kind = Scan!Inner[stack[t][i - 1].kind]
        <3> SUFFICES ASSUME NEW t \in Threads, NEW i \in 1 .. Len(stack[t]), i > 1
                     PROVE  stack[t][i].kind = Scan!Inner[stack[t][i - 1].kind]
            OBVIOUS
        <3>1. i \in 2 .. Len(stack[t])
            OBVIOUS
        <3> QED
            BY <3>1 DEF ScanInv, FramesOf
    <2>3. Scan!TypeOK /\ Scan!ReachableEntriesAreFresh
        BY <2>1, <2>2 DEF Scan!TypeOK, Scan!ReachableEntriesAreFresh, EntriesOf, Recent, ScanEntry
    <2>4. Scan!NothingFromBeforeTheReset
        BY DEF ScanInv, Scan!NothingFromBeforeTheReset
    <2> QED
        BY <2>3, <2>4
<1>2. ScanPart => ScanCachesAreFresh
    BY <1>1 DEF ScanPart, ScanCachesAreFresh
<1> QED
    BY <1>2, ScanInvariant, PTL


-----------------------------------------------------------------------------
(* The access tokens of api.http.                                          *)

(***************************************************************************)
(* An entry is for its key, and it expires no later than its token, or was *)
(* dead on arrival: its expiry is not after now, and no skew revives it.   *)
(***************************************************************************)
Issued(t) == t.from \in Nat /\ (t.said = {} \/ \E life \in Int : t.said = {life})
Until(t) == t.from + Token!Life(t)
TokenEntry(k, e, at) ==
    /\ k \in {Token!CacheKey(r) : r \in Requests}
    /\ e.token.request = k /\ Issued(e.token)
    /\ e.expires \in Int
    /\ e.expires <= Until(e.token) \/ e.expires <= at

CallerOK(c) ==
    /\ callerPc[c] \in {"idle", "fetch", "answered", "served", "failed"}
    /\ callerPc[c] # "idle" => request[c] \in Requests
    /\ now[c] \in Nat /\ now[c] <= time
    /\ callerPc[c] \in {"idle", "fetch", "failed"} => token[c] = Token!NoToken
    /\ callerPc[c] \in {"answered", "served"} =>
            token[c].request = Token!CacheKey(request[c]) /\ Issued(token[c])
    /\ callerPc[c] = "answered" => now[c] <= token[c].from
    /\ callerPc[c] = "served" /\ cached[c] => now[c] + request[c].skew < Until(token[c])

TokenInv ==
    /\ time \in Nat
    /\ \A f \in {callerPc, request, now, token, cached} : DOMAIN f = Callers /\ f = [c \in Callers |-> f[c]]
    /\ \A k \in DOMAIN tokenCache : TokenEntry(k, tokenCache[k], time)
    /\ \A c \in Callers : CallerOK(c)
TokenPart == part = "token" => TokenInv

LEMMA TokenBounds ==
    /\ Lifetimes \subseteq Int /\ DefaultLife \in Nat
    /\ \A r \in Requests : r.skew \in Nat
    BY KeptStateAssumption DEF Token!TokenCacheAssumption

(* What is taken for the life of a token is the one that was said of it.   *)
LEMMA LifeIsSaid ==
    ASSUME NEW t, Issued(t)
    PROVE  Token!Life(t) \in Int /\ Until(t) \in Int /\ (t.said # {} => Token!Life(t) \in t.said)
<1>1. CASE t.said = {}
    BY <1>1, TokenBounds DEF Issued, Token!Life, Until
<1>2. CASE t.said # {}
    <2>1. PICK life \in Int : t.said = {life}
        BY <1>2 DEF Issued
    <2>2. (CHOOSE x \in t.said : TRUE) \in t.said
        BY <2>1
    <2>3. Token!Life(t) \in t.said
        BY <1>2, <2>2 DEF Token!Life
    <2> QED
        BY <2>1, <2>3 DEF Until, Issued
<1> QED
    BY <1>1, <1>2

LEMMA TokenStarts ==
    ASSUME Token!Init
    PROVE  TokenInv
    BY DEF Token!Init, TokenInv, CallerOK

LEMMA TickKeepsTokens ==
    ASSUME TokenInv, Token!Tick
    PROVE  TokenInv'
<1>1. time' = time + 1 /\ UNCHANGED <<tokenCache, callerPc, request, now, token, cached>> /\ time \in Nat
    BY DEF Token!Tick, TokenInv
<1>2. \A k, e : TokenEntry(k, e, time) => TokenEntry(k, e, time + 1)
    BY <1>1 DEF TokenEntry
<1>3. \A k \in DOMAIN tokenCache' : TokenEntry(k, tokenCache'[k], time')
    BY <1>1, <1>2 DEF TokenInv
<1>4. \A c \in Callers : CallerOK(c)'
    BY <1>1 DEF TokenInv, CallerOK
<1> QED
    BY <1>1, <1>3, <1>4 DEF TokenInv

(* A step of one caller that leaves its entries good.                      *)
LEMMA CallerKeeps ==
    ASSUME TokenInv, NEW c \in Callers, UNCHANGED time,
           \A f \in {callerPc', request', now', token', cached'} :
                DOMAIN f = Callers /\ f = [d \in Callers |-> f[d]],
           \A d \in Callers : d # c =>
                /\ callerPc'[d] = callerPc[d] /\ request'[d] = request[d] /\ now'[d] = now[d]
                /\ token'[d] = token[d] /\ cached'[d] = cached[d],
           CallerOK(c)',
           \A k \in DOMAIN tokenCache' : TokenEntry(k, tokenCache'[k], time)
    PROVE  TokenInv'
<1>1. \A d \in Callers : CallerOK(d)'
    <2> TAKE d \in Callers
    <2>1. CASE d # c
        BY <2>1 DEF TokenInv, CallerOK
    <2> QED
        BY <2>1
<1> QED
    BY <1>1 DEF TokenInv

LEMMA AskKeeps ==
    ASSUME TokenInv, NEW c \in Callers, NEW r \in Requests, Token!Ask(c, r)
    PROVE  TokenInv'
<1>1. /\ callerPc[c] = "idle"
      /\ request' = [request EXCEPT ![c] = r] /\ now' = [now EXCEPT ![c] = time]
      /\ UNCHANGED <<time, tokenCache>> /\ time \in Nat
      /\ token[c] = Token!NoToken
      /\ \A f \in {callerPc, request, now, token, cached} : DOMAIN f = Callers /\ f = [d \in Callers |-> f[d]]
    BY DEF Token!Ask, TokenInv, CallerOK
<1>2. CASE Token!Usable(r, time)
    <2> DEFINE e == tokenCache[Token!CacheKey(r)]
    <2>1. /\ token' = [token EXCEPT ![c] = e.token]
          /\ cached' = [cached EXCEPT ![c] = TRUE]
          /\ callerPc' = [callerPc EXCEPT ![c] = "served"]
        BY <1>2 DEF Token!Ask
    <2>2. TokenEntry(Token!CacheKey(r), e, time) /\ time < e.expires - r.skew
        BY <1>2 DEF Token!Usable, TokenInv
    <2>3. r.skew \in Nat
        BY TokenBounds
    <2>4. e.token.request = Token!CacheKey(r) /\ Issued(e.token)
        BY <2>2 DEF TokenEntry
    <2>5. time + r.skew < Until(e.token)
        BY <2>2, <2>3, <2>4, <1>1, LifeIsSaid DEF TokenEntry
    <2> HIDE DEF e
    <2>6. token'[c] = e.token /\ request'[c] = r /\ now'[c] = time /\ callerPc'[c] = "served" /\ cached'[c]
        BY <2>1, <1>1
    <2>7. CallerOK(c)'
        BY <2>4, <2>5, <2>6, <1>1 DEF CallerOK, Token!CacheKey, Issued, Until, Token!Life
    <2> QED
        BY <2>1, <2>7, <1>1, CallerKeeps DEF TokenInv
<1>3. CASE ~Token!Usable(r, time)
    <2>1. callerPc' = [callerPc EXCEPT ![c] = "fetch"] /\ UNCHANGED <<token, cached>>
        BY <1>3 DEF Token!Ask
    <2>2. CallerOK(c)'
        BY <2>1, <1>1 DEF CallerOK, Token!NoToken
    <2> QED
        BY <2>1, <2>2, <1>1, CallerKeeps DEF TokenInv
<1> QED
    BY <1>2, <1>3

LEMMA IssueKeeps ==
    ASSUME TokenInv, NEW c \in Callers, Token!Issue(c)
    PROVE  TokenInv'
<1>1. /\ callerPc[c] = "fetch" /\ callerPc' = [callerPc EXCEPT ![c] = "answered"]
      /\ UNCHANGED <<time, tokenCache, request, now, cached>> /\ time \in Nat
      /\ request[c] \in Requests /\ now[c] \in Nat /\ now[c] <= time
      /\ \A f \in {callerPc, request, now, token, cached} : DOMAIN f = Callers /\ f = [d \in Callers |-> f[d]]
    BY DEF Token!Issue, TokenInv, CallerOK
<1>2. PICK said \in {{}} \cup {{life} : life \in Lifetimes} : token' = [token EXCEPT ![c] =
            [request |-> Token!CacheKey(request[c]), from |-> time, said |-> said]]
    BY DEF Token!Issue, Token!CacheKey
<1>3. said = {} \/ \E life \in Int : said = {life}
    BY TokenBounds
<1>4. token'[c].request = Token!CacheKey(request[c]) /\ token'[c].from = time /\ token'[c].said = said
    BY <1>1, <1>2
<1>5. Issued(token[c])'
    BY <1>1, <1>3, <1>4 DEF Issued
<1>6. callerPc'[c] = "answered" /\ request'[c] = request[c] /\ now'[c] = now[c]
    BY <1>1
<1>7. CallerOK(c)'
    BY <1>1, <1>4, <1>5, <1>6 DEF CallerOK, Token!CacheKey
<1> QED
    BY <1>1, <1>2, <1>7, CallerKeeps DEF TokenInv

LEMMA FailsAndUsesKeep ==
    ASSUME TokenInv, NEW c \in Callers, Token!FetchFails(c) \/ Token!Use(c)
    PROVE  TokenInv'
<1>1. /\ UNCHANGED <<time, tokenCache, request>> /\ time \in Nat
      /\ \A f \in {callerPc, request, now, token, cached} : DOMAIN f = Callers /\ f = [d \in Callers |-> f[d]]
    BY DEF Token!FetchFails, Token!Use, TokenInv
<1>2. CASE Token!FetchFails(c)
    <2>1. callerPc[c] = "fetch" /\ callerPc' = [callerPc EXCEPT ![c] = "failed"] /\ UNCHANGED <<now, token, cached>>
        BY <1>2 DEF Token!FetchFails
    <2>2. CallerOK(c)'
        BY <2>1, <1>1 DEF TokenInv, CallerOK, Token!NoToken
    <2> QED
        BY <2>1, <2>2, <1>1, CallerKeeps DEF TokenInv
<1>3. CASE Token!Use(c)
    <2>1. /\ callerPc' = [callerPc EXCEPT ![c] = "idle"] /\ token' = [token EXCEPT ![c] = Token!NoToken]
          /\ now' = [now EXCEPT ![c] = 0] /\ cached' = [cached EXCEPT ![c] = FALSE]
        BY <1>3 DEF Token!Use
    <2>2. CallerOK(c)'
        BY <2>1, <1>1 DEF CallerOK, Token!NoToken
    <2> QED
        BY <2>1, <2>2, <1>1, CallerKeeps DEF TokenInv
<1> QED
    BY <1>2, <1>3

(***************************************************************************)
(* What is kept counts a life from before it was asked for, and no life    *)
(* for one that is not positive.                                           *)
(***************************************************************************)
LEMMA KeepKeeps ==
    ASSUME TokenInv, NEW c \in Callers, Token!Keep(c)
    PROVE  TokenInv'
<1> DEFINE own == Token!CacheKey(request[c])
           e == [token |-> token[c], expires |-> Token!Expires(c, Token!Life(token[c]))]
<1>1. /\ callerPc[c] = "answered" /\ callerPc' = [callerPc EXCEPT ![c] = "served"]
      /\ cached' = [cached EXCEPT ![c] = FALSE]
      /\ UNCHANGED <<time, request, now, token>> /\ time \in Nat
      /\ tokenCache' = [k \in DOMAIN tokenCache \cup {own} |-> IF k = own THEN e ELSE tokenCache[k]]
      /\ request[c] \in Requests /\ now[c] \in Nat /\ now[c] <= time
      /\ token[c].request = own /\ Issued(token[c]) /\ now[c] <= token[c].from
      /\ \A f \in {callerPc, request, now, token, cached} : DOMAIN f = Callers /\ f = [d \in Callers |-> f[d]]
    BY DEF Token!Keep, TokenInv, CallerOK
<1>2. TokenEntry(own, e, time)
    <2> DEFINE life == Token!Life(token[c])
    <2>1. e.token = token[c] /\ e.expires = now[c] + (IF life > 0 THEN life ELSE 0)
        BY DEF Token!Expires
    <2>2. life \in Int /\ Until(token[c]) = token[c].from + life /\ token[c].from \in Nat
        BY <1>1, LifeIsSaid DEF Until, Issued
    <2> HIDE DEF e, life
    <2>3. e.expires \in Int /\ (e.expires <= Until(e.token) \/ e.expires <= time)
        BY <2>1, <2>2, <1>1
    <2> QED
        BY <2>1, <2>3, <1>1 DEF TokenEntry
<1> HIDE DEF e, own
<1>3. \A k \in DOMAIN tokenCache' : TokenEntry(k, tokenCache'[k], time)
    BY <1>1, <1>2 DEF TokenInv
<1>4. CallerOK(c)'
    BY <1>1 DEF CallerOK, Token!CacheKey, own, Issued
<1> QED
    BY <1>1, <1>3, <1>4, CallerKeeps DEF TokenInv

LEMMA TokenGoesOn == TokenPart /\ [Next]_vars => TokenPart'
<1> SUFFICES ASSUME TokenPart, [Next]_vars, part' = "token" PROVE TokenInv'
    BY DEF TokenPart
<1>1. part = "token" /\ TokenInv
    BY DEF TokenPart, Next, vars
<1>2. CASE Token!Next
    BY <1>1, <1>2, TickKeepsTokens, AskKeeps, IssueKeeps, FailsAndUsesKeep, KeepKeeps DEF Token!Next
<1>3. CASE UNCHANGED vars
    BY <1>1, <1>3 DEF vars, processVars, tokenVars, TokenInv, CallerOK
<1> QED
    BY <1>1, <1>2, <1>3 DEF Next

(***************************************************************************)
(* The invariant of the token cache.                                       *)
(***************************************************************************)
LEMMA TokenInvariant == Spec => []TokenPart
<1>1. Init => TokenPart
    BY TokenStarts DEF Init, TokenPart
<1> QED
    BY <1>1, TokenGoesOn, PTL DEF Spec

(***************************************************************************)
(* However many callers share _OAUTH_TOKEN_CACHE without a lock, and       *)
(* whatever lives the endpoint names or leaves out, a token from the cache *)
(* was good for longer than the skew when it was asked for, by its life    *)
(* or the default one, and every token served is of the scope and the      *)
(* audience asked for.                                                     *)
(***************************************************************************)
THEOREM ServedTokensAreGood == Spec => []TokensAreGood
<1>1. TokenInv => Token!TypeOK /\ Token!CachedTokenIsLive /\ Token!TokenIsForTheRequest
    <2> SUFFICES ASSUME TokenInv
                 PROVE  Token!TypeOK /\ Token!CachedTokenIsLive /\ Token!TokenIsForTheRequest
        OBVIOUS
    <2>1. DOMAIN tokenCache \subseteq {Token!CacheKey(r) : r \in Requests}
        BY DEF TokenInv, TokenEntry
    <2>2. callerPc \in [Callers -> {"idle", "fetch", "answered", "served", "failed"}]
        BY DEF TokenInv, CallerOK
    <2>3. Token!TypeOK
        BY <2>1, <2>2 DEF Token!TypeOK, TokenInv, CallerOK
    <2>4. ASSUME NEW c \in Callers, callerPc[c] = "served", cached[c]
          PROVE  \/ \E life \in token[c].said : now[c] + request[c].skew < token[c].from + life
                 \/ token[c].said = {} /\ now[c] + request[c].skew < token[c].from + DefaultLife
        <3>1. Issued(token[c]) /\ now[c] + request[c].skew < token[c].from + Token!Life(token[c])
            BY <2>4 DEF TokenInv, CallerOK, Until
        <3>2. CASE token[c].said = {}
            BY <3>1, <3>2 DEF Token!Life
        <3>3. CASE token[c].said # {}
            BY <3>1, <3>3, LifeIsSaid
        <3> QED
            BY <3>2, <3>3
    <2>5. Token!CachedTokenIsLive
        BY <2>4 DEF Token!CachedTokenIsLive
    <2>6. Token!TokenIsForTheRequest
        BY DEF Token!TokenIsForTheRequest, Token!CacheKey, TokenInv, CallerOK
    <2> QED
        BY <2>3, <2>5, <2>6
<1>2. TokenPart => TokensAreGood
    BY <1>1 DEF TokenPart, TokensAreGood
<1> QED
    BY <1>2, TokenInvariant, PTL


-----------------------------------------------------------------------------
(* The document cache of the chain engine.                                 *)

(***************************************************************************)
(* What a chain works with is what the document f said at a time it had,   *)
(* or nothing at a time of g, at which it was moved away.  It is stored    *)
(* under a key no newer than itself.                                       *)
(***************************************************************************)
Document(d, f, g) ==
    /\ d.mtime \in 1 .. f.mtime
    /\ d.content = Chain!Nothing => d.mtime \in g
    /\ d.mtime = f.mtime => d.content \in {f.content, Chain!Nothing}
Entry(k, d, f, g) == k \in 0 .. d.mtime /\ Document(d, f, g)

ChainOK(c) ==
    /\ chainPc[c] \in {"idle", "stat", "lookup", "load", "read", "store", "filter", "done", "failed"}
    /\ chainBegan[c] \in 0 .. file.mtime /\ key[c] \in 0 .. file.mtime
    /\ key[c] = 0 \/ chainBegan[c] <= key[c]
    /\ chainPc[c] = "idle" => key[c] = 0
    /\ Chain!HasDoc(c) => Entry(key[c], got[c], file, gone)

FileOK ==
    /\ file \in [there : BOOLEAN, mtime : 1 .. MaxWrites + 1, content : Contents]
    /\ ~file.there => file.mtime \in gone

ChainInv ==
    /\ FileOK
    /\ \A f \in {chainPc, key, got, chainBegan} : DOMAIN f = Chains /\ f = [c \in Chains |-> f[c]]
    /\ \A k \in DOMAIN docCases : Entry(k, docCases[k], file, gone)
    /\ \A c \in Chains : ChainOK(c)
ChainPart == part = "chain" => ChainInv

LEMMA ChainBounds == MaxWrites \in Nat /\ \A content \in Contents : content # Chain!Nothing
<1>1. MaxWrites \in Nat /\ \A content \in Contents : DOMAIN content # {}
    BY KeptStateAssumption DEF Chain!ChainCachesAssumption
<1>2. DOMAIN Chain!Nothing = {}
    BY DEF Chain!Nothing
<1> QED
    BY <1>1, <1>2

LEMMA ChainStarts ==
    ASSUME Chain!Init
    PROVE  ChainInv
<1>1. FileOK /\ file.mtime = 1
    BY ChainBounds DEF Chain!Init, FileOK
<1>2. /\ chainPc = [c \in Chains |-> "idle"] /\ DOMAIN docCases = {}
      /\ chainBegan = [c \in Chains |-> 0] /\ key = [c \in Chains |-> 0]
      /\ \A f \in {chainPc, key, got, chainBegan} : DOMAIN f = Chains /\ f = [c \in Chains |-> f[c]]
    BY DEF Chain!Init
<1>3. ASSUME NEW c \in Chains PROVE ChainOK(c)
    <2>1. chainPc[c] = "idle" /\ chainBegan[c] = 0 /\ key[c] = 0
        BY <1>2
    <2> QED
        BY <2>1, <1>1 DEF ChainOK, Chain!HasDoc
<1> QED
    BY <1>1, <1>2, <1>3 DEF ChainInv

(***************************************************************************)
(* A rewrite makes every document one of an earlier version; moving it     *)
(* away and back leaves the time and the content it has.                   *)
(***************************************************************************)
LEMMA EditsKeepChains ==
    ASSUME ChainInv, (\E content \in Contents : Chain!Write(content)) \/ Chain!Remove \/ Chain!Restore
    PROVE  ChainInv'
<1>1. UNCHANGED <<docCases, chainPc, ref, key, got, chainBegan>>
    BY DEF Chain!Write, Chain!Remove, Chain!Restore
<1>2. /\ FileOK' /\ file.mtime \in Nat /\ file'.mtime \in Nat /\ gone \subseteq gone'
      /\ \/ file'.mtime = file.mtime + 1
         \/ file'.mtime = file.mtime /\ file'.content = file.content
    <2>1. /\ file \in [there : BOOLEAN, mtime : 1 .. MaxWrites + 1, content : Contents] /\ MaxWrites \in Nat
          /\ ~file.there => file.mtime \in gone
        BY ChainBounds DEF ChainInv, FileOK
    <2>2. CASE Chain!Remove
        <3>1. file' = [file EXCEPT !.there = FALSE] /\ gone' = gone \cup {file.mtime}
            BY <2>2 DEF Chain!Remove
        <3>2. file' \in [there : BOOLEAN, mtime : 1 .. MaxWrites + 1, content : Contents]
              /\ file'.mtime = file.mtime /\ file'.content = file.content
            BY <2>1, <3>1
        <3> QED
            BY <2>1, <3>1, <3>2 DEF FileOK
    <2>3. CASE Chain!Restore
        <3>1. file' = [file EXCEPT !.there = TRUE] /\ gone' = gone
            BY <2>3 DEF Chain!Restore
        <3>2. file' \in [there : BOOLEAN, mtime : 1 .. MaxWrites + 1, content : Contents]
              /\ file'.mtime = file.mtime /\ file'.content = file.content /\ file'.there
            BY <2>1, <3>1
        <3> QED
            BY <2>1, <3>1, <3>2 DEF FileOK
    <2>4. ASSUME NEW content \in Contents, Chain!Write(content)
          PROVE  FileOK' /\ file.mtime \in Nat /\ file'.mtime = file.mtime + 1 /\ gone' = gone
        BY <2>1, <2>4 DEF Chain!Write, FileOK
    <2> QED
        BY <2>1, <2>2, <2>3, <2>4
<1>3. \A d : Document(d, file, gone) => Document(d, file', gone')
    BY <1>2 DEF Document
<1>4. \A k, d : Entry(k, d, file, gone) => Entry(k, d, file', gone')
    BY <1>3 DEF Entry
<1>5. \A c \in Chains : ChainOK(c)'
    BY <1>1, <1>2, <1>4 DEF ChainInv, ChainOK, Chain!HasDoc
<1> QED
    BY <1>1, <1>2, <1>4, <1>5 DEF ChainInv

(* A step of one chain; the others and the document stay.                  *)
LEMMA ChainKeeps ==
    ASSUME ChainInv, NEW c \in Chains, UNCHANGED <<file, gone>>,
           \A f \in {chainPc', key', got', chainBegan'} : DOMAIN f = Chains /\ f = [d \in Chains |-> f[d]],
           \A d \in Chains : d # c =>
                /\ chainPc'[d] = chainPc[d] /\ key'[d] = key[d]
                /\ got'[d] = got[d] /\ chainBegan'[d] = chainBegan[d],
           ChainOK(c)',
           \A k \in DOMAIN docCases' : Entry(k, docCases'[k], file, gone)
    PROVE  ChainInv'
<1>1. \A d \in Chains : d # c => ChainOK(d)'
    BY DEF ChainInv, ChainOK, Chain!HasDoc
<1> QED
    BY <1>1 DEF ChainInv, FileOK

LEMMA BeginAndStatKeep ==
    ASSUME ChainInv, NEW c \in Chains, Chain!Begin(c) \/ Chain!Stat(c)
    PROVE  ChainInv'
<1>1. /\ UNCHANGED <<file, gone, docCases, got>> /\ ChainOK(c) /\ FileOK
      /\ \A f \in {chainPc, key, got, chainBegan} : DOMAIN f = Chains /\ f = [d \in Chains |-> f[d]]
    BY DEF Chain!Begin, Chain!Stat, ChainInv
<1>2. file.mtime \in Nat
    BY <1>1, ChainBounds DEF FileOK
<1>3. /\ chainPc'[c] \in {"stat", "lookup", "failed"}
      /\ \A f \in {chainPc', key', chainBegan'} : DOMAIN f = Chains /\ f = [d \in Chains |-> f[d]]
      /\ \A d \in Chains : d # c =>
            chainPc'[d] = chainPc[d] /\ key'[d] = key[d] /\ chainBegan'[d] = chainBegan[d]
    BY <1>1 DEF Chain!Begin, Chain!Stat
<1>4. chainBegan'[c] \in 0 .. file.mtime /\ key'[c] \in 0 .. file.mtime /\ (key'[c] = 0 \/ chainBegan'[c] <= key'[c])
    <2>1. CASE Chain!Begin(c)
        BY <1>1, <1>2, <2>1 DEF Chain!Begin, ChainOK
    <2>2. CASE Chain!Stat(c)
        BY <1>1, <1>2, <2>2 DEF Chain!Stat, ChainOK, Chain!FileKey
    <2> QED
        BY <2>1, <2>2
<1>5. ChainOK(c)'
    BY <1>1, <1>3, <1>4 DEF ChainOK, Chain!HasDoc
<1> QED
    BY <1>1, <1>3, <1>5, ChainKeeps DEF ChainInv

LEMMA LookupAndLoadKeep ==
    ASSUME ChainInv, NEW c \in Chains, Chain!Lookup(c) \/ Chain!Discover(c) \/ Chain!Read(c)
    PROVE  ChainInv'
<1>1. /\ UNCHANGED <<file, gone, docCases, key, chainBegan>> /\ ChainOK(c) /\ FileOK
      /\ \A f \in {chainPc, key, got, chainBegan} : DOMAIN f = Chains /\ f = [d \in Chains |-> f[d]]
    BY DEF Chain!Lookup, Chain!Discover, Chain!Read, ChainInv
<1>2. /\ file.mtime \in 1 .. MaxWrites + 1 /\ file.content \in Contents /\ MaxWrites \in Nat
      /\ file.content # Chain!Nothing /\ key[c] \in 0 .. file.mtime
    BY <1>1, ChainBounds DEF FileOK, ChainOK
<1>3. /\ chainPc[c] \in {"lookup", "load", "read"}
      /\ chainPc'[c] \in {"load", "read", "store", "filter", "failed"}
      /\ \A f \in {chainPc', got'} : DOMAIN f = Chains /\ f = [d \in Chains |-> f[d]]
      /\ \A d \in Chains : d # c => chainPc'[d] = chainPc[d] /\ got'[d] = got[d]
    BY <1>1 DEF Chain!Lookup, Chain!Discover, Chain!Read
<1>4. chainPc'[c] \in {"store", "filter"} => Entry(key[c], got'[c], file, gone)
    <2>1. CASE Chain!Lookup(c)
        BY <1>1, <2>1 DEF Chain!Lookup, ChainInv
    <2>2. CASE Chain!Discover(c)
        <3>1. chainPc'[c] \in {"store", "filter"} =>
                ~file.there /\ got'[c].mtime = file.mtime /\ got'[c].content = Chain!Nothing
            BY <1>1, <2>2 DEF Chain!Discover, Chain!Seen
        <3> QED
            BY <3>1, <1>1, <1>2 DEF Entry, Document, FileOK
    <2>3. CASE Chain!Read(c)
        <3>1. chainPc'[c] \in {"store", "filter"} =>
                got'[c].mtime = file.mtime /\ got'[c].content = file.content
            BY <1>1, <2>3 DEF Chain!Read, Chain!Seen
        <3> QED
            BY <3>1, <1>2 DEF Entry, Document
    <2> QED
        BY <2>1, <2>2, <2>3
<1>5. ChainOK(c)'
    BY <1>1, <1>3, <1>4 DEF ChainOK, Chain!HasDoc
<1> QED
    BY <1>1, <1>3, <1>5, ChainKeeps DEF ChainInv

LEMMA StoreAndFilterKeep ==
    ASSUME ChainInv, NEW c \in Chains, Chain!Store(c) \/ Chain!Filter(c)
    PROVE  ChainInv'
<1>1. /\ UNCHANGED <<file, gone, key, got, chainBegan>> /\ ChainOK(c) /\ chainPc[c] \in {"store", "filter"}
      /\ \A f \in {chainPc, key, got, chainBegan} : DOMAIN f = Chains /\ f = [d \in Chains |-> f[d]]
    BY DEF Chain!Store, Chain!Filter, ChainInv
<1>2. Entry(key[c], got[c], file, gone)
    BY <1>1 DEF ChainOK, Chain!HasDoc
<1>3. /\ chainPc'[c] \in {"filter", "done", "failed"}
      /\ DOMAIN chainPc' = Chains /\ chainPc' = [d \in Chains |-> chainPc'[d]]
      /\ \A d \in Chains : d # c => chainPc'[d] = chainPc[d]
    BY <1>1 DEF Chain!Store, Chain!Filter
<1>4. \A k \in DOMAIN docCases' : Entry(k, docCases'[k], file, gone)
    <2>1. CASE Chain!Store(c)
        <3>1. docCases' = [k \in DOMAIN docCases \cup {key[c]} |-> IF k = key[c] THEN got[c] ELSE docCases[k]]
            BY <2>1 DEF Chain!Store, Chain!With
        <3> QED
            BY <3>1, <1>2 DEF ChainInv
    <2>2. CASE Chain!Filter(c)
        BY <2>2 DEF Chain!Filter, ChainInv
    <2> QED
        BY <2>1, <2>2
<1>5. ChainOK(c)'
    BY <1>1, <1>2, <1>3 DEF ChainOK, Chain!HasDoc
<1> QED
    BY <1>1, <1>3, <1>4, <1>5, ChainKeeps

LEMMA ChainGoesOn == ChainPart /\ [Next]_vars => ChainPart'
<1> SUFFICES ASSUME ChainPart, [Next]_vars, part' = "chain" PROVE ChainInv'
    BY DEF ChainPart
<1>1. part = "chain" /\ ChainInv
    BY DEF ChainPart, Next, vars
<1>2. CASE Chain!Next
    BY <1>1, <1>2, EditsKeepChains, BeginAndStatKeep, LookupAndLoadKeep, StoreAndFilterKeep DEF Chain!Next
<1>3. CASE UNCHANGED vars
    <2>1. UNCHANGED <<file, gone, docCases, chainPc, key, got, chainBegan>>
        BY <1>3 DEF vars, processVars, chainVars
    <2> QED
        BY <1>1, <2>1 DEF ChainInv, ChainOK, Chain!HasDoc, FileOK
<1> QED
    BY <1>1, <1>2, <1>3 DEF Next

(***************************************************************************)
(* The invariant of the chain engine's document cache.                     *)
(***************************************************************************)
LEMMA ChainInvariant == Spec => []ChainPart
<1>1. Init => ChainPart
    BY ChainStarts DEF Init, ChainPart
<1> QED
    BY <1>1, ChainGoesOn, PTL DEF Spec

(***************************************************************************)
(* However many chains look a document up while it is rewritten and moved  *)
(* away and back, none works with a version older than its start, none     *)
(* with nothing unless the document was away, and what is kept under the   *)
(* key a document has now is what it says now, or nothing when it was away *)
(* (_load_doc_internal_cases).                                             *)
(***************************************************************************)
THEOREM ChainCachesStayTrue == Spec => []ChainCachesAreTrue
<1>1. ChainInv => /\ Chain!TypeOK /\ Chain!NeverOlderThanTheStart
                  /\ Chain!NothingMeansGone /\ Chain!EntryOfNowIsOfNow
    <2> SUFFICES ASSUME ChainInv
                 PROVE  /\ Chain!TypeOK /\ Chain!NeverOlderThanTheStart
                        /\ Chain!NothingMeansGone /\ Chain!EntryOfNowIsOfNow
        OBVIOUS
    <2>1. file.mtime \in 1 .. MaxWrites + 1 /\ MaxWrites \in Nat
        BY ChainBounds DEF ChainInv, FileOK
    <2>2. \A k \in DOMAIN docCases : k \in 0 .. docCases[k].mtime /\ docCases[k].mtime \in 1 .. file.mtime
        BY DEF ChainInv, Entry, Document
    <2>3. DOMAIN docCases \subseteq 0 .. MaxWrites + 1
        <3> SUFFICES ASSUME NEW k \in DOMAIN docCases PROVE k \in 0 .. MaxWrites + 1
            OBVIOUS
        <3> QED
            BY <2>1, <2>2
    <2>4. chainPc \in [Chains -> {"idle", "stat", "lookup", "load", "read", "store", "filter", "done", "failed"}]
        BY DEF ChainInv, ChainOK
    <2>5. Chain!TypeOK
        BY <2>2, <2>3, <2>4 DEF Chain!TypeOK
    <2>6. Chain!EntryOfNowIsOfNow
        <3> SUFFICES ASSUME file.mtime \in DOMAIN docCases
                     PROVE  \/ docCases[file.mtime].content = file.content
                            \/ docCases[file.mtime].content = Chain!Nothing /\ file.mtime \in gone
            BY DEF Chain!EntryOfNowIsOfNow, Chain!FileKey
        <3>1. docCases[file.mtime].mtime = file.mtime
            BY <2>1, <2>2
        <3> QED
            BY <3>1 DEF ChainInv, Entry, Document
    <2>7. Chain!NeverOlderThanTheStart
        <3> SUFFICES ASSUME NEW c \in Chains, Chain!HasDoc(c), key[c] # 0
                     PROVE  got[c].mtime >= chainBegan[c]
            BY DEF Chain!NeverOlderThanTheStart
        <3>1. /\ chainBegan[c] \in 0 .. file.mtime /\ key[c] \in 0 .. file.mtime /\ chainBegan[c] <= key[c]
              /\ key[c] \in 0 .. got[c].mtime /\ got[c].mtime \in 1 .. file.mtime
            BY DEF ChainInv, ChainOK, Entry, Document
        <3> QED
            BY <3>1, <2>1
    <2>8. Chain!NothingMeansGone
        BY DEF Chain!NothingMeansGone, ChainInv, ChainOK, Entry, Document
    <2> QED
        BY <2>5, <2>6, <2>7, <2>8
<1>2. ChainPart => ChainCachesAreTrue
    BY <1>1 DEF ChainPart, ChainCachesAreTrue
<1> QED
    BY <1>2, ChainInvariant, PTL


-----------------------------------------------------------------------------
(* The docs command.                                                       *)

(***************************************************************************)
(* Reports are written once every case has ended and its error is          *)
(* collected, each after the one before it; no case ever passes.           *)
(***************************************************************************)
DocTypes ==
    /\ asked \in BOOLEAN /\ traced \in BOOLEAN /\ raised \in BOOLEAN
    /\ workers \in Nat /\ selected \in 0 .. MaxSelected
    /\ job \in [1 .. MaxSelected -> {"queued", "running", "fail", "raised"}]
    /\ disk \in [Generate!Outputs -> {"old", "pass", "fail"}]
    /\ pc \in {"start", "pool", "drain", "trace", "report", "summary", "timing", "ended"}
    /\ exit \in {"none", "0", "1", "raised"}
    /\ errors \subseteq 0 .. selected

WorkersOK == IsFiniteSet(Generate!Running) /\ Cardinality(Generate!Running) <= workers

EarlyErrors == IF asked /\ selected = 0 THEN {Generate!UnknownSurface} ELSE {}
Collected == Generate!AllEnded /\ errors = EarlyErrors \cup Generate!Failed
AllOld == \A o \in Generate!Outputs : ~Generate!Written(o)

CommandOK ==
    /\ pc = "start" => errors = {} /\ AllOld /\ ~raised
    /\ pc \in {"pool", "drain"} => errors = EarlyErrors /\ AllOld /\ (raised <=> pc = "drain")
    /\ pc = "trace" => AllOld /\ (raised \/ Collected)
    /\ pc \in {"report", "summary", "timing"} => Collected /\ (traced => disk["trace"] = Generate!Verdict)
    /\ pc \in {"report", "summary"} => ~Generate!Written("timing")
    /\ pc = "report" => ~Generate!Written("summary") /\ ~Generate!Written("report")
    /\ pc = "summary" => Generate!Written("report") /\ ~Generate!Written("summary")
    /\ pc = "timing" => Generate!Written("summary")
    /\ pc # "ended" => exit = "none"

ReportsOK ==
    /\ Generate!Written("report") =>
         /\ Collected /\ (traced => disk["trace"] = Generate!Verdict)
         /\ disk["report"] = Generate!PayloadStatus
    /\ Generate!Written("summary") => Generate!Written("report") /\ disk["summary"] = Generate!PayloadStatus
    /\ Generate!Written("timing") => Generate!Written("summary") /\ disk["timing"] = Generate!PayloadStatus
    /\ exit = "0" => Generate!Written("timing") /\ Generate!PayloadStatus = "pass"
    /\ exit = "1" => AllOld \/ (Generate!Written("timing") /\ Generate!PayloadStatus = "fail")

DocsInv == DocTypes /\ WorkersOK /\ CommandOK /\ ReportsOK
DocsPart == part = "docs" => DocsInv

LEMMA DocsCardinality ==
    ASSUME NEW S
    PROVE  Generate!Cardinality(S) = Cardinality(S)
    BY DEF Generate!Cardinality, Cardinality

LEMMA DocsBounds == MaxSelected \in Nat /\ MaxWorkers \in Nat \ {0}
    BY KeptStateAssumption DEF Generate!DocsGenerateAssumption

LEMMA DocsStart ==
    ASSUME Generate!Init
    PROVE  DocsInv
<1>1. DocTypes
    <2>1. workers \in Nat /\ selected \in 0 .. MaxSelected
        BY DocsBounds DEF Generate!Init
    <2>2. job \in [1 .. MaxSelected -> {"queued", "running", "fail", "raised"}]
        BY DEF Generate!Init
    <2>3. disk \in [Generate!Outputs -> {"old", "pass", "fail"}]
        BY DEF Generate!Init
    <2> QED
        BY <2>1, <2>2, <2>3 DEF Generate!Init, DocTypes
<1>2. Generate!Running = {}
    BY <1>1, DocsBounds DEF Generate!Init, Generate!Running, Generate!Jobs
<1>3. WorkersOK
    BY <1>1, <1>2, FS_EmptySet DEF WorkersOK, DocTypes
<1>4. AllOld
    BY DEF Generate!Init, AllOld, Generate!Written
<1>5. CommandOK /\ ReportsOK
    BY <1>4 DEF Generate!Init, CommandOK, ReportsOK, AllOld, Generate!Outputs
<1> QED
    BY <1>1, <1>3, <1>5 DEF DocsInv

LEMMA OneMoreAtWork ==
    ASSUME NEW R, NEW S, NEW s, NEW n \in Nat, IsFiniteSet(R), Cardinality(R) <= n,
           S \subseteq R \cup {s}, s \in R \/ Cardinality(R) < n
    PROVE  IsFiniteSet(S) /\ Cardinality(S) <= n
<1>1. IsFiniteSet(R \cup {s}) /\ Cardinality(R \cup {s}) = IF s \in R THEN Cardinality(R) ELSE Cardinality(R) + 1
    BY FS_AddElement
<1>2. Cardinality(R) \in Nat /\ Cardinality(R \cup {s}) \in Nat
    BY <1>1, FS_CardinalityType
<1>3. Cardinality(R \cup {s}) <= n
    BY <1>1, <1>2
<1>4. IsFiniteSet(S) /\ Cardinality(S) <= Cardinality(R \cup {s}) /\ Cardinality(S) \in Nat
    BY <1>1, FS_Subset, FS_CardinalityType
<1> QED
    BY <1>2, <1>3, <1>4

(* No runner is known for docs.generate: a case never passes.              *)
LEMMA JobsKeepDocs ==
    ASSUME DocsInv, NEW s \in Generate!Jobs,
           Generate!Start(s) \/ Generate!MkdirRaises(s) \/ Generate!RunCase(s)
    PROVE  DocsInv'
<1>1. DocTypes /\ WorkersOK /\ CommandOK /\ ReportsOK /\ s \in 1 .. selected /\ s \in 1 .. MaxSelected
    BY DocsBounds DEF DocsInv, DocTypes, Generate!Jobs
<1>2. UNCHANGED <<asked, traced, workers, selected, raised, disk, pc, errors, exit>>
    BY DEF Generate!Start, Generate!MkdirRaises, Generate!RunCase, Generate!options
<1>3. "docs.generate" \notin {"contract.check", "contract.export", "contract.job"}
    OBVIOUS
<1>4. \/ /\ job[s] = "queued" /\ pc = "pool" /\ Cardinality(Generate!Running) < workers
         /\ job' = [job EXCEPT ![s] = "running"]
      \/ /\ job[s] = "running" /\ \E x \in {"fail", "raised"} : job' = [job EXCEPT ![s] = x]
    BY <1>3, DocsCardinality DEF Generate!Start, Generate!MkdirRaises, Generate!RunCase,
       Generate!Runners, Generate!DocsType
<1>5. DocTypes'
    BY <1>1, <1>2, <1>4 DEF DocTypes
<1>6. Generate!Running' \subseteq Generate!Running \cup {s}
      /\ (s \in Generate!Running \/ Cardinality(Generate!Running) < workers)
    <2>1. \A x \in 1 .. selected : x # s => job'[x] = job[x]
        BY <1>1, <1>4, DocsBounds DEF DocTypes
    <2>2. Generate!Running' = {x \in 1 .. selected : job'[x] = "running"}
        BY <1>2 DEF Generate!Running, Generate!Jobs
    <2>3. Generate!Running = {x \in 1 .. selected : job[x] = "running"}
        BY DEF Generate!Running, Generate!Jobs
    <2> QED
        BY <1>1, <1>4, <2>1, <2>2, <2>3
<1>7. WorkersOK'
    BY <1>1, <1>2, <1>6, OneMoreAtWork DEF WorkersOK, DocTypes
<1>8. ~Generate!AllEnded /\ ~Collected
    BY <1>4 DEF Generate!AllEnded, Generate!Ended, Collected
<1>9. pc \notin {"report", "summary", "timing"} /\ ~Generate!Written("report")
      /\ ~Generate!Written("summary") /\ ~Generate!Written("timing") /\ (pc = "trace" => raised)
    BY <1>1, <1>8 DEF CommandOK, ReportsOK
<1>10. CommandOK' /\ ReportsOK'
    BY <1>1, <1>2, <1>9 DEF CommandOK, ReportsOK, AllOld, EarlyErrors, Generate!Written
<1> QED
    BY <1>5, <1>7, <1>10 DEF DocsInv

LEMMA NothingIsWritten ==
    ASSUME AllOld', exit' = "none"
    PROVE  ReportsOK'
    BY DEF AllOld, ReportsOK, Generate!Outputs

(* The steps of the command leave the jobs alone.                          *)
LEMMA CommandKeepsDocs ==
    ASSUME DocsInv,
           \/ Generate!MissingCases \/ Generate!LoadRaises \/ Generate!Select
           \/ Generate!Collect \/ Generate!CollectRaises \/ Generate!Interrupted \/ Generate!Drained
           \/ Generate!Breaks \/ Generate!Stops
    PROVE  DocsInv'
<1>1. DocTypes /\ WorkersOK /\ CommandOK /\ ReportsOK
    BY DEF DocsInv
<1>2. UNCHANGED <<asked, traced, workers, selected, job, disk>>
    BY DEF Generate!MissingCases, Generate!LoadRaises, Generate!Select, Generate!Collect,
       Generate!CollectRaises, Generate!Interrupted, Generate!Drained, Generate!Breaks,
       Generate!Stops, Generate!vars, Generate!options
<1>3. WorkersOK'
    BY <1>1, <1>2 DEF WorkersOK, Generate!Running, Generate!Jobs
<1>4. UNCHANGED <<AllOld, Generate!AllEnded, Generate!Failed, EarlyErrors>>
    BY <1>2 DEF AllOld, Generate!Written, Generate!AllEnded, Generate!Ended, Generate!Jobs, Generate!Failed, EarlyErrors
<1>5. CASE Generate!MissingCases \/ Generate!LoadRaises \/ Generate!Breaks \/ Generate!Stops
    <2>1. UNCHANGED <<raised, errors>> /\ pc' = "ended" /\ exit' \in {"none", "0", "1", "raised"}
          /\ (pc # "ended" => exit' = "raised" \/ (exit' = "1" /\ AllOld))
          /\ (pc = "ended" => exit' = exit)
        BY <1>1, <1>5 DEF Generate!MissingCases, Generate!LoadRaises, Generate!Breaks,
           Generate!Stops, Generate!vars, CommandOK, DocTypes, Generate!Outputs
    <2>2. DocTypes'
        BY <1>1, <1>2, <2>1 DEF DocTypes
    <2>3. CommandOK' /\ ReportsOK'
        BY <1>1, <1>2, <1>4, <2>1 DEF CommandOK, ReportsOK, Collected, Generate!Verdict,
           Generate!PayloadStatus, Generate!Written
    <2> QED
        BY <1>3, <2>2, <2>3 DEF DocsInv
<1>6. CASE Generate!Select
    <2>1. /\ pc = "start" /\ pc' = "pool" /\ UNCHANGED <<raised, exit>> /\ errors' = EarlyErrors
          /\ AllOld /\ exit = "none" /\ ~raised
        BY <1>1, <1>6 DEF Generate!Select, CommandOK, EarlyErrors
    <2>2. DocTypes'
        BY <1>1, <1>2, <2>1 DEF DocTypes, EarlyErrors, Generate!UnknownSurface
    <2> QED
        BY <1>3, <1>4, <2>1, <2>2, NothingIsWritten DEF DocsInv, CommandOK
<1>7. CASE Generate!Collect
    <2>1. /\ pc = "pool" /\ pc' = "trace" /\ UNCHANGED <<raised, exit>> /\ Generate!AllEnded
          /\ errors' = EarlyErrors \cup Generate!Failed /\ AllOld /\ exit = "none"
        BY <1>1, <1>7 DEF Generate!Collect, CommandOK
    <2>2. DocTypes'
        BY <1>1, <1>2, <2>1 DEF DocTypes, EarlyErrors, Generate!UnknownSurface, Generate!Failed, Generate!Jobs
    <2>3. Collected'
        BY <1>4, <2>1 DEF Collected
    <2> QED
        BY <1>3, <1>4, <2>1, <2>2, <2>3, NothingIsWritten DEF DocsInv, CommandOK
<1>8. CASE Generate!CollectRaises \/ Generate!Interrupted \/ Generate!Drained
    <2>1. /\ pc \in {"pool", "drain"} /\ UNCHANGED <<exit, errors>> /\ AllOld /\ exit = "none"
          /\ raised' = TRUE /\ pc' \in {"drain", "trace"} /\ errors = EarlyErrors
        BY <1>1, <1>8 DEF Generate!CollectRaises, Generate!Interrupted, Generate!Drained, CommandOK, DocTypes
    <2>2. DocTypes'
        BY <1>1, <1>2, <2>1 DEF DocTypes
    <2> QED
        BY <1>3, <1>4, <2>1, <2>2, NothingIsWritten DEF DocsInv, CommandOK
<1> QED
    BY <1>5, <1>6, <1>7, <1>8

LEMMA TraceKeepsDocs ==
    ASSUME DocsInv, Generate!CloseTrace
    PROVE  DocsInv'
<1>1. /\ DocTypes /\ WorkersOK /\ CommandOK /\ pc = "trace" /\ exit = "none"
      /\ AllOld /\ (raised \/ Collected)
      /\ UNCHANGED <<asked, traced, workers, selected, job, raised, errors>>
      /\ disk' = IF traced THEN [disk EXCEPT !["trace"] = Generate!Verdict] ELSE disk
      /\ IF raised THEN exit' = "raised" /\ pc' = "ended" ELSE pc' = "report" /\ UNCHANGED exit
    BY DEF DocsInv, CommandOK, Generate!CloseTrace, Generate!options
<1>2. DocTypes' /\ (traced => disk'["trace"] = Generate!Verdict)
    BY <1>1 DEF DocTypes, Generate!Verdict, Generate!Outputs
<1>3. \A o \in {"report", "summary", "timing"} : ~Generate!Written(o)'
    BY <1>1 DEF DocTypes, AllOld, Generate!Written, Generate!Outputs
<1>4. UNCHANGED <<Collected, Generate!Verdict>>
    BY <1>1 DEF Collected, EarlyErrors, Generate!AllEnded, Generate!Ended, Generate!Jobs,
       Generate!Failed, Generate!Verdict
<1>5. WorkersOK'
    BY <1>1 DEF WorkersOK, Generate!Running, Generate!Jobs
<1>6. CommandOK' /\ ReportsOK'
    BY <1>1, <1>2, <1>3, <1>4 DEF CommandOK, ReportsOK
<1> QED
    BY <1>2, <1>5, <1>6 DEF DocsInv

(* Each report is written after the one before it, with the same status.   *)
LEMMA ReportsKeepDocs ==
    ASSUME DocsInv, Generate!WriteReport \/ Generate!WriteSummary \/ Generate!WriteTiming
    PROVE  DocsInv'
<1>1. /\ DocTypes /\ WorkersOK /\ CommandOK /\ ReportsOK
      /\ pc \in {"report", "summary", "timing"} /\ exit = "none"
      /\ UNCHANGED <<asked, traced, workers, selected, job, raised, errors>>
      /\ disk' = [disk EXCEPT ![pc] = Generate!PayloadStatus]
    BY DEF DocsInv, CommandOK, Generate!WriteReport, Generate!WriteSummary, Generate!WriteTiming,
       Generate!Save, Generate!options
<1>2. /\ pc = "report" => pc' = "summary" /\ exit' = exit
      /\ pc = "summary" => pc' = "timing" /\ exit' = exit
      /\ pc = "timing" => pc' = "ended" /\ exit' = IF Generate!PayloadStatus = "pass" THEN "0" ELSE "1"
    BY DEF Generate!WriteReport, Generate!WriteSummary, Generate!WriteTiming, Generate!Save
<1>3. Generate!PayloadStatus \in {"pass", "fail"} /\ pc \in Generate!Outputs /\ pc # "trace"
    BY <1>1 DEF Generate!PayloadStatus, Generate!Outputs
<1>4. DocTypes' /\ disk'[pc] = Generate!PayloadStatus /\ disk'[pc] # "old"
    BY <1>1, <1>2, <1>3 DEF DocTypes
<1>5. \A o \in Generate!Outputs : o # pc => disk'[o] = disk[o]
    BY <1>1, <1>3 DEF DocTypes
<1>6. UNCHANGED <<Collected, Generate!Verdict, Generate!PayloadStatus>>
    BY <1>1 DEF Collected, EarlyErrors, Generate!AllEnded, Generate!Ended, Generate!Jobs,
       Generate!Failed, Generate!Verdict, Generate!PayloadStatus
<1>7. WorkersOK'
    BY <1>1 DEF WorkersOK, Generate!Running, Generate!Jobs
<1>8. {"trace", "report", "summary", "timing"} = Generate!Outputs
    BY DEF Generate!Outputs
<1>9. CASE pc = "report"
    <2>1. disk'["report"] \in {"pass", "fail"} /\ disk'["report"] = Generate!PayloadStatus /\ pc' = "summary"
        BY <1>2, <1>3, <1>4, <1>9
    <2>2. disk'["trace"] = disk["trace"] /\ disk'["summary"] = disk["summary"] /\ disk'["timing"] = disk["timing"]
        BY <1>5, <1>8, <1>9
    <2>3. exit' = exit
        BY <1>2, <1>3, <1>9
    <2>4. CommandOK'
        BY <1>1, <1>6, <1>9, <2>1, <2>2, <2>3 DEF CommandOK, Generate!Written
    <2>5. ReportsOK'
        BY <1>1, <1>6, <1>9, <2>1, <2>2, <2>3 DEF ReportsOK, CommandOK, Generate!Written
    <2> QED
        BY <1>4, <1>7, <2>4, <2>5 DEF DocsInv
<1>10. CASE pc = "summary"
    <2>1. disk'["summary"] \in {"pass", "fail"} /\ disk'["summary"] = Generate!PayloadStatus /\ pc' = "timing"
        BY <1>2, <1>3, <1>4, <1>10
    <2>2. disk'["trace"] = disk["trace"] /\ disk'["report"] = disk["report"] /\ disk'["timing"] = disk["timing"]
        BY <1>5, <1>8, <1>10
    <2>3. exit' = exit
        BY <1>2, <1>3, <1>10
    <2>4. CommandOK'
        BY <1>1, <1>6, <1>10, <2>1, <2>2, <2>3 DEF CommandOK, Generate!Written
    <2>5. ReportsOK'
        BY <1>1, <1>6, <1>10, <2>1, <2>2, <2>3 DEF ReportsOK, CommandOK, Generate!Written
    <2> QED
        BY <1>4, <1>7, <2>4, <2>5 DEF DocsInv
<1>11. CASE pc = "timing"
    <2>1. disk'["timing"] \in {"pass", "fail"} /\ disk'["timing"] = Generate!PayloadStatus /\ pc' = "ended"
        BY <1>2, <1>3, <1>4, <1>11
    <2>2. disk'["trace"] = disk["trace"] /\ disk'["report"] = disk["report"] /\ disk'["summary"] = disk["summary"]
        BY <1>5, <1>8, <1>11
    <2>3. exit' = IF Generate!PayloadStatus = "pass" THEN "0" ELSE "1"
        BY <1>2, <1>3, <1>11
    <2>4. CommandOK'
        BY <1>1, <1>6, <1>11, <2>1, <2>2, <2>3 DEF CommandOK, Generate!Written
    <2>5. ReportsOK'
        BY <1>1, <1>6, <1>11, <2>1, <2>2, <2>3 DEF ReportsOK, CommandOK, Generate!Written
    <2> QED
        BY <1>4, <1>7, <2>4, <2>5 DEF DocsInv
<1> QED
    BY <1>1, <1>9, <1>10, <1>11

LEMMA DocsGoOn == DocsPart /\ [Next]_vars => DocsPart'
<1> SUFFICES ASSUME DocsPart, [Next]_vars, part' = "docs" PROVE DocsInv'
    BY DEF DocsPart
<1>1. part = "docs" /\ DocsInv
    BY DEF DocsPart, Next, vars
<1>2. CASE Generate!Next
    BY <1>1, <1>2, JobsKeepDocs, CommandKeepsDocs, TraceKeepsDocs, ReportsKeepDocs DEF Generate!Next
<1>3. CASE UNCHANGED vars
    <2>1. Generate!Stops \/ UNCHANGED Generate!vars
        BY <1>3 DEF vars, commandVars, docsVars, Generate!vars
    <2>2. UNCHANGED Generate!vars
        BY <2>1 DEF Generate!Stops
    <2>3. UNCHANGED <<asked, traced, workers, selected, job, raised, disk, pc, errors, exit>>
        BY <2>2 DEF Generate!vars
    <2>4. UNCHANGED <<Generate!Running, Generate!AllEnded, Generate!Failed, EarlyErrors, AllOld,
                      Generate!Verdict, Generate!PayloadStatus>>
        BY <2>3 DEF Generate!Running, Generate!Jobs, Generate!AllEnded, Generate!Ended, Generate!Failed,
           EarlyErrors, AllOld, Generate!Written, Generate!Verdict, Generate!PayloadStatus
    <2>5. DocTypes' /\ WorkersOK' /\ CommandOK'
        BY <1>1, <2>3, <2>4 DEF DocsInv, DocTypes, WorkersOK, CommandOK, Collected, Generate!Written
    <2>6. ReportsOK'
        BY <1>1, <2>3, <2>4 DEF DocsInv, ReportsOK, Collected, Generate!Written
    <2> QED
        BY <2>5, <2>6 DEF DocsInv
<1> QED
    BY <1>1, <1>2, <1>3 DEF Next

(***************************************************************************)
(* The invariant of the docs command.                                      *)
(***************************************************************************)
LEMMA DocsInvariant == Spec => []DocsPart
<1>1. Init => DocsPart
    BY DocsStart DEF Init, DocsPart
<1> QED
    BY <1>1, DocsGoOn, PTL DEF Spec

LEMMA ReportsSayTheSame ==
    ASSUME DocsInv
    PROVE  Generate!ReportsAgree /\ Generate!PassesOnNothing
<1>1. DocTypes /\ ReportsOK
    BY DEF DocsInv
<1>2. ASSUME Collected
      PROVE  /\ Generate!PayloadStatus = Generate!Verdict
             /\ Generate!PayloadStatus = "pass" <=> Generate!Failed = {} /\ ~(asked /\ selected = 0)
             /\ Generate!PayloadStatus = "pass" => selected = 0 /\ ~asked
    <2>1. errors = {} <=> Generate!Failed = {} /\ ~(asked /\ selected = 0)
        BY <1>2 DEF Collected, EarlyErrors
    <2>2. \A s \in 1 .. selected : s \in 1 .. MaxSelected /\ s \in Generate!Failed
        BY <1>1, <1>2, DocsBounds DEF Collected, Generate!AllEnded, Generate!Ended, Generate!Jobs,
           Generate!Failed, DocTypes
    <2>3. Generate!Failed = {} => selected = 0
        <3>1. selected \in Nat
            BY <1>1, DocsBounds DEF DocTypes
        <3> QED
            BY <3>1, <2>2
    <2> QED
        BY <2>1, <2>3 DEF Generate!PayloadStatus, Generate!Verdict
<1>3. Generate!ReportsAgree
    BY <1>1, <1>2 DEF ReportsOK, Generate!ReportsAgree, Collected, AllOld
<1>4. Generate!PassesOnNothing
    BY <1>1, <1>2 DEF ReportsOK, Generate!PassesOnNothing, Generate!Written
<1> QED
    BY <1>3, <1>4

(***************************************************************************)
(* However many cases and threads there are and wherever the command       *)
(* breaks off, trace, report, summary, timing file and exit code say the   *)
(* same and what the cases came to, and it passes only where there is no   *)
(* case to run (docs_generate_specs.main).                                 *)
(***************************************************************************)
THEOREM DocsReportsTell == Spec => []DocsCommandTellsTheTruth
<1>1. DocsInv => Generate!TypeOK
    <2> SUFFICES ASSUME DocsInv PROVE Generate!TypeOK
        OBVIOUS
    <2>1. Generate!Cardinality(Generate!Running) <= workers
        BY DocsCardinality DEF DocsInv, WorkersOK
    <2>2. errors \subseteq Generate!Jobs \cup {Generate!UnknownSurface}
        BY DocsBounds DEF DocsInv, DocTypes, Generate!Jobs, Generate!UnknownSurface
    <2> QED
        BY <2>1, <2>2 DEF Generate!TypeOK, DocsInv, DocTypes
<1>2. DocsPart => DocsCommandTellsTheTruth
    BY <1>1, ReportsSayTheSame DEF DocsPart, DocsCommandTellsTheTruth
<1> QED
    BY <1>2, DocsInvariant, PTL

LEMMA SyncStepVerifies ==
    ASSUME SyncInv, Sync!Next
    PROVE  Sync!WriteVerifies
<1> SUFFICES ASSUME pc = "verify", pc' = "idle", Required \subseteq DOMAIN Commits[target]
             PROVE  exit' \in {"0", "none"}
    BY DEF Sync!WriteVerifies
<1>1. Sync!VerifyAfter \/ Sync!Killed
    BY DEF Sync!Next, Sync!CheckMode, Sync!WriteMode, Sync!Remove, Sync!Copy, Sync!CopyEnds,
           Sync!WriteManifest, Sync!WriteLock, Sync!Edit
<1>2. CASE Sync!Killed
    BY <1>2 DEF Sync!Killed
<1>3. CASE Sync!VerifyAfter
    <2>1. /\ target \in DOMAIN Commits /\ "none" \notin DOMAIN Commits
          /\ snapshot = Sync!Selected(target) /\ manifest = snapshot
          /\ lock.commit = target /\ lock.count = Cardinality(manifest)
        BY KeptStateAssumption DEF SyncInv, Sync!SnapshotAssumption
    <2>2. lock # Sync!NoLock
        BY <2>1 DEF Sync!NoLock
    <2>3. lock.manifest = manifest
        BY <2>1, <2>2 DEF SyncInv
    <2>4. Required \subseteq Sync!PathsOf(snapshot)
        BY <2>1, SelectedIsListed
    <2>5. Sync!Verified
        BY <2>1, <2>2, <2>3, <2>4, SyncCardinality DEF Sync!Verified
    <2> QED
        BY <1>3, <2>5 DEF Sync!VerifyAfter
<1> QED
    BY <1>1, <1>2, <1>3

(***************************************************************************)
(* Whatever was killed half-way or edited before, a write of a commit with *)
(* every required file that is not killed itself ends with a snapshot that *)
(* verifies (sync_data_contracts_specs.sh).                                *)
(***************************************************************************)
THEOREM WholeWritesVerify == Spec => WritesVerify
<1>1. SyncPart /\ [Next]_vars => [part = "sync" => Sync!WriteVerifies]_vars
    <2> SUFFICES ASSUME SyncPart, Next, part = "sync" PROVE Sync!WriteVerifies
        OBVIOUS
    <2>1. SyncInv /\ Sync!Next
        BY DEF SyncPart, Next
    <2> QED
        BY <2>1, SyncStepVerifies
<1> QED
    BY <1>1, SyncInvariant, PTL DEF Spec, WritesVerify


-----------------------------------------------------------------------------
(* The parity command.                                                     *)

(***************************************************************************)
(* The Python report is what the cases come to, the other one may lack the *)
(* first case or have no outcome for it.  Parity that passes compared the  *)
(* reports of all implementations with what the cases expect.              *)
(***************************************************************************)
PhpReportOf(whole) == {whole, Tail(whole), [whole EXCEPT ![1].outcome = Parity!NoOutcome]}
Kind == {"crash", "shape", "absent", "differs", "unexpected", "missing", "mismatch"}
KnownErrors(errs) == \A e \in errs : e.kind \in Kind

PhpReported == reports["php"] \in PhpReportOf(Parity!RunCases("php"))

ParityInv ==
    /\ cases \in Seq(CaseDefs) /\ Len(cases) >= 1 /\ only \in BOOLEAN
    /\ pc \in {"python", "php", "check", "ended"}
    /\ exit \in {"none", "0", "1", "raised"} /\ (pc # "ended" => exit = "none")
    /\ DOMAIN reports = Parity!Impls
    /\ reports["python"] \in {Parity!NoReport, Parity!RunCases("python")}
    /\ reports["php"] = Parity!NoReport \/ PhpReported
    /\ pc \in {"php", "check"} => reports["python"] = Parity!RunCases("python")
    /\ pc = "check" => only \/ PhpReported
    /\ KnownErrors(errors)
    /\ exit = "1" => errors # {} /\ artifact = Parity!Artifact(errors)
    /\ exit = "0" => /\ Parity!Loadable
                     /\ reports["python"] = Parity!RunCases("python") /\ Parity!CompareWithExpected("python") = {}
                     /\ only \/ (PhpReported /\ Parity!CompareWithExpected("php") = {})
ParityPart == part = "parity" => ParityInv

(***************************************************************************)
(* A report tells of its cases in order, from the first or the second on.  *)
(***************************************************************************)
TellsFrom(r, impl, d) ==
    \A k \in 1 .. Len(r) :
        /\ k + d \in 1 .. Len(cases) /\ r[k].id = cases[k + d].id
        /\ r[k].outcome \in {Parity!ResultOf(cases[k + d], impl).outcome, Parity!NoOutcome}

LEMMA WholeReport ==
    ASSUME ParityInv, NEW impl
    PROVE  /\ Len(Parity!RunCases(impl)) = Len(cases)
           /\ Parity!RunCases(impl) \in Seq([id : {cases[i].id : i \in 1 .. Len(cases)},
                                            outcome : {Parity!ResultOf(cases[i], impl).outcome : i \in 1 .. Len(cases)}])
           /\ \A k \in 1 .. Len(cases) :
                /\ Parity!RunCases(impl)[k].id = cases[k].id
                /\ Parity!RunCases(impl)[k].outcome = Parity!ResultOf(cases[k], impl).outcome
<1> DEFINE whole == Parity!RunCases(impl)
           T == [id : {cases[i].id : i \in 1 .. Len(cases)},
                 outcome : {Parity!ResultOf(cases[i], impl).outcome : i \in 1 .. Len(cases)}]
<1>1. PICK n \in Nat : n = Len(cases)
    BY DEF ParityInv
<1>2. whole = [k \in 1 .. n |-> Parity!ResultOf(cases[k], impl)]
    BY <1>1 DEF Parity!RunCases
<1>3. \A k \in 1 .. n : Parity!ResultOf(cases[k], impl).id = cases[k].id
    BY DEF Parity!ResultOf
<1>4. \A k \in 1 .. n : Parity!ResultOf(cases[k], impl) \in T
    BY <1>1 DEF Parity!ResultOf
<1> HIDE DEF whole, T
<1>5. whole \in [1 .. n -> T]
    BY <1>2, <1>4
<1>6. whole \in Seq(T) /\ Len(whole) = n
    BY <1>5
<1> QED
    BY <1>1, <1>2, <1>3, <1>6 DEF whole, T

LEMMA ReportsTell ==
    ASSUME ParityInv, NEW impl, NEW r \in PhpReportOf(Parity!RunCases(impl))
    PROVE  \E d \in {0, 1} : TellsFrom(r, impl, d)
<1> DEFINE whole == Parity!RunCases(impl)
           T == [id : {cases[i].id : i \in 1 .. Len(cases)},
                 outcome : {Parity!ResultOf(cases[i], impl).outcome : i \in 1 .. Len(cases)}]
<1>1. PICK n \in Nat : n = Len(cases) /\ n >= 1
    BY DEF ParityInv
<1>2. /\ Len(whole) = n /\ whole \in Seq(T)
      /\ \A k \in 1 .. n : /\ whole[k].id = cases[k].id
                           /\ whole[k].outcome = Parity!ResultOf(cases[k], impl).outcome
    BY <1>1, WholeReport
<1>3. \A k \in 1 .. n : whole[k] \in T
    <2> HIDE DEF whole, T
    <2>1. whole \in Seq(T) /\ Len(whole) = n
        BY <1>2
    <2> QED
        BY <2>1
<1>4. \A x \in T : /\ [x EXCEPT !.outcome = Parity!NoOutcome].id = x.id
                   /\ [x EXCEPT !.outcome = Parity!NoOutcome].outcome = Parity!NoOutcome
    OBVIOUS
<1> HIDE DEF whole, T
<1>5. CASE r = whole
    BY <1>1, <1>2, <1>5 DEF TellsFrom
<1>6. CASE r = Tail(whole)
    <2>1. Len(r) = n - 1 /\ \A k \in 1 .. n - 1 : r[k] = whole[k + 1] /\ k + 1 \in 1 .. n
        BY <1>1, <1>2, <1>6
    <2> QED
        BY <1>1, <1>2, <2>1 DEF TellsFrom
<1>7. CASE r = [whole EXCEPT ![1].outcome = Parity!NoOutcome]
    <2>1. r = [whole EXCEPT ![1] = [whole[1] EXCEPT !.outcome = Parity!NoOutcome]]
        BY <1>7
    <2>2. Len(r) = n /\ r[1] = [whole[1] EXCEPT !.outcome = Parity!NoOutcome]
          /\ \A k \in 1 .. n : k # 1 => r[k] = whole[k]
        <3> DEFINE v == [whole[1] EXCEPT !.outcome = Parity!NoOutcome]
        <3>1. r = [whole EXCEPT ![1] = v]
            BY <2>1
        <3> HIDE DEF v
        <3>2. Len(r) = n /\ r[1] = v /\ \A k \in 1 .. n : k # 1 => r[k] = whole[k]
            <4>1. DOMAIN whole = 1 .. n
                BY <1>2
            <4>2. DOMAIN r = 1 .. n /\ r[1] = v /\ \A k \in 1 .. n : k # 1 => r[k] = whole[k]
                BY <1>1, <3>1, <4>1
            <4>3. r = [k \in 1 .. n |-> IF k = 1 THEN v ELSE whole[k]]
                BY <3>1, <4>1
            <4>4. Len(r) = n
                BY <4>3
            <4> QED
                BY <4>2, <4>4
        <3> QED
            BY <3>2 DEF v
    <2>3. whole[1] \in T
        BY <1>1, <1>3
    <2>4. r[1].id = cases[1].id /\ r[1].outcome = Parity!NoOutcome
        BY <1>1, <1>2, <1>4, <2>2, <2>3
    <2>5. \A k \in 1 .. n : /\ r[k].id = cases[k].id
                            /\ r[k].outcome \in {Parity!ResultOf(cases[k], impl).outcome, Parity!NoOutcome}
        BY <1>2, <2>2, <2>4
    <2>6. TellsFrom(r, impl, 0)
        BY <1>1, <2>2, <2>5 DEF TellsFrom
    <2> QED
        BY <2>6
<1> QED
    BY <1>5, <1>6, <1>7 DEF PhpReportOf, whole


(***************************************************************************)
(* What is compared for a case with an id of its own is what the case came *)
(* to, as that case expects it.                                            *)
(***************************************************************************)
LEMMA LastOfOwnId ==
    ASSUME NEW i \in 1 .. Len(cases), \A j \in 1 .. Len(cases) : cases[j].id = cases[i].id => j = i,
           Len(cases) \in Nat
    PROVE  Parity!LastOf(cases[i].id) = cases[i]
<1> DEFINE P(x) == x \in 1 .. Len(cases) /\ cases[x].id = cases[i].id
                   /\ \A j \in x + 1 .. Len(cases) : cases[j].id # cases[i].id
<1>1. \A j \in i + 1 .. Len(cases) : j \in 1 .. Len(cases) /\ j # i
    OBVIOUS
<1>2. P(i)
    BY <1>1
<1>3. \A x : P(x) => x = i
    OBVIOUS
<1>4. (CHOOSE x : P(x)) = i
    BY <1>2, <1>3
<1> QED
    BY <1>4 DEF Parity!LastOf

LEMMA GotOfOwnId ==
    ASSUME NEW i \in 1 .. Len(cases), \A j \in 1 .. Len(cases) : cases[j].id = cases[i].id => j = i,
           NEW impl, NEW d \in {0, 1}, TellsFrom(reports[impl], impl, d), Len(reports[impl]) \in Nat,
           cases[i].id \in Parity!Reported(impl)
    PROVE  Parity!Got(impl, cases[i].id) \in {Parity!ResultOf(cases[i], impl).outcome, Parity!NoOutcome}
<1> DEFINE r == reports[impl]
           P(x) == x \in 1 .. Len(r) /\ r[x].id = cases[i].id
                   /\ \A j \in x + 1 .. Len(r) : r[j].id # cases[i].id
<1>1. PICK k \in 1 .. Len(r) : r[k].id = cases[i].id
    BY DEF Parity!Reported
<1>2. \A x \in 1 .. Len(r) : r[x].id = cases[i].id => x + d = i
    BY DEF TellsFrom
<1>3. \A x \in 1 .. Len(r) : r[x].id = cases[i].id => x = k
    BY <1>1, <1>2
<1>4. \A j \in k + 1 .. Len(r) : j \in 1 .. Len(r) /\ j # k
    BY <1>1
<1>5. P(k)
    BY <1>1, <1>3, <1>4
<1>6. \A x : P(x) => x = k
    BY <1>3
<1>7. (CHOOSE x : P(x)) = k
    BY <1>5, <1>6
<1>8. r[k].outcome \in {Parity!ResultOf(cases[i], impl).outcome, Parity!NoOutcome}
    BY <1>1, <1>2 DEF TellsFrom
<1>9. Parity!Got(impl, cases[i].id) = r[k].outcome
    BY <1>7 DEF Parity!Got
<1> QED
    BY <1>8, <1>9

LEMMA NothingToReport ==
    ASSUME NEW impl, Parity!CompareWithExpected(impl) = {}, NEW id \in Parity!Ids
    PROVE  id \in Parity!Reported(impl) /\ Parity!Got(impl, id) = Parity!Expected(Parity!LastOf(id), impl)
<1>1. \A x \in Parity!Ids \ Parity!Reported(impl) :
            Parity!Error("absent", impl, x) \in Parity!CompareWithExpected(impl)
    BY DEF Parity!CompareWithExpected
<1>2. id \in Parity!Reported(impl)
    BY <1>1
<1>3. \A x \in Parity!Ids \cap Parity!Reported(impl) :
            Parity!Got(impl, x) # Parity!Expected(Parity!LastOf(x), impl)
                => Parity!Error("differs", impl, x) \in Parity!CompareWithExpected(impl)
    BY DEF Parity!CompareWithExpected
<1> QED
    BY <1>2, <1>3

LEMMA CameAsExpected ==
    ASSUME NEW i \in 1 .. Len(cases), \A j \in 1 .. Len(cases) : cases[j].id = cases[i].id => j = i,
           Len(cases) \in Nat, Parity!Loadable,
           NEW impl, NEW d \in {0, 1}, TellsFrom(reports[impl], impl, d), Len(reports[impl]) \in Nat,
           Parity!CompareWithExpected(impl) = {}
    PROVE  Parity!ResultOf(cases[i], impl).outcome = Parity!Expected(cases[i], impl)
<1>1. cases[i].id \in Parity!Ids
    BY DEF Parity!Ids
<1>2. /\ cases[i].id \in Parity!Reported(impl)
      /\ Parity!Got(impl, cases[i].id) = Parity!Expected(Parity!LastOf(cases[i].id), impl)
    BY <1>1, NothingToReport
<1>3. Parity!LastOf(cases[i].id) = cases[i]
    BY LastOfOwnId
<1>4. Parity!Got(impl, cases[i].id) \in {Parity!ResultOf(cases[i], impl).outcome, Parity!NoOutcome}
    BY <1>2, GotOfOwnId
<1>5. Parity!Expected(cases[i], impl) # Parity!NoOutcome
    BY DEF Parity!Expected, Parity!Loadable
<1> QED
    BY <1>2, <1>3, <1>4, <1>5

LEMMA CapableOrNotPassed ==
    ASSUME NEW case, NEW impl, Parity!ResultOf(case, impl).outcome.status = "pass"
    PROVE  case.requires = "well" => case.needs \subseteq Parity!Has[impl]
<1>1. Parity!RequiresOutcome(case, impl) # Parity!NoOutcome
        => Parity!RequiresOutcome(case, impl).status \in {"skip", "fail"}
    BY DEF Parity!RequiresOutcome, Parity!Skip, Parity!Fail
<1>2. Parity!RequiresOutcome(case, impl) = Parity!NoOutcome
    BY <1>1 DEF Parity!ResultOf
<1>3. Parity!NoOutcome.status = "none"
    BY DEF Parity!NoOutcome, Parity!None
<1> QED
    BY <1>2, <1>3 DEF Parity!RequiresOutcome, Parity!Skip, Parity!Fail, Parity!None


LEMMA ParityStarts ==
    ASSUME Parity!Init
    PROVE  ParityInv
<1>1. PICK n \in 1 .. MaxCases : cases \in [1 .. n -> CaseDefs]
    BY DEF Parity!Init
<1>2. MaxCases \in Nat
    BY KeptStateAssumption DEF Parity!ConformanceAssumption
<1>3. cases \in Seq(CaseDefs) /\ Len(cases) >= 1
    BY <1>1, <1>2
<1>4. DOMAIN reports = Parity!Impls /\ reports["python"] = Parity!NoReport /\ reports["php"] = Parity!NoReport
    BY DEF Parity!Init, Parity!Impls
<1> QED
    BY <1>3, <1>4 DEF Parity!Init, ParityInv, KnownErrors

(* The command ends on errors of its kinds, or finds none.                 *)
LEMMA ErrorsAreKnown ==
    ASSUME NEW impl, NEW id, NEW kind \in Kind
    PROVE  Parity!Error(kind, impl, id).kind \in Kind
    BY DEF Parity!Error

LEMMA ComparedErrorsAreKnown ==
    /\ \A impl : KnownErrors(Parity!CompareWithExpected(impl))
    /\ KnownErrors(Parity!CompareParity)
    BY DEF KnownErrors, Parity!CompareWithExpected, Parity!CompareParity, Parity!Error, Kind

LEMMA ArtifactHasAll ==
    ASSUME NEW errs, KnownErrors(errs)
    PROVE  LET a == Parity!Artifact(errs) IN a.missing \cup a.mismatch \cup a.shape = errs
<1> DEFINE a == Parity!Artifact(errs)
<1>1. /\ a.missing = {e \in errs : e.kind = "missing"}
      /\ a.mismatch = {e \in errs : e.kind \in {"absent", "differs", "unexpected", "mismatch"}}
      /\ a.shape = {e \in errs : e.kind \in {"shape", "crash"}}
    BY DEF Parity!Artifact
<1> HIDE DEF a
<1>2. \A e \in errs : e.kind \in Kind
    BY DEF KnownErrors
<1>3. \A e : e \in a.missing \cup a.mismatch \cup a.shape <=> e \in errs
    BY <1>1, <1>2 DEF Kind
<1> QED
    BY <1>3 DEF a

LEMMA ParityReports ==
    ASSUME ParityInv, Parity!PythonReports \/ Parity!PhpReports
    PROVE  ParityInv'
<1>1. UNCHANGED <<cases, only, errors, artifact, exit>>
    BY DEF Parity!PythonReports, Parity!PhpReports
<1>2. /\ UNCHANGED <<Parity!RunCases("python"), Parity!RunCases("php"), Parity!NoReport>>
      /\ PhpReportOf(Parity!RunCases("php"))' = PhpReportOf(Parity!RunCases("php"))
    BY <1>1 DEF Parity!RunCases, PhpReportOf, Parity!NoReport
<1>3. "python" \in Parity!Impls /\ "php" \in Parity!Impls /\ DOMAIN reports = Parity!Impls
    BY DEF ParityInv, Parity!Impls
<1>4. CASE Parity!PythonReports
    <2>1. /\ pc = "python" /\ pc' = IF only THEN "check" ELSE "php"
          /\ reports' = [reports EXCEPT !["python"] = Parity!RunCases("python")]
        BY <1>4 DEF Parity!PythonReports
    <2>2. /\ reports'["python"] = Parity!RunCases("python") /\ reports'["php"] = reports["php"]
          /\ DOMAIN reports' = Parity!Impls
        BY <1>3, <2>1
    <2>3. PhpReported' <=> PhpReported
        BY <1>2, <2>2 DEF PhpReported
    <2> QED
        BY <1>1, <1>2, <2>1, <2>2, <2>3 DEF ParityInv
<1>5. CASE Parity!PhpReports
    <2>1. PICK r \in PhpReportOf(Parity!RunCases("php")) : reports' = [reports EXCEPT !["php"] = r]
        BY <1>5 DEF Parity!PhpReports, PhpReportOf
    <2>2. /\ reports'["php"] = r /\ reports'["python"] = reports["python"] /\ DOMAIN reports' = Parity!Impls
        BY <1>3, <2>1
    <2>3. PhpReported' /\ pc = "php" /\ pc' = "check"
        BY <1>2, <1>5, <2>2 DEF PhpReported, Parity!PhpReports
    <2> QED
        BY <1>1, <1>2, <2>2, <2>3 DEF ParityInv
<1> QED
    BY <1>4, <1>5

LEMMA ParityConcludes ==
    ASSUME ParityInv, pc # "ended", UNCHANGED <<cases, only, reports>>,
           NEW errs, KnownErrors(errs), Parity!Conclude(errs),
           errs = {} => /\ Parity!Loadable
                        /\ reports["python"] = Parity!RunCases("python") /\ Parity!CompareWithExpected("python") = {}
                        /\ only \/ (PhpReported /\ Parity!CompareWithExpected("php") = {})
    PROVE  ParityInv'
<1>1. /\ UNCHANGED <<Parity!RunCases("python"), Parity!NoReport, Parity!Loadable>>
      /\ UNCHANGED <<Parity!CompareWithExpected("python"), Parity!CompareWithExpected("php"), PhpReported>>
    BY DEF Parity!RunCases, Parity!NoReport, Parity!Loadable, Parity!CompareWithExpected, Parity!Ids,
           Parity!Reported, Parity!Got, Parity!LastOf, PhpReported, PhpReportOf
<1>2. /\ errors' = errs /\ artifact' = Parity!Artifact(errs) /\ pc' = "ended"
      /\ exit' = IF errs = {} THEN "0" ELSE "1"
    BY DEF Parity!Conclude
<1>3. artifact' = Parity!Artifact(errors)'
    BY <1>2 DEF Parity!Artifact
<1>4. KnownErrors(errors)'
    BY <1>2 DEF KnownErrors
<1> QED
    BY <1>1, <1>2, <1>3, <1>4 DEF ParityInv

LEMMA ParityRaises ==
    ASSUME ParityInv, Parity!Raise, UNCHANGED <<cases, only, reports>>
    PROVE  ParityInv'
<1>1. UNCHANGED <<Parity!RunCases("python"), Parity!NoReport, PhpReported>>
    BY DEF Parity!RunCases, Parity!NoReport, PhpReported, PhpReportOf
<1>2. pc' = "ended" /\ exit' = "raised" /\ UNCHANGED errors
    BY DEF Parity!Raise
<1>3. KnownErrors(errors)'
    BY <1>2 DEF ParityInv, KnownErrors
<1> QED
    BY <1>1, <1>2, <1>3 DEF ParityInv

LEMMA ParityChecks ==
    ASSUME ParityInv, Parity!Check
    PROVE  ParityInv'
<1> DEFINE shape == {Parity!Error("shape", i, Parity!None) : i \in {x \in Parity!Impls :
                        reports[x] # Parity!NoReport /\ Parity!Malformed(x)}}
<1>1. pc = "check" /\ UNCHANGED <<cases, only, reports>>
    BY DEF Parity!Check
<1>2. reports["python"] = Parity!RunCases("python") /\ (only \/ PhpReported)
    BY <1>1 DEF ParityInv
<1>3. CASE shape # {} /\ ~only
    <2>1. Parity!Conclude(shape)
        BY <1>3 DEF Parity!Check
    <2>2. KnownErrors(shape)
        BY DEF KnownErrors, Parity!Error, Kind
    <2> HIDE DEF shape
    <2> QED
        BY <1>1, <1>3, <2>1, <2>2, ParityConcludes
<1>4. CASE ~(shape # {} /\ ~only) /\ ~Parity!Loadable
    <2>1. Parity!Raise
        BY <1>4 DEF Parity!Check
    <2> QED
        BY <1>1, <2>1, ParityRaises
<1>5. CASE ~(shape # {} /\ ~only) /\ Parity!Loadable /\ only
    <2>1. Parity!Conclude(Parity!CompareWithExpected("python"))
        BY <1>5 DEF Parity!Check
    <2> QED
        BY <1>1, <1>2, <1>5, <2>1, ParityConcludes, ComparedErrorsAreKnown
<1>6. CASE ~(shape # {} /\ ~only) /\ Parity!Loadable /\ ~only
    <2> DEFINE errs == Parity!CompareWithExpected("python") \cup Parity!CompareWithExpected("php")
                       \cup Parity!CompareParity
    <2>1. Parity!Conclude(errs)
        BY <1>6 DEF Parity!Check
    <2>2. KnownErrors(errs)
        BY ComparedErrorsAreKnown DEF KnownErrors
    <2>3. errs = {} => Parity!CompareWithExpected("python") = {} /\ Parity!CompareWithExpected("php") = {}
        OBVIOUS
    <2> HIDE DEF errs
    <2> QED
        BY <1>1, <1>2, <1>6, <2>1, <2>2, <2>3, ParityConcludes
<1> QED
    BY <1>3, <1>4, <1>5, <1>6

LEMMA ParityGoesOn == ParityPart /\ [Next]_vars => ParityPart'
<1> SUFFICES ASSUME ParityPart, [Next]_vars, part' = "parity" PROVE ParityInv'
    BY DEF ParityPart
<1>1. part = "parity" /\ ParityInv
    BY DEF ParityPart, Next, vars
<1>2. CASE UNCHANGED <<cases, only, reports, pc, errors, artifact, exit>>
    <2>1. /\ UNCHANGED <<Parity!RunCases("python"), Parity!NoReport, Parity!Loadable, PhpReported>>
          /\ UNCHANGED <<Parity!CompareWithExpected("python"), Parity!CompareWithExpected("php")>>
        BY <1>2 DEF Parity!RunCases, Parity!NoReport, Parity!Loadable, Parity!CompareWithExpected, Parity!Ids,
               Parity!Reported, Parity!Got, Parity!LastOf, PhpReported, PhpReportOf
    <2>2. UNCHANGED Parity!Artifact(errors) /\ (KnownErrors(errors) => KnownErrors(errors)')
        BY <1>2 DEF Parity!Artifact, KnownErrors
    <2> QED
        BY <1>1, <1>2, <2>1, <2>2 DEF ParityInv
<1>3. CASE Parity!Next
    <2>1. CASE \E impl \in Parity!Impls : Parity!RunnerFails(impl)
        <3>1. PICK impl \in Parity!Impls : Parity!RunnerFails(impl)
            BY <2>1
        <3> DEFINE errs == {Parity!Error("crash", impl, Parity!None)}
        <3>2. Parity!Conclude(errs) /\ pc = impl /\ UNCHANGED <<cases, only, reports>>
            BY <3>1 DEF Parity!RunnerFails
        <3>3. KnownErrors(errs) /\ errs # {}
            BY DEF KnownErrors, Parity!Error, Kind
        <3> HIDE DEF errs
        <3>4. pc # "ended"
            BY <3>2 DEF Parity!Impls
        <3> QED
            BY <1>1, <3>2, <3>3, <3>4, ParityConcludes
    <2>2. CASE Parity!PythonReports \/ Parity!PhpReports
        BY <1>1, <2>2, ParityReports
    <2>3. CASE Parity!PythonLoadFails
        BY <1>1, <2>3, ParityRaises DEF Parity!PythonLoadFails
    <2>4. CASE Parity!Check
        BY <1>1, <2>4, ParityChecks
    <2>5. CASE Parity!Ended
        BY <1>2, <2>5 DEF Parity!Ended, Parity!vars
    <2> QED
        BY <1>3, <2>1, <2>2, <2>3, <2>4, <2>5 DEF Parity!Next
<1>4. CASE UNCHANGED vars
    BY <1>2, <1>4 DEF vars, commandVars, parityVars
<1> QED
    BY <1>1, <1>3, <1>4 DEF Next

(***************************************************************************)
(* The invariant of the parity command.                                    *)
(***************************************************************************)
LEMMA ParityInvariant == Spec => []ParityPart
<1>1. Init => ParityPart
    BY ParityStarts DEF Init, ParityPart
<1> QED
    BY <1>1, ParityGoesOn, PTL DEF Spec

(* What a report may hold, for either implementation.                      *)
LEMMA EveryReportTells ==
    ASSUME ParityInv, NEW impl \in Parity!Impls,
           reports[impl] = Parity!RunCases(impl) \/ (impl = "php" /\ PhpReported)
    PROVE  Len(reports[impl]) \in Nat /\ \E d \in {0, 1} : TellsFrom(reports[impl], impl, d)
<1>1. reports[impl] \in PhpReportOf(Parity!RunCases(impl))
    BY DEF PhpReportOf, PhpReported
<1>2. Len(reports[impl]) \in Nat
    <2> DEFINE T == [id : {cases[i].id : i \in 1 .. Len(cases)},
                     outcome : {Parity!ResultOf(cases[i], impl).outcome : i \in 1 .. Len(cases)}]
               whole == Parity!RunCases(impl)
    <2>0. Len(cases) \in Nat /\ Len(cases) >= 1
        BY DEF ParityInv
    <2>1. whole \in Seq(T) /\ Len(whole) = Len(cases) /\ Len(cases) \in Nat /\ Len(cases) >= 1
        BY <2>0, WholeReport
    <2> HIDE DEF T, whole
    <2>2. PICK n \in Nat : n = Len(whole) /\ n >= 1 /\ DOMAIN whole = 1 .. n
        BY <2>1
    <2>3. Len(Tail(whole)) \in Nat
        BY <2>1, <2>2
    <2>4. Len([whole EXCEPT ![1].outcome = Parity!NoOutcome]) = n
        <3> DEFINE v == [whole[1] EXCEPT !.outcome = Parity!NoOutcome]
                   changed == [whole EXCEPT ![1].outcome = Parity!NoOutcome]
        <3>1. changed = [whole EXCEPT ![1] = v]
            OBVIOUS
        <3> HIDE DEF v, changed
        <3>2. changed = [k \in 1 .. n |-> IF k = 1 THEN v ELSE whole[k]]
            BY <2>2, <3>1
        <3>3. Len(changed) = n
            BY <3>2
        <3> QED
            BY <3>3 DEF changed
    <2> QED
        BY <1>1, <2>1, <2>3, <2>4 DEF PhpReportOf, whole
<1> QED
    BY <1>1, <1>2, ReportsTell


LEMMA ParityTypes ==
    ASSUME ParityInv
    PROVE  Parity!TypeOK
<1>1. PICK n \in Nat : n = Len(cases) /\ n >= 1 /\ DOMAIN cases = 1 .. n
    BY DEF ParityInv
<1>2. \A i \in 1 .. n : cases[i] \in CaseDefs
    BY <1>1 DEF ParityInv
<1>3. ASSUME NEW impl \in Parity!Impls, reports[impl] # Parity!NoReport
      PROVE  Parity!Reported(impl) \subseteq Parity!Ids
    <2>1. reports[impl] = Parity!RunCases(impl) \/ (impl = "php" /\ PhpReported)
        BY <1>3 DEF ParityInv, Parity!Impls
    <2>2. PICK d \in {0, 1} : TellsFrom(reports[impl], impl, d)
        BY <2>1, EveryReportTells
    <2>3. \A k \in 1 .. Len(reports[impl]) : reports[impl][k].id \in Parity!Ids
        BY <2>2 DEF TellsFrom, Parity!Ids
    <2> QED
        BY <2>3 DEF Parity!Reported
<1> QED
    BY <1>1, <1>2, <1>3 DEF Parity!TypeOK, ParityInv, KnownErrors, Kind

LEMMA ParityAgrees ==
    ASSUME ParityInv, exit = "0"
    PROVE  Parity!ParityMeansAgreement
<1>1. /\ Parity!Loadable /\ Len(cases) \in Nat
      /\ reports["python"] = Parity!RunCases("python") /\ Parity!CompareWithExpected("python") = {}
      /\ only \/ (PhpReported /\ Parity!CompareWithExpected("php") = {})
    BY DEF ParityInv
<1>2. ASSUME NEW i \in 1 .. Len(cases), \A j \in 1 .. Len(cases) : cases[j].id = cases[i].id => j = i,
             NEW impl \in (IF only THEN {"python"} ELSE Parity!Impls)
      PROVE  Parity!ResultOf(cases[i], impl).outcome = Parity!Expected(cases[i], impl)
    <2>1. /\ impl \in Parity!Impls /\ Parity!CompareWithExpected(impl) = {}
          /\ reports[impl] = Parity!RunCases(impl) \/ (impl = "php" /\ PhpReported)
        BY <1>1 DEF Parity!Impls
    <2>2. Len(reports[impl]) \in Nat /\ \E d \in {0, 1} : TellsFrom(reports[impl], impl, d)
        BY <2>1, EveryReportTells
    <2> QED
        BY <1>1, <1>2, <2>1, <2>2, CameAsExpected
<1>3. ASSUME NEW i \in 1 .. Len(cases), \A j \in 1 .. Len(cases) : cases[j].id = cases[i].id => j = i,
             ~only, Parity!ResultOf(cases[i], "python").outcome # Parity!ResultOf(cases[i], "php").outcome
      PROVE  \E impl \in Parity!Impls : cases[i].override[impl] # Parity!NoOutcome
    <2>1. Parity!Expected(cases[i], "python") # Parity!Expected(cases[i], "php")
        BY <1>2, <1>3 DEF Parity!Impls
    <2> QED
        BY <2>1 DEF Parity!Expected, Parity!Impls
<1> QED
    BY <1>2, <1>3 DEF Parity!ParityMeansAgreement, Parity!Expected

LEMMA PassesAreCapable ==
    ASSUME ParityInv
    PROVE  Parity!NoPassWithoutCapability
<1> SUFFICES ASSUME NEW impl \in Parity!Impls, reports[impl] # Parity!NoReport,
                    NEW k \in 1 .. Len(reports[impl]), reports[impl][k].outcome.status = "pass"
             PROVE  \E j \in 1 .. Len(cases) :
                        /\ cases[j].id = reports[impl][k].id
                        /\ cases[j].requires = "well" => cases[j].needs \subseteq Parity!Has[impl]
    BY DEF Parity!NoPassWithoutCapability
<1>1. reports[impl] = Parity!RunCases(impl) \/ (impl = "php" /\ PhpReported)
    BY DEF ParityInv, Parity!Impls
<1>2. PICK d \in {0, 1} : TellsFrom(reports[impl], impl, d)
    BY <1>1, EveryReportTells
<1>3. Parity!NoOutcome.status = "none"
    BY DEF Parity!NoOutcome, Parity!None
<1>4. /\ k + d \in 1 .. Len(cases) /\ reports[impl][k].id = cases[k + d].id
      /\ Parity!ResultOf(cases[k + d], impl).outcome.status = "pass"
    BY <1>2, <1>3 DEF TellsFrom
<1> QED
    BY <1>4, CapableOrNotPassed

(***************************************************************************)
(* Whatever the cases of the tree and their number: when the parity        *)
(* command passes, every case came to what its implementation is expected  *)
(* to come to and differs only where that was declared, nothing passes     *)
(* where its capability is missing, and every failure is in the artefact   *)
(* (run_parity_check).                                                     *)
(***************************************************************************)
THEOREM ParityThatPassesAgrees == Spec => []ParityMeansAgreement
<1>1. ParityInv => /\ Parity!TypeOK /\ Parity!ParityMeansAgreement
                   /\ Parity!NoPassWithoutCapability /\ Parity!FailuresAreInTheArtifact
    <2> SUFFICES ASSUME ParityInv
                 PROVE  /\ Parity!TypeOK /\ Parity!ParityMeansAgreement
                        /\ Parity!NoPassWithoutCapability /\ Parity!FailuresAreInTheArtifact
        OBVIOUS
    <2>1. Parity!ParityMeansAgreement
        BY ParityAgrees DEF Parity!ParityMeansAgreement
    <2>2. Parity!FailuresAreInTheArtifact
        BY ArtifactHasAll DEF ParityInv, Parity!FailuresAreInTheArtifact
    <2> QED
        BY <2>1, <2>2, ParityTypes, PassesAreCapable
<1>2. ParityPart => ParityMeansAgreement
    BY <1>1 DEF ParityPart, ParityMeansAgreement
<1> QED
    BY <1>2, ParityInvariant, PTL


-----------------------------------------------------------------------------
(* The commands that run other commands.                                   *)

(***************************************************************************)
(* The first failure is the first row that did not pass; under fail-fast   *)
(* all rows after it are skipped for it.                                   *)
(***************************************************************************)
RowsTell(rs, first, fast) ==
    /\ rs \in Seq(Gate!Row) /\ Len(rs) <= Steps /\ first \in 0 .. Len(rs)
    /\ first # 0 => rs[first].code # 0 /\ rs[first].status = "fail"
    /\ \A i \in 1 .. Len(rs) : first = 0 \/ i < first => rs[i].code = 0 /\ rs[i].status = "pass"
    /\ \A i \in 1 .. Len(rs) : first # 0 /\ i > first =>
            IF fast THEN rs[i].status = "skipped" /\ rs[i].by = first ELSE rs[i].status # "skipped"

(***************************************************************************)
(* The files: of runs that were made, a page no newer than its trace, a    *)
(* trace no newer than its summary.                                        *)
(***************************************************************************)
FilesOK(files, n) ==
    /\ DOMAIN files = Gate!ReportFiles
    /\ \A f \in Gate!ReportFiles : files[f].run \in 0 .. n
    /\ files["page"].run <= files["trace"].run /\ files["trace"].run <= files["summary"].run

ThisRun(status) == [run |-> runs, status |-> status]

GateOver ==
    /\ Len(rows) = Steps
    /\ exit = Gate!Code(IF firstFailure = 0 THEN 0 ELSE rows[firstFailure].code)
    /\ disk["summary"] = ThisRun(IF firstFailure = 0 THEN "pass" ELSE "fail")
PerfOver ==
    \/ disk["perf"].run = runs /\ (exit = Gate!Code(0) <=> disk["perf"].status # "fail")
    \/ exit # Gate!Code(0) /\ \E t \in Timings : disk[t].run < runs \/ disk[t].status = "fail"
FreshnessOver ==
    /\ disk["freshness"] = ThisRun(IF problem THEN "fail" ELSE "pass")
    /\ exit = Gate!Code(IF problem /\ cmd.strict THEN 1 ELSE 0)
NamesOf(p) == CASE p \in {"steps", "trace", "page"} -> {"gate"}
                [] p = "perf" -> {"perf"}
                [] p \in {"fresh", "docs"} -> {"freshness"}
                [] p = "report" -> {"perf", "freshness"}
                [] OTHER -> {"gate", "perf", "freshness"}
ExitCodeOK == exit \in {Gate!Code(c) : c \in Codes \cup {1}} \cup {Gate!Raised, Gate!KilledExit, Gate!NoExit}

GateInv ==
    /\ runs \in 0 .. MaxRuns /\ cmd \in Gate!Commands /\ problem \in BOOLEAN
    /\ pc \in {"idle", "steps", "trace", "page", "perf", "fresh", "docs", "report", "ended"}
    /\ cmd.name \in NamesOf(pc)
    /\ IF cmd.name = "gate" THEN RowsTell(rows, firstFailure, Gate!FailFast)
                            ELSE rows = << >> /\ firstFailure = 0
    /\ FilesOK(disk, runs)
    /\ ExitCodeOK /\ (pc \notin {"trace", "page", "ended"} => exit = Gate!NoExit)
    /\ pc \in {"trace", "page"} \/ (Gate!Ended /\ cmd.name = "gate") => GateOver
    /\ pc = "page" => disk["trace"].run = runs
    /\ Gate!Ended /\ cmd.name = "gate" /\ firstFailure # 0 /\ cmd.profile # "off" =>
            disk["trace"].run = runs /\ disk["page"].run = runs
    /\ pc = "perf" => \A t \in Timings : disk[t].run = runs => disk[t] = ThisRun("pass")
    /\ pc = "report" /\ cmd.name = "perf" =>
            cmd.compareOnly \/ \A t \in Timings : disk[t] = ThisRun("pass")
    /\ Gate!Ended /\ cmd.name = "perf" => PerfOver
    /\ Gate!Ended /\ cmd.name = "freshness" => FreshnessOver
GatePart == part = "gate" => GateInv


LEMMA CodeFacts ==
    /\ \A c : Gate!Code(c)[1] = "exit" /\ Gate!Code(c)[2] = c
    /\ Gate!Raised[1] = "raised" /\ Gate!KilledExit[1] = "killed" /\ Gate!NoExit[1] = "none"
    BY DEF Gate!Code, Gate!Raised, Gate!KilledExit, Gate!NoExit

LEMMA GateBounds ==
    /\ Steps \in Nat /\ Steps >= 1 /\ MaxRuns \in Nat /\ Codes \subseteq Int /\ 0 \in Codes
    /\ Timings \cap {"summary", "trace", "page", "perf", "freshness"} = {}
    BY KeptStateAssumption DEF Gate!GateAssumption

LEMMA CommandNames ==
    ASSUME NEW c \in Gate!Commands
    PROVE  c.name \in {"gate", "perf", "freshness"}
    BY DEF Gate!Commands

LEMMA GateStarts ==
    ASSUME Gate!Init
    PROVE  GateInv
<1>1. /\ runs = 0 /\ cmd \in Gate!Commands /\ cmd.name = "freshness" /\ pc = "idle" /\ rows = << >>
      /\ firstFailure = 0 /\ problem = FALSE /\ exit = Gate!NoExit
      /\ disk = [f \in Gate!ReportFiles |-> [run |-> 0, status |-> "none"]]
    BY DEF Gate!Init
<1>2. FilesOK(disk, 0)
    BY <1>1 DEF FilesOK, Gate!ReportFiles
<1>3. ~Gate!Ended
    BY <1>1 DEF Gate!Ended
<1>4. runs \in 0 .. MaxRuns /\ FilesOK(disk, runs)
    BY <1>1, <1>2, GateBounds
<1>5. "freshness" \in NamesOf("idle")
    BY DEF NamesOf
<1> QED
    BY <1>1, <1>3, <1>4, <1>5 DEF GateInv, ExitCodeOK

(***************************************************************************)
(* One more row.                                                           *)
(***************************************************************************)
LEMMA RowAppended ==
    ASSUME NEW rs \in Seq(Gate!Row), NEW row \in Gate!Row
    PROVE  /\ Append(rs, row) \in Seq(Gate!Row) /\ Len(Append(rs, row)) = Len(rs) + 1
           /\ Append(rs, row)[Len(rs) + 1] = row
           /\ \A i \in 1 .. Len(rs) : Append(rs, row)[i] = rs[i]
    OBVIOUS

LEMMA OneMoreRow ==
    ASSUME NEW rs, NEW first, NEW fast, RowsTell(rs, first, fast), Len(rs) < Steps,
           NEW row \in Gate!Row, NEW next,
           \/ /\ fast /\ first # 0 /\ next = first
              /\ row.status = "skipped" /\ row.by = first
           \/ /\ ~(fast /\ first # 0) /\ row.status = Gate!StepStatus(row.code)
              /\ next = IF row.code # 0 /\ first = 0 THEN Len(rs) + 1 ELSE first
    PROVE  RowsTell(Append(rs, row), next, fast)
<1> DEFINE new == Append(rs, row)
<1>1. PICK n \in Nat : n = Len(rs) /\ n < Steps /\ Steps \in Nat /\ rs \in Seq(Gate!Row) /\ first \in 0 .. n
    BY GateBounds DEF RowsTell
<1>2. new \in Seq(Gate!Row) /\ Len(new) = n + 1 /\ new[n + 1] = row /\ \A i \in 1 .. n : new[i] = rs[i]
    BY <1>1, RowAppended
<1> HIDE DEF new
<1>3. \A i \in 1 .. n + 1 : i \in 1 .. n \/ i = n + 1
    BY <1>1
<1>4. ~(fast /\ first # 0) => row.status = IF row.code = 0 THEN "pass" ELSE "fail"
    BY DEF Gate!StepStatus
<1> QED
    BY <1>1, <1>2, <1>3, <1>4 DEF RowsTell


(***************************************************************************)
(* A step of the gate that leaves it among its steps.                      *)
(***************************************************************************)
LEMMA GateStepsKeep ==
    ASSUME GateInv, Gate!SkipStep \/ Gate!RunStep
    PROVE  GateInv'
<1>1. /\ pc = "steps" /\ cmd.name = "gate" /\ exit = Gate!NoExit /\ Len(rows) < Steps
      /\ RowsTell(rows, firstFailure, Gate!FailFast)
    BY DEF GateInv, NamesOf, Gate!SkipStep, Gate!RunStep
<1>2. UNCHANGED <<runs, cmd, pc, problem, exit, disk>>
    BY DEF Gate!SkipStep, Gate!RunStep
<1>3. firstFailure \in 0 .. Steps /\ 0 \in Codes /\ 0 \in 0 .. Steps /\ Len(rows) \in Nat
    BY <1>1, GateBounds DEF RowsTell
<1>4. RowsTell(rows', firstFailure', Gate!FailFast)
    <2>1. CASE Gate!SkipStep
        <3> DEFINE row == [status |-> "skipped", code |-> 0, by |-> firstFailure]
        <3>1. /\ rows' = Append(rows, row) /\ firstFailure' = firstFailure
              /\ Gate!FailFast /\ firstFailure # 0
            BY <2>1 DEF Gate!SkipStep, Gate!Aborted
        <3>2. row \in Gate!Row /\ row.status = "skipped" /\ row.by = firstFailure
            BY <1>3 DEF Gate!Row
        <3> HIDE DEF row
        <3> QED
            BY <1>1, <3>1, <3>2, OneMoreRow
    <2>2. CASE Gate!RunStep
        <3>1. PICK code \in Codes :
                /\ rows' = Append(rows, [status |-> Gate!StepStatus(code), code |-> code, by |-> 0])
                /\ firstFailure' = Gate!FirstFailure(code)
            BY <2>2 DEF Gate!RunStep
        <3> DEFINE row == [status |-> Gate!StepStatus(code), code |-> code, by |-> 0]
        <3>2. row \in Gate!Row /\ row.status = Gate!StepStatus(row.code) /\ row.code = code
            BY <1>3 DEF Gate!Row, Gate!StepStatus
        <3>3. ~(Gate!FailFast /\ firstFailure # 0)
            BY <2>2 DEF Gate!RunStep, Gate!Aborted
        <3>4. /\ rows' = Append(rows, row)
              /\ firstFailure' = IF row.code # 0 /\ firstFailure = 0 THEN Len(rows) + 1 ELSE firstFailure
            BY <3>1, <3>2 DEF Gate!FirstFailure
        <3> HIDE DEF row
        <3> QED
            BY <1>1, <3>2, <3>3, <3>4, OneMoreRow
    <2> QED
        BY <2>1, <2>2
<1>5. RowsTell(rows, firstFailure, Gate!FailFast)'
    BY <1>2, <1>4 DEF Gate!FailFast, RowsTell
<1>6. FilesOK(disk, runs)' /\ ExitCodeOK' /\ ~Gate!Ended'
    BY <1>1, <1>2 DEF GateInv, FilesOK, ExitCodeOK, Gate!Ended
<1>7. /\ (runs \in 0 .. MaxRuns /\ cmd \in Gate!Commands /\ problem \in BOOLEAN)'
      /\ (cmd.name \in NamesOf(pc))'
    BY <1>2 DEF GateInv
<1> QED
    BY <1>1, <1>2, <1>5, <1>6, <1>7 DEF GateInv

(* A command that is killed or raises left nothing to be read.             *)
LEMMA BreaksKeepGate ==
    ASSUME GateInv, Gate!StepRaises \/ Gate!PerfUnreadable \/ Gate!Killed
    PROVE  GateInv'
<1>1. /\ UNCHANGED <<runs, cmd, rows, firstFailure, problem, disk>>
      /\ pc' = "ended" /\ exit' \in {Gate!Raised, Gate!KilledExit}
    BY DEF Gate!StepRaises, Gate!PerfUnreadable, Gate!Killed
<1>2. ~Gate!Ended'
    BY <1>1, CodeFacts DEF Gate!Ended
<1>3. RowsTell(rows, firstFailure, Gate!FailFast)' <=> RowsTell(rows, firstFailure, Gate!FailFast)
    BY <1>1 DEF RowsTell, Gate!FailFast
<1>4. FilesOK(disk, runs)' /\ ExitCodeOK'
    BY <1>1 DEF GateInv, FilesOK, ExitCodeOK
<1>5. cmd'.name \in NamesOf("ended") /\ cmd.name \in {"gate", "perf", "freshness"}
    BY <1>1, CommandNames DEF GateInv, NamesOf
<1> QED
    BY <1>1, <1>2, <1>3, <1>4, <1>5 DEF GateInv

LEMMA StartKeepsGate ==
    ASSUME GateInv, NEW c \in Gate!Commands, Gate!Start(c)
    PROVE  GateInv'
<1>1. /\ runs < MaxRuns /\ runs' = runs + 1 /\ cmd' = c /\ pc' = Gate!Entry[c.name]
      /\ rows' = << >> /\ firstFailure' = 0 /\ problem' = FALSE /\ exit' = Gate!NoExit /\ UNCHANGED disk
    BY DEF Gate!Start
<1>2. runs \in 0 .. MaxRuns /\ FilesOK(disk, runs)
    BY DEF GateInv
<1>3. \/ c.name = "gate" /\ pc' = "steps"
      \/ c.name = "perf" /\ pc' = "perf"
      \/ c.name = "freshness" /\ pc' = "fresh"
    BY <1>1, CommandNames DEF Gate!Entry
<1>4. c.name \in NamesOf(pc')
    BY <1>3 DEF NamesOf
<1>5. RowsTell(rows, firstFailure, Gate!FailFast)'
    <2>1. \A fast : RowsTell(<< >>, 0, fast)
        BY GateBounds DEF RowsTell
    <2> QED
        BY <1>1, <2>1
<1>6. FilesOK(disk, runs)' /\ runs' \in 0 .. MaxRuns
    BY <1>1, <1>2, GateBounds DEF FilesOK
<1>7. \A t \in Timings : disk'[t].run # runs'
    <2>1. \A t \in Timings : disk[t].run \in 0 .. runs
        BY <1>2 DEF FilesOK, Gate!ReportFiles
    <2> QED
        BY <1>1, <1>2, <2>1
<1>8. ~Gate!Ended' /\ ExitCodeOK'
    BY <1>1, <1>3 DEF Gate!Ended, ExitCodeOK
<1> QED
    BY <1>1, <1>3, <1>4, <1>5, <1>6, <1>7, <1>8 DEF GateInv


(***************************************************************************)
(* The first row that did not pass decides.                                *)
(***************************************************************************)
LEMMA FirstFailureDecides ==
    ASSUME RowsTell(rows, firstFailure, Gate!FailFast)
    PROVE  /\ Gate!Verdict <=> firstFailure = 0
           /\ firstFailure # 0 => Gate!FirstCode = rows[firstFailure].code /\ Gate!FirstCode # 0
<1> DEFINE failed == {i \in 1 .. Len(rows) : rows[i].code # 0}
<1>1. /\ Len(rows) \in Nat /\ firstFailure \in 0 .. Len(rows)
      /\ firstFailure # 0 => rows[firstFailure].code # 0 /\ rows[firstFailure].status = "fail"
      /\ \A i \in 1 .. Len(rows) : firstFailure = 0 \/ i < firstFailure => rows[i].code = 0 /\ rows[i].status = "pass"
    BY DEF RowsTell
<1>2. Gate!Verdict <=> firstFailure = 0
    BY <1>1 DEF Gate!Verdict
<1>3. ASSUME firstFailure # 0 PROVE Gate!FirstCode = rows[firstFailure].code
    <2>1. firstFailure \in failed
        BY <1>1, <1>3
    <2>2. \A i \in failed : firstFailure <= i
        BY <1>1, <1>3
    <2>3. \A i \in failed : i \in Nat
        OBVIOUS
    <2> HIDE DEF failed
    <2>4. (CHOOSE i \in failed : \A j \in failed : i <= j) = firstFailure
        BY <2>1, <2>2, <2>3
    <2> QED
        BY <2>1, <2>4 DEF failed, Gate!FirstCode
<1> QED
    BY <1>1, <1>2, <1>3

LEMMA PutFile ==
    ASSUME FilesOK(disk, runs), NEW f \in Gate!ReportFiles, NEW status
    PROVE  /\ DOMAIN Gate!Put(f, status) = Gate!ReportFiles
           /\ Gate!Put(f, status)[f] = ThisRun(status)
           /\ \A x \in Gate!ReportFiles : x # f => Gate!Put(f, status)[x] = disk[x]
    BY DEF FilesOK, Gate!Put, ThisRun

LEMMA GateSummaryKeeps ==
    ASSUME GateInv, Gate!GateSummary
    PROVE  GateInv'
<1>1. /\ pc = "steps" /\ Len(rows) = Steps
      /\ disk' = Gate!Put("summary", IF Gate!Verdict THEN "pass" ELSE "fail")
      /\ exit' = Gate!Code(IF Gate!Verdict THEN 0 ELSE Gate!FirstCode)
      /\ pc' = IF Gate!NeedsTrace(exit'[2]) THEN "trace" ELSE "ended"
      /\ UNCHANGED <<runs, cmd, rows, firstFailure, problem>>
    BY DEF Gate!GateSummary
<1>2. cmd.name = "gate" /\ FilesOK(disk, runs) /\ RowsTell(rows, firstFailure, Gate!FailFast) /\ runs \in Nat
    BY <1>1, GateBounds DEF GateInv, NamesOf
<1>3. /\ Gate!Verdict <=> firstFailure = 0
      /\ firstFailure # 0 => Gate!FirstCode = rows[firstFailure].code /\ Gate!FirstCode # 0
    BY <1>2, FirstFailureDecides
<1> DEFINE code == IF firstFailure = 0 THEN 0 ELSE rows[firstFailure].code
<1>4. exit' = Gate!Code(code) /\ (code # 0 <=> firstFailure # 0)
    BY <1>1, <1>3
<1>5. code \in Codes
    <2>1. CASE firstFailure = 0
        BY <2>1, GateBounds
    <2>2. CASE firstFailure # 0
        <3>1. rows \in Seq(Gate!Row) /\ firstFailure \in 1 .. Len(rows)
            BY <1>2, <2>2 DEF RowsTell
        <3>2. rows[firstFailure] \in Gate!Row
            BY <3>1
        <3> QED
            BY <2>2, <3>2 DEF Gate!Row
    <2> QED
        BY <2>1, <2>2
<1>6. "summary" \in Gate!ReportFiles
    BY DEF Gate!ReportFiles
<1>7. /\ disk'["summary"] = ThisRun(IF firstFailure = 0 THEN "pass" ELSE "fail")
      /\ DOMAIN disk' = Gate!ReportFiles /\ \A x \in Gate!ReportFiles : x # "summary" => disk'[x] = disk[x]
    BY <1>1, <1>2, <1>3, <1>6, PutFile
<1> HIDE DEF code
<1>8. disk'["summary"].run = runs
    BY <1>7 DEF ThisRun
<1>9. FilesOK(disk, runs)'
    BY <1>1, <1>2, <1>7, <1>8 DEF FilesOK, Gate!ReportFiles
<1>10. RowsTell(rows, firstFailure, Gate!FailFast)'
    BY <1>1, <1>2 DEF RowsTell, Gate!FailFast
<1>11. GateOver'
    BY <1>1, <1>4, <1>7 DEF GateOver, ThisRun, code
<1>12. ExitCodeOK'
    BY <1>4, <1>5 DEF ExitCodeOK
<1>13. cmd'.name \in NamesOf(pc') /\ pc' \in {"trace", "ended"}
    BY <1>1, <1>2 DEF NamesOf
<1>14. pc' = "ended" /\ firstFailure # 0 => cmd.profile = "off"
    BY <1>1, <1>4, CodeFacts DEF Gate!NeedsTrace
<1>15. /\ (runs \in 0 .. MaxRuns /\ cmd \in Gate!Commands /\ problem \in BOOLEAN)'
       /\ cmd'.name = "gate" /\ (cmd.profile = "off" => cmd'.profile = "off") /\ UNCHANGED firstFailure
    BY <1>1, <1>2 DEF GateInv
<1>16. /\ (IF cmd.name = "gate" THEN RowsTell(rows, firstFailure, Gate!FailFast)
                                 ELSE rows = << >> /\ firstFailure = 0)'
       /\ (cmd.name \in NamesOf(pc))'
       /\ (ExitCodeOK /\ (pc \notin {"trace", "page", "ended"} => exit = Gate!NoExit))'
    BY <1>10, <1>12, <1>13, <1>15
<1>17. (Gate!Ended /\ cmd.name = "gate" /\ firstFailure # 0 /\ cmd.profile # "off" =>
            disk["trace"].run = runs /\ disk["page"].run = runs)'
    BY <1>1, <1>14 DEF Gate!Ended
<1>18. /\ (pc = "page" => disk["trace"].run = runs)'
       /\ (pc = "perf" => \A t \in Timings : disk[t].run = runs => disk[t] = ThisRun("pass"))'
       /\ (pc = "report" /\ cmd.name = "perf" =>
                cmd.compareOnly \/ \A t \in Timings : disk[t] = ThisRun("pass"))'
       /\ (Gate!Ended /\ cmd.name = "perf" => PerfOver)'
       /\ (Gate!Ended /\ cmd.name = "freshness" => FreshnessOver)'
    BY <1>13, <1>15
<1>19. (pc \in {"trace", "page"} \/ (Gate!Ended /\ cmd.name = "gate") => GateOver)'
    BY <1>11
<1>20. (pc \in {"idle", "steps", "trace", "page", "perf", "fresh", "docs", "report", "ended"})'
    BY <1>13
<1> QED
    BY <1>9, <1>15, <1>16, <1>17, <1>18, <1>19, <1>20 DEF GateInv

LEMMA GateTraceKeeps ==
    ASSUME GateInv, Gate!GateTrace \/ Gate!GatePage
    PROVE  GateInv'
<1> DEFINE f == IF pc = "trace" THEN "trace" ELSE "page"
<1>1. /\ pc \in {"trace", "page"} /\ pc' = IF pc = "trace" THEN "page" ELSE "ended"
      /\ disk' = Gate!Put(f, "fail")
      /\ UNCHANGED <<runs, cmd, rows, firstFailure, problem, exit>>
    BY DEF Gate!GateTrace, Gate!GatePage
<1>2. /\ cmd.name = "gate" /\ FilesOK(disk, runs) /\ RowsTell(rows, firstFailure, Gate!FailFast) /\ runs \in Nat
      /\ GateOver /\ (pc = "page" => disk["trace"].run = runs)
    BY <1>1, GateBounds DEF GateInv, NamesOf
<1>3. {"trace", "page", "summary"} \subseteq Gate!ReportFiles
    BY DEF Gate!ReportFiles
<1>4. /\ disk'[f] = ThisRun("fail") /\ DOMAIN disk' = Gate!ReportFiles
      /\ \A x \in Gate!ReportFiles : x # f => disk'[x] = disk[x]
    BY <1>1, <1>2, <1>3, PutFile
<1>5. disk'[f].run = runs /\ disk["summary"].run = runs /\ disk'["summary"] = disk["summary"]
    BY <1>2, <1>3, <1>4 DEF ThisRun, GateOver
<1>6. FilesOK(disk, runs)'
    BY <1>1, <1>2, <1>3, <1>4, <1>5 DEF FilesOK
<1>7. disk'["trace"].run = runs /\ (pc = "page" => disk'["page"].run = runs)
    BY <1>1, <1>2, <1>3, <1>4, <1>5
<1>8. RowsTell(rows, firstFailure, Gate!FailFast)' /\ ExitCodeOK'
    BY <1>1, <1>2 DEF RowsTell, Gate!FailFast, ExitCodeOK, GateInv
<1>9. GateOver'
    BY <1>1, <1>2, <1>5 DEF GateOver, ThisRun
<1>10. cmd'.name \in NamesOf(pc')
    BY <1>1, <1>2 DEF NamesOf
<1>11. /\ (runs \in 0 .. MaxRuns /\ cmd \in Gate!Commands /\ problem \in BOOLEAN)'
       /\ cmd'.name = "gate" /\ pc' \in {"page", "ended"} /\ UNCHANGED <<runs, cmd, firstFailure>>
       /\ pc' = "ended" => pc = "page"
    BY <1>1, <1>2 DEF GateInv
<1> HIDE DEF f
<1>12. /\ (IF cmd.name = "gate" THEN RowsTell(rows, firstFailure, Gate!FailFast)
                                 ELSE rows = << >> /\ firstFailure = 0)'
       /\ (ExitCodeOK /\ (pc \notin {"trace", "page", "ended"} => exit = Gate!NoExit))'
    BY <1>8, <1>11
<1>13. (Gate!Ended /\ cmd.name = "gate" /\ firstFailure # 0 /\ cmd.profile # "off" =>
            disk["trace"].run = runs /\ disk["page"].run = runs)'
    BY <1>7, <1>11 DEF Gate!Ended
<1>14. /\ (pc = "page" => disk["trace"].run = runs)'
       /\ (pc = "perf" => \A t \in Timings : disk[t].run = runs => disk[t] = ThisRun("pass"))'
       /\ (pc = "report" /\ cmd.name = "perf" =>
                cmd.compareOnly \/ \A t \in Timings : disk[t] = ThisRun("pass"))'
       /\ (Gate!Ended /\ cmd.name = "perf" => PerfOver)'
       /\ (Gate!Ended /\ cmd.name = "freshness" => FreshnessOver)'
    BY <1>7, <1>11
<1>15. (pc \in {"trace", "page"} \/ (Gate!Ended /\ cmd.name = "gate") => GateOver)'
    BY <1>9
<1>16. (pc \in {"idle", "steps", "trace", "page", "perf", "fresh", "docs", "report", "ended"})'
    BY <1>11
<1> QED
    BY <1>6, <1>10, <1>11, <1>12, <1>13, <1>14, <1>15, <1>16 DEF GateInv


(***************************************************************************)
(* The smoke check: no timing is of this run before its program has run.   *)
(***************************************************************************)
LEMMA PerfProgramKeeps ==
    ASSUME GateInv, NEW t \in Timings, Gate!PerfProgram(t)
    PROVE  GateInv'
<1>1. /\ pc = "perf" /\ cmd.name = "perf" /\ disk[t].run # runs
      /\ UNCHANGED <<runs, cmd, rows, firstFailure, problem>>
    BY DEF Gate!PerfProgram
<1>2. /\ FilesOK(disk, runs) /\ runs \in 0 .. MaxRuns /\ runs \in Nat /\ exit = Gate!NoExit
      /\ \A x \in Timings : disk[x].run = runs => disk[x] = ThisRun("pass")
    BY <1>1, GateBounds DEF GateInv
<1>3. /\ Timings \subseteq Gate!ReportFiles /\ {"summary", "trace", "page"} \subseteq Gate!ReportFiles
      /\ t \notin {"summary", "trace", "page"}
    BY GateBounds DEF Gate!ReportFiles
<1>4. \A status : /\ DOMAIN Gate!Put(t, status) = Gate!ReportFiles
                  /\ Gate!Put(t, status)[t] = ThisRun(status)
                  /\ \A x \in Gate!ReportFiles : x # t => Gate!Put(t, status)[x] = disk[x]
    BY <1>2, <1>3, PutFile
<1>5. \A status : ThisRun(status).run = runs /\ ThisRun(status).status = status
    BY DEF ThisRun
<1>6. \A status : FilesOK(Gate!Put(t, status), runs)
    BY <1>2, <1>3, <1>4, <1>5 DEF FilesOK
<1>7. /\ (runs \in 0 .. MaxRuns /\ cmd \in Gate!Commands /\ problem \in BOOLEAN)'
      /\ cmd'.name = "perf" /\ rows' = << >> /\ firstFailure' = 0
    BY <1>1 DEF GateInv
<1>8. CASE disk' = Gate!Put(t, "pass") /\ UNCHANGED <<pc, exit>>
    <2>1. FilesOK(disk, runs)'
        BY <1>1, <1>6, <1>8 DEF FilesOK
    <2>2. \A x \in Timings : disk'[x].run = runs => disk'[x] = ThisRun("pass")
        BY <1>2, <1>3, <1>4, <1>8
    <2>3. \A x \in Timings : disk'[x].run = runs' => disk'[x] = ThisRun("pass")'
        BY <1>1, <2>2 DEF ThisRun
    <2>4. pc' = "perf" /\ exit' = Gate!NoExit /\ ExitCodeOK' /\ ~Gate!Ended' /\ cmd'.name \in NamesOf(pc')
        BY <1>1, <1>2, <1>7, <1>8 DEF ExitCodeOK, Gate!Ended, NamesOf
    <2> QED
        BY <1>7, <2>1, <2>3, <2>4 DEF GateInv
<1>9. ASSUME NEW code \in Codes, code # 0, disk' \in {disk, Gate!Put(t, "fail")},
             exit' = Gate!Code(code), pc' = "ended"
      PROVE  GateInv'
    <2>1. FilesOK(disk, runs)'
        BY <1>1, <1>2, <1>6, <1>9 DEF FilesOK
    <2>2. exit' # Gate!Code(0)
        BY <1>9, CodeFacts
    <2>3. disk[t].run \in 0 .. runs
        BY <1>2, <1>3 DEF FilesOK
    <2>4. disk'[t].run < runs \/ disk'[t].status = "fail"
        BY <1>1, <1>2, <1>4, <1>5, <1>9, <2>3
    <2>5. PerfOver'
        BY <1>1, <2>2, <2>4 DEF PerfOver
    <2>6. ExitCodeOK' /\ cmd'.name \in NamesOf(pc')
        BY <1>7, <1>9 DEF ExitCodeOK, NamesOf
    <2> QED
        BY <1>7, <1>9, <2>1, <2>5, <2>6 DEF GateInv
<1> QED
    BY <1>8, <1>9 DEF Gate!PerfProgram

(* The steps that write no file.                                           *)
LEMMA CompareKeeps ==
    ASSUME GateInv, Gate!PerfCompare \/ Gate!FreshnessSearches \/ Gate!DocsCheck
    PROVE  GateInv'
<1>1. /\ UNCHANGED <<runs, cmd, rows, firstFailure, disk>> /\ problem' \in BOOLEAN
      /\ pc \in {"perf", "fresh", "docs"} /\ cmd.name \in {"perf", "freshness"}
    BY DEF Gate!PerfCompare, Gate!FreshnessSearches, Gate!DocsCheck, GateInv, NamesOf
<1>2. /\ (runs \in 0 .. MaxRuns /\ cmd \in Gate!Commands /\ problem \in BOOLEAN)'
      /\ rows' = << >> /\ firstFailure' = 0 /\ cmd'.name # "gate" /\ FilesOK(disk, runs)'
      /\ exit = Gate!NoExit
    BY <1>1 DEF GateInv, FilesOK
<1>3. CASE Gate!PerfCompare
    <2>1. /\ pc = "perf" /\ pc' = "report" /\ cmd.name = "perf" /\ UNCHANGED exit
          /\ cmd.compareOnly \/ \A t \in Timings : disk[t].run = runs
        BY <1>3 DEF Gate!PerfCompare, Gate!TimingsReady
    <2>2. cmd.compareOnly \/ \A t \in Timings : disk[t] = ThisRun("pass")
        BY <2>1 DEF GateInv
    <2>3. (cmd.compareOnly \/ \A t \in Timings : disk[t] = ThisRun("pass"))'
        BY <1>1, <2>2 DEF ThisRun
    <2>4. ExitCodeOK' /\ exit' = Gate!NoExit /\ ~Gate!Ended' /\ cmd'.name \in NamesOf(pc')
        BY <1>1, <1>2, <2>1 DEF ExitCodeOK, Gate!Ended, NamesOf
    <2> QED
        BY <1>2, <2>1, <2>3, <2>4 DEF GateInv
<1>4. CASE Gate!FreshnessSearches \/ Gate!DocsCheck
    <2>1. /\ pc \in {"fresh", "docs"} /\ cmd.name = "freshness"
          /\ \/ pc' \in {"docs", "report"} /\ UNCHANGED exit
             \/ pc' = "ended" /\ exit' = Gate!Raised
        BY <1>4 DEF Gate!FreshnessSearches, Gate!DocsCheck, GateInv, NamesOf
    <2>2. ExitCodeOK' /\ (pc' # "ended" => exit' = Gate!NoExit) /\ ~Gate!Ended' /\ cmd'.name \in NamesOf(pc')
        BY <1>1, <1>2, <2>1, CodeFacts DEF ExitCodeOK, Gate!Ended, NamesOf
    <2>3. cmd'.name = "freshness" /\ pc' \in {"docs", "report", "ended"}
        BY <1>1, <2>1
    <2> QED
        BY <1>2, <2>2, <2>3 DEF GateInv
<1> QED
    BY <1>3, <1>4

LEMMA ReportKeeps ==
    ASSUME GateInv, Gate!PerfReport \/ Gate!FreshnessReport
    PROVE  GateInv'
<1>1. /\ UNCHANGED <<runs, cmd, rows, firstFailure, problem>> /\ pc = "report" /\ pc' = "ended"
      /\ exit' = Gate!Code(IF problem /\ cmd.strict THEN 1 ELSE 0)
      /\ \/ /\ cmd.name = "perf"
            /\ disk' = Gate!Put("perf", IF ~problem THEN "pass" ELSE IF cmd.strict THEN "fail" ELSE "warn")
         \/ /\ cmd.name = "freshness" /\ disk' = Gate!Put("freshness", IF problem THEN "fail" ELSE "pass")
    BY DEF Gate!PerfReport, Gate!FreshnessReport, Gate!ReportFails
<1>2. /\ (runs \in 0 .. MaxRuns /\ cmd \in Gate!Commands /\ problem \in BOOLEAN)'
      /\ rows' = << >> /\ firstFailure' = 0 /\ cmd'.name # "gate" /\ FilesOK(disk, runs) /\ runs \in Nat
      /\ problem \in BOOLEAN
    BY <1>1, GateBounds DEF GateInv
<1>3. {"perf", "freshness", "summary", "trace", "page"} \subseteq Gate!ReportFiles
    BY DEF Gate!ReportFiles
<1>4. \A status : ThisRun(status).run = runs /\ ThisRun(status).status = status
    BY DEF ThisRun
<1>5. \A f \in {"perf", "freshness"} : \A status :
        FilesOK(Gate!Put(f, status), runs) /\ Gate!Put(f, status)[f] = ThisRun(status)
    <2> TAKE f \in {"perf", "freshness"}
    <2> TAKE status
    <2>1. /\ DOMAIN Gate!Put(f, status) = Gate!ReportFiles
          /\ Gate!Put(f, status)[f] = ThisRun(status)
          /\ \A x \in Gate!ReportFiles : x # f => Gate!Put(f, status)[x] = disk[x]
        BY <1>2, <1>3, PutFile
    <2> QED
        BY <1>2, <1>3, <1>4, <2>1 DEF FilesOK
<1>6. FilesOK(disk, runs)'
    BY <1>1, <1>5 DEF FilesOK
<1>7. ExitCodeOK' /\ cmd'.name \in NamesOf(pc')
    <2>1. exit' = Gate!Code(1) \/ exit' = Gate!Code(0)
        BY <1>1
    <2>2. 0 \in Codes \cup {1} /\ 1 \in Codes \cup {1}
        BY GateBounds
    <2> QED
        BY <1>1, <2>1, <2>2 DEF ExitCodeOK, NamesOf
<1>8. CASE cmd.name = "perf"
    <2>1. disk'["perf"] = ThisRun(IF ~problem THEN "pass" ELSE IF cmd.strict THEN "fail" ELSE "warn")
        BY <1>1, <1>5, <1>8
    <2>2. Gate!Code(0) # Gate!Code(1)
        BY CodeFacts
    <2>3. disk'["perf"].run = runs /\ (exit' = Gate!Code(0) <=> disk'["perf"].status # "fail")
        BY <1>1, <1>4, <2>1, <2>2
    <2>4. PerfOver' /\ cmd'.name = "perf"
        BY <1>1, <1>8, <2>3 DEF PerfOver
    <2> QED
        BY <1>1, <1>2, <1>6, <1>7, <2>4 DEF GateInv
<1>9. CASE cmd.name = "freshness"
    <2>1. disk'["freshness"] = ThisRun(IF problem THEN "fail" ELSE "pass")
        BY <1>1, <1>5, <1>9
    <2>2. FreshnessOver' /\ cmd'.name = "freshness"
        BY <1>1, <1>9, <2>1 DEF FreshnessOver, ThisRun
    <2> QED
        BY <1>1, <1>2, <1>6, <1>7, <2>2 DEF GateInv
<1> QED
    BY <1>1, <1>8, <1>9


LEMMA GateGoesOn == GatePart /\ [Next]_vars => GatePart'
<1> SUFFICES ASSUME GatePart, [Next]_vars, part' = "gate" PROVE GateInv'
    BY DEF GatePart
<1>1. part = "gate" /\ GateInv
    BY DEF GatePart, Next, vars
<1>2. CASE UNCHANGED <<runs, cmd, pc, rows, firstFailure, problem, exit, disk>>
    <2>1. UNCHANGED <<Gate!Ended, Gate!FailFast, FilesOK(disk, runs), GateOver, PerfOver, FreshnessOver>>
        BY <1>2 DEF Gate!Ended, Gate!FailFast, FilesOK, GateOver, PerfOver, FreshnessOver, ThisRun
    <2>2. UNCHANGED <<RowsTell(rows, firstFailure, Gate!FailFast), ExitCodeOK, ThisRun("pass"), cmd.name \in NamesOf(pc)>>
        BY <1>2, <2>1 DEF RowsTell, ExitCodeOK, ThisRun
    <2> QED
        BY <1>1, <1>2, <2>1, <2>2 DEF GateInv
<1>3. CASE Gate!Next
    <2>1. CASE \E c \in Gate!Commands : Gate!Start(c)
        BY <1>1, <2>1, StartKeepsGate
    <2>2. CASE Gate!SkipStep \/ Gate!RunStep
        BY <1>1, <2>2, GateStepsKeep
    <2>3. CASE Gate!GateSummary
        BY <1>1, <2>3, GateSummaryKeeps
    <2>4. CASE Gate!GateTrace \/ Gate!GatePage
        BY <1>1, <2>4, GateTraceKeeps
    <2>5. CASE \E t \in Timings : Gate!PerfProgram(t)
        BY <1>1, <2>5, PerfProgramKeeps
    <2>6. CASE Gate!StepRaises \/ Gate!PerfUnreadable \/ Gate!Killed
        BY <1>1, <2>6, BreaksKeepGate
    <2>7. CASE Gate!PerfCompare \/ Gate!FreshnessSearches \/ Gate!DocsCheck
        BY <1>1, <2>7, CompareKeeps
    <2>8. CASE Gate!PerfReport \/ Gate!FreshnessReport
        BY <1>1, <2>8, ReportKeeps
    <2>9. CASE Gate!Over
        BY <1>2, <2>9 DEF Gate!Over, Gate!vars
    <2> QED
        BY <1>3, <2>1, <2>2, <2>3, <2>4, <2>5, <2>6, <2>7, <2>8, <2>9 DEF Gate!Next, Gate!Gate
<1>4. CASE UNCHANGED vars
    BY <1>2, <1>4 DEF vars, commandVars, gateVars
<1> QED
    BY <1>1, <1>3, <1>4 DEF Next

(***************************************************************************)
(* The invariant of the gate, the smoke check and the freshness check.     *)
(***************************************************************************)
LEMMA GateInvariant == Spec => []GatePart
<1>1. Init => GatePart
    BY GateStarts DEF Init, GatePart
<1> QED
    BY <1>1, GateGoesOn, PTL DEF Spec

LEMMA GateTypes ==
    ASSUME GateInv
    PROVE  Gate!TypeOK
<1>1. /\ runs \in 0 .. MaxRuns /\ cmd \in Gate!Commands /\ problem \in BOOLEAN
      /\ pc \in {"idle", "steps", "trace", "page", "perf", "fresh", "docs", "report", "ended"}
    BY DEF GateInv
<1>2. rows \in Seq(Gate!Row) /\ Len(rows) <= Steps /\ firstFailure \in 0 .. Len(rows)
    <2>1. CASE cmd.name = "gate"
        BY <2>1 DEF GateInv, RowsTell
    <2>2. CASE cmd.name # "gate"
        BY <2>2, GateBounds DEF GateInv
    <2> QED
        BY <2>1, <2>2
<1>3. exit \in ({"exit"} \X Codes) \cup ({"exit"} \X {1}) \cup {Gate!Raised, Gate!KilledExit, Gate!NoExit}
    BY DEF GateInv, ExitCodeOK, Gate!Code
<1>4. \A f \in Gate!ReportFiles : disk[f].run \in 0 .. runs
    BY DEF GateInv, FilesOK
<1> QED
    BY <1>1, <1>2, <1>3, <1>4 DEF Gate!TypeOK

LEMMA StepsStopInTime ==
    ASSUME GateInv
    PROVE  Gate!NothingRunsAfterTheFailure
<1> SUFFICES ASSUME cmd.name = "gate", NEW i \in 1 .. Len(rows), NEW j \in 1 .. Len(rows),
                    i < j, rows[i].status = "fail"
             PROVE  IF Gate!FailFast THEN rows[j].status = "skipped" /\ rows[j].by = i
                                     ELSE rows[j].status # "skipped"
    BY DEF Gate!NothingRunsAfterTheFailure, Gate!FailFast
<1> DEFINE fast == Gate!FailFast
<1>1. RowsTell(rows, firstFailure, fast)
    BY DEF GateInv
<1> HIDE DEF fast
<1>2. Len(rows) \in Nat /\ firstFailure \in 0 .. Len(rows)
    BY <1>1 DEF RowsTell
<1>3. firstFailure # 0 /\ firstFailure <= i
    BY <1>1, <1>2 DEF RowsTell
<1>4. firstFailure < i => IF fast THEN rows[i].status = "skipped" ELSE TRUE
    BY <1>1, <1>2, <1>3 DEF RowsTell
<1>5. IF fast THEN rows[j].status = "skipped" /\ rows[j].by = firstFailure ELSE rows[j].status # "skipped"
    BY <1>1, <1>2, <1>3 DEF RowsTell
<1>6. fast => firstFailure = i
    BY <1>2, <1>3, <1>4
<1> QED
    BY <1>5, <1>6 DEF fast

LEMMA ExitOfTheFirst ==
    ASSUME GateInv
    PROVE  Gate!ExitIsFirstFailure
<1> DEFINE failed == {i \in 1 .. Steps : rows[i].code # 0 \/ rows[i].status # "pass"}
<1> SUFFICES ASSUME Gate!Ended, cmd.name = "gate"
             PROVE  IF failed = {} THEN exit = Gate!Code(0)
                    ELSE exit = Gate!Code(rows[CHOOSE i \in failed : \A j \in failed : i <= j].code)
                         /\ exit # Gate!Code(0)
    BY DEF Gate!ExitIsFirstFailure
<1>1. /\ RowsTell(rows, firstFailure, Gate!FailFast) /\ Len(rows) = Steps /\ Steps \in Nat
      /\ exit = Gate!Code(IF firstFailure = 0 THEN 0 ELSE rows[firstFailure].code)
    BY GateBounds DEF GateInv, GateOver
<1>2. /\ firstFailure \in 0 .. Steps
      /\ firstFailure # 0 => rows[firstFailure].code # 0 /\ rows[firstFailure].status = "fail"
      /\ \A i \in 1 .. Steps : firstFailure = 0 \/ i < firstFailure => rows[i].code = 0 /\ rows[i].status = "pass"
    BY <1>1 DEF RowsTell
<1>3. CASE firstFailure = 0
    <2>1. failed = {}
        BY <1>2, <1>3
    <2> QED
        BY <1>1, <1>3, <2>1
<1>4. CASE firstFailure # 0
    <2>1. firstFailure \in failed
        BY <1>1, <1>2, <1>4
    <2>2. \A i \in failed : firstFailure <= i /\ i \in Nat
        BY <1>1, <1>2, <1>4
    <2>3. exit = Gate!Code(rows[firstFailure].code) /\ exit # Gate!Code(0)
        BY <1>1, <1>2, <1>4, CodeFacts
    <2> HIDE DEF failed
    <2>4. (CHOOSE i \in failed : \A j \in failed : i <= j) = firstFailure
        BY <2>1, <2>2
    <2> QED
        BY <2>1, <2>3, <2>4
<1> QED
    BY <1>3, <1>4

(***************************************************************************)
(* However many steps the gate has and whatever their programs exit with:  *)
(* under fail-fast the steps after the first failure are skipped for it,   *)
(* without it all run, and the gate exits with the code of the first step  *)
(* that failed, with 0 only if none did (ci_gate_summary_main).            *)
(***************************************************************************)
THEOREM GatesTellTheTruth == Spec => []GateTellsTheTruth
<1>1. GatePart => GateTellsTheTruth
    BY GateTypes, StepsStopInTime, ExitOfTheFirst DEF GatePart, GateTellsTheTruth
<1> QED
    BY <1>1, GateInvariant, PTL

LEMMA GateReportsTell ==
    ASSUME GateInv
    PROVE  Gate!ReportsAreOfThisRun
<1> SUFFICES ASSUME Gate!Ended PROVE Gate!ReportsAreOfThisRun
    BY DEF Gate!ReportsAreOfThisRun
<1>1. cmd.name \in {"gate", "perf", "freshness"}
    BY CommandNames DEF GateInv
<1>2. CASE cmd.name = "gate"
    <2>1. GateOver /\ RowsTell(rows, firstFailure, Gate!FailFast)
        BY <1>2 DEF GateInv
    <2>2. exit = Gate!Code(0) <=> firstFailure = 0
        BY <2>1, CodeFacts DEF GateOver, RowsTell
    <2>3. disk["summary"] = [run |-> runs, status |-> IF exit = Gate!Code(0) THEN "pass" ELSE "fail"]
        BY <2>1, <2>2 DEF GateOver, ThisRun
    <2>4. exit # Gate!Code(0) /\ cmd.profile # "off" => disk["trace"].run = runs /\ disk["page"].run = runs
        BY <1>2, <2>2 DEF GateInv
    <2> QED
        BY <1>2, <2>3, <2>4 DEF Gate!ReportsAreOfThisRun
<1>3. CASE cmd.name = "perf"
    <2>1. PerfOver
        BY <1>3 DEF GateInv
    <2> QED
        BY <1>3, <2>1 DEF Gate!ReportsAreOfThisRun, PerfOver
<1>4. CASE cmd.name = "freshness"
    <2>1. FreshnessOver
        BY <1>4 DEF GateInv
    <2> QED
        BY <1>4, <2>1 DEF Gate!ReportsAreOfThisRun, FreshnessOver, ThisRun
<1> QED
    BY <1>1, <1>2, <1>3, <1>4

(***************************************************************************)
(* After any sequence of the three commands, each killed at any step or    *)
(* not: one that came to its end left the reports of this very run, which  *)
(* say what its exit code says; timings compared are of the run that       *)
(* compares them; no trace is newer than its summary (ci_gate_summary_main,*)
(* _write_fail_profile_artifacts, perf_smoke_main,                         *)
(* check_docs_freshness_main).                                             *)
(***************************************************************************)
THEOREM ReportsTellOfTheirRun == Spec => []ReportsAreOfThisRun
<1>1. GateInv => Gate!PerfComparesItsOwnRun
    BY DEF GateInv, Gate!PerfComparesItsOwnRun, ThisRun
<1>2. GateInv => Gate!TraceHasItsSummary
    BY DEF GateInv, FilesOK, Gate!TraceHasItsSummary
<1>3. GatePart => ReportsAreOfThisRun
    BY <1>1, <1>2, GateReportsTell DEF GatePart, ReportsAreOfThisRun
<1> QED
    BY <1>3, GateInvariant, PTL



-----------------------------------------------------------------------------
(* The process that cli.run cases patch and print in.                      *)

EnvValues == Values \cup {Effects!Missing}
Environments == [Keys -> EnvValues]
UndoEntry == [key : Keys, old : EnvValues]
PatchFrame == [undo : Seq(UndoEntry), wanted : Environments, entry : Environments,
               stage : {"setup", "main", "after", "undo"}]

(***************************************************************************)
(* Undoing leads from the environment now back to the one on entry.  What  *)
(* counts for a key is the first patch of it that is still to be undone:   *)
(* it holds what was there before any patch, and the later ones are undone *)
(* before it.                                                              *)
(***************************************************************************)
FirstOf(undo, j, k) == undo[j].key = k /\ \A i \in 1 .. j - 1 : undo[i].key # k
LeadsBackFor(undo, present, entry, k) ==
    \/ present[k] = entry[k] /\ \A j \in 1 .. Len(undo) : undo[j].key # k
    \/ \E j \in 1 .. Len(undo) : FirstOf(undo, j, k) /\ undo[j].old = entry[k]
LeadsBack(undo, present, entry) == \A k \in Keys : LeadsBackFor(undo, present, entry, k)

(***************************************************************************)
(* A run inside a run found the environment that the outer one had made.   *)
(***************************************************************************)
Nested(fs) ==
    \A i \in 1 .. Len(fs) - 1 :
        /\ fs[i].stage = "main" /\ fs[i + 1].entry = fs[i].wanted
        /\ LeadsBack(fs[i].undo, fs[i].wanted, fs[i].entry)
TopFits(f, present) == LeadsBack(f.undo, present, f.entry) /\ (f.stage # "undo" => present = f.wanted)
StackFits(fs, present) == Nested(fs) /\ (Len(fs) > 0 => TopFits(fs[Len(fs)], present))

LEMMA NothingToUndo ==
    ASSUME NEW present \in Environments, NEW entry \in Environments, LeadsBack(<<>>, present, entry)
    PROVE  present = entry
<1>1. \A k \in Keys : present[k] = entry[k]
    BY DEF LeadsBack, LeadsBackFor
<1> QED
    BY <1>1 DEF Environments

LEMMA UndoesNothing ==
    ASSUME NEW present \in Environments
    PROVE  LeadsBack(<<>>, present, present)
    BY DEF LeadsBack, LeadsBackFor

LEMMA PatchIsUndone ==
    ASSUME NEW undo \in Seq(UndoEntry), NEW present \in Environments, NEW entry \in Environments,
           LeadsBack(undo, present, entry), NEW name \in Keys, NEW value \in EnvValues
    PROVE  LET more == Append(undo, [key |-> name, old |-> present[name]])
           IN  /\ more \in Seq(UndoEntry)
               /\ LeadsBack(more, [present EXCEPT ![name] = value], entry)
<1> DEFINE more == Append(undo, [key |-> name, old |-> present[name]])
           then == [present EXCEPT ![name] = value]
<1>1. [key |-> name, old |-> present[name]] \in UndoEntry
    BY DEF UndoEntry, Environments
<1>2. /\ more \in Seq(UndoEntry) /\ Len(more) = Len(undo) + 1 /\ Len(undo) \in Nat
      /\ \A j \in 1 .. Len(undo) : more[j] = undo[j]
      /\ more[Len(undo) + 1].key = name /\ more[Len(undo) + 1].old = present[name]
    BY <1>1
<1>3. \A k \in Keys : k # name => then[k] = present[k]
    BY DEF Environments
<1> HIDE DEF more, then
<1>4. ASSUME NEW k \in Keys PROVE LeadsBackFor(more, then, entry, k)
    <2>1. LeadsBackFor(undo, present, entry, k)
        BY DEF LeadsBack
    <2>2. CASE \E j \in 1 .. Len(undo) : FirstOf(undo, j, k) /\ undo[j].old = entry[k]
        <3>1. PICK j \in 1 .. Len(undo) : FirstOf(undo, j, k) /\ undo[j].old = entry[k]
            BY <2>2
        <3>2. j \in 1 .. Len(more) /\ more[j] = undo[j] /\ \A i \in 1 .. j - 1 : more[i] = undo[i]
            BY <1>2
        <3>3. FirstOf(more, j, k)
            BY <3>1, <3>2 DEF FirstOf
        <3> QED
            BY <3>1, <3>2, <3>3 DEF LeadsBackFor
    <2>3. CASE present[k] = entry[k] /\ \A j \in 1 .. Len(undo) : undo[j].key # k
        <3>1. CASE k = name
            <4>1. FirstOf(more, Len(undo) + 1, k)
                BY <1>2, <2>3, <3>1 DEF FirstOf
            <4>2. Len(undo) + 1 \in 1 .. Len(more)
                BY <1>2
            <4> QED
                BY <1>2, <2>3, <3>1, <4>1, <4>2 DEF LeadsBackFor
        <3>2. CASE k # name
            <4>1. \A j \in 1 .. Len(more) : more[j].key # k
                BY <1>2, <2>3, <3>2
            <4> QED
                BY <1>3, <2>3, <3>2, <4>1 DEF LeadsBackFor
        <3> QED
            BY <3>1, <3>2
    <2> QED
        BY <2>1, <2>2, <2>3 DEF LeadsBackFor
<1> QED
    BY <1>2, <1>4 DEF LeadsBack, more, then

LEMMA AllButLast ==
    ASSUME NEW S, NEW s \in Seq(S), s # <<>>
    PROVE  LET rest == SubSeq(s, 1, Len(s) - 1)
           IN  /\ rest \in Seq(S) /\ Len(rest) = Len(s) - 1
               /\ \A j \in 1 .. Len(s) - 1 : rest[j] = s[j]
<1>1. PICK n \in Nat : n = Len(s) - 1
    OBVIOUS
<1> DEFINE rest == SubSeq(s, 1, n)
<1>2. rest \in Seq(S) /\ Len(rest) = n /\ \A j \in 1 .. n : rest[j] = s[j]
    BY <1>1
<1> QED
    BY <1>1, <1>2

LEMMA UndoneInOrder ==
    ASSUME NEW undo \in Seq(UndoEntry), undo # <<>>, NEW present \in Environments,
           NEW entry \in Environments, LeadsBack(undo, present, entry)
    PROVE  LET rest == SubSeq(undo, 1, Len(undo) - 1)
               last0 == undo[Len(undo)]
           IN  /\ rest \in Seq(UndoEntry)
               /\ [present EXCEPT ![last0.key] = last0.old] \in Environments
               /\ LeadsBack(rest, [present EXCEPT ![last0.key] = last0.old], entry)
<1> DEFINE rest == SubSeq(undo, 1, Len(undo) - 1)
           key1 == undo[Len(undo)].key
           then == [present EXCEPT ![key1] = undo[Len(undo)].old]
<1>1. Len(undo) \in Nat \ {0}
    OBVIOUS
<1>2. undo[Len(undo)] \in UndoEntry
    BY <1>1
<1>3. key1 \in Keys /\ undo[Len(undo)].old \in EnvValues
    BY <1>2 DEF UndoEntry
<1>4. /\ rest \in Seq(UndoEntry) /\ Len(rest) = Len(undo) - 1
      /\ \A j \in 1 .. Len(undo) - 1 : rest[j] = undo[j]
    BY AllButLast
<1>5. /\ then \in Environments /\ then[key1] = undo[Len(undo)].old
      /\ \A k \in Keys : k # key1 => then[k] = present[k]
    BY <1>3 DEF Environments
<1>6. key1 = undo[Len(undo)].key
    OBVIOUS
<1> HIDE DEF rest, then, key1
<1>7. ASSUME NEW k \in Keys PROVE LeadsBackFor(rest, then, entry, k)
    <2>1. LeadsBackFor(undo, present, entry, k)
        BY DEF LeadsBack
    <2>2. CASE \E j \in 1 .. Len(undo) : FirstOf(undo, j, k) /\ undo[j].old = entry[k]
        <3>1. PICK j \in 1 .. Len(undo) : FirstOf(undo, j, k) /\ undo[j].old = entry[k]
            BY <2>2
        <3>2. CASE j = Len(undo)
            <4>1. k = key1 /\ then[k] = entry[k]
                BY <1>5, <1>6, <3>1, <3>2 DEF FirstOf
            <4>2. \A i \in 1 .. Len(rest) : rest[i].key # k
                BY <1>4, <3>1, <3>2 DEF FirstOf
            <4> QED
                BY <4>1, <4>2 DEF LeadsBackFor
        <3>3. CASE j # Len(undo)
            <4>1. /\ j \in 1 .. Len(rest) /\ rest[j] = undo[j]
                  /\ \A i \in 1 .. j - 1 : rest[i] = undo[i]
                BY <1>1, <1>4, <3>3
            <4>2. FirstOf(rest, j, k)
                BY <3>1, <4>1 DEF FirstOf
            <4> QED
                BY <3>1, <4>1, <4>2 DEF LeadsBackFor
        <3> QED
            BY <3>2, <3>3
    <2>3. CASE present[k] = entry[k] /\ \A j \in 1 .. Len(undo) : undo[j].key # k
        <3>1. k # key1
            BY <1>1, <1>6, <2>3
        <3>2. \A i \in 1 .. Len(rest) : rest[i].key # k
            BY <1>1, <1>4, <2>3
        <3> QED
            BY <1>5, <2>3, <3>1, <3>2 DEF LeadsBackFor
    <2> QED
        BY <2>1, <2>2, <2>3 DEF LeadsBackFor
<1>8. LeadsBack(rest, then, entry)
    BY <1>7 DEF LeadsBack
<1> QED
    BY <1>4, <1>5, <1>8 DEF rest, then, key1


Begun(present) == [undo |-> <<>>, wanted |-> present, entry |-> present, stage |-> "setup"]

LEMMA CaseIsBegun ==
    ASSUME NEW present \in Environments, NEW fs \in Seq(PatchFrame), StackFits(fs, present),
           Len(fs) > 0 => fs[Len(fs)].stage = "main"
    PROVE  LET fs2 == Append(fs, Begun(present))
           IN  /\ fs2 \in Seq(PatchFrame) /\ Len(fs2) = Len(fs) + 1
               /\ \A i \in 1 .. Len(fs) : fs2[i] = fs[i]
               /\ fs2[Len(fs) + 1] = Begun(present) /\ StackFits(fs2, present)
<1> DEFINE fs2 == Append(fs, Begun(present))
<1>1. Begun(present) \in PatchFrame
    BY DEF Begun, PatchFrame
<1>2. /\ fs2 \in Seq(PatchFrame) /\ Len(fs2) = Len(fs) + 1 /\ Len(fs) \in Nat
      /\ \A i \in 1 .. Len(fs) : fs2[i] = fs[i]
      /\ fs2[Len(fs) + 1] = Begun(present)
    BY <1>1
<1> HIDE DEF fs2
<1>3. /\ Begun(present).entry = present /\ Begun(present).undo = <<>>
      /\ Begun(present).wanted = present
    BY DEF Begun
<1>4. TopFits(fs2[Len(fs2)], present)
    BY <1>2, <1>3, UndoesNothing DEF TopFits
<1>5. ASSUME NEW i \in 1 .. Len(fs2) - 1
      PROVE  /\ fs2[i].stage = "main" /\ fs2[i + 1].entry = fs2[i].wanted
             /\ LeadsBack(fs2[i].undo, fs2[i].wanted, fs2[i].entry)
    <2>1. CASE i = Len(fs)
        BY <1>2, <1>3, <2>1 DEF StackFits, TopFits
    <2>2. CASE i # Len(fs)
        <3>1. i \in 1 .. Len(fs) - 1 /\ fs2[i] = fs[i] /\ fs2[i + 1] = fs[i + 1]
            BY <1>2, <2>2
        <3> QED
            BY <3>1 DEF StackFits, Nested
    <2> QED
        BY <2>1, <2>2
<1>6. Nested(fs2)
    BY <1>5 DEF Nested
<1> QED
    BY <1>2, <1>4, <1>6 DEF StackFits, fs2

LEMMA TopIsReplaced ==
    ASSUME NEW fs \in Seq(PatchFrame), fs # <<>>, Nested(fs),
           NEW f \in PatchFrame, f.entry = fs[Len(fs)].entry, NEW present, TopFits(f, present)
    PROVE  LET fs2 == [fs EXCEPT ![Len(fs)] = f]
           IN  /\ fs2 \in Seq(PatchFrame) /\ Len(fs2) = Len(fs) /\ fs2[Len(fs)] = f
               /\ \A i \in 1 .. Len(fs) - 1 : fs2[i] = fs[i]
               /\ StackFits(fs2, present)
<1> DEFINE fs2 == [fs EXCEPT ![Len(fs)] = f]
<1>1. Len(fs) \in Nat \ {0}
    OBVIOUS
<1>2. /\ fs2 \in Seq(PatchFrame) /\ Len(fs2) = Len(fs) /\ fs2[Len(fs)] = f
      /\ \A i \in 1 .. Len(fs) - 1 : fs2[i] = fs[i]
    BY <1>1
<1> HIDE DEF fs2
<1>3. \A i \in 1 .. Len(fs) - 1 : fs2[i + 1].entry = fs[i + 1].entry
    BY <1>1, <1>2
<1>4. Nested(fs2)
    BY <1>2, <1>3 DEF Nested
<1> QED
    BY <1>2, <1>4 DEF StackFits, fs2

LEMMA CaseIsLeft ==
    ASSUME NEW present \in Environments, NEW fs \in Seq(PatchFrame), fs # <<>>,
           StackFits(fs, present), fs[Len(fs)].stage = "undo", fs[Len(fs)].undo = <<>>
    PROVE  LET rest == SubSeq(fs, 1, Len(fs) - 1)
           IN  /\ present = fs[Len(fs)].entry
               /\ rest \in Seq(PatchFrame) /\ Len(rest) = Len(fs) - 1
               /\ \A i \in 1 .. Len(fs) - 1 : rest[i] = fs[i]
               /\ StackFits(rest, present)
<1> DEFINE rest == SubSeq(fs, 1, Len(fs) - 1)
<1>1. /\ rest \in Seq(PatchFrame) /\ Len(rest) = Len(fs) - 1 /\ Len(fs) \in Nat \ {0}
      /\ \A i \in 1 .. Len(fs) - 1 : rest[i] = fs[i]
    BY AllButLast
<1>2. fs[Len(fs)].entry \in Environments
    <2>1. fs[Len(fs)] \in PatchFrame
        BY <1>1
    <2> QED
        BY <2>1 DEF PatchFrame
<1>3. present = fs[Len(fs)].entry
    BY <1>1, <1>2, NothingToUndo DEF StackFits, TopFits
<1> HIDE DEF rest
<1>4. Nested(rest)
    <2>1. \A i \in 1 .. Len(rest) - 1 :
            i \in 1 .. Len(fs) - 1 /\ rest[i] = fs[i] /\ rest[i + 1] = fs[i + 1]
        BY <1>1
    <2> QED
        BY <2>1 DEF StackFits, Nested
<1>5. Len(rest) > 0 => TopFits(rest[Len(rest)], present)
    <2> SUFFICES ASSUME Len(rest) > 0 PROVE TopFits(rest[Len(rest)], present)
        OBVIOUS
    <2> DEFINE n == Len(rest)
    <2>1. n \in 1 .. Len(fs) - 1 /\ rest[n] = fs[n] /\ n + 1 = Len(fs)
        BY <1>1
    <2>2. fs[n + 1].entry = fs[n].wanted /\ LeadsBack(fs[n].undo, fs[n].wanted, fs[n].entry)
        BY <2>1 DEF StackFits, Nested
    <2> QED
        BY <1>3, <2>1, <2>2 DEF TopFits
<1> QED
    BY <1>1, <1>3, <1>4, <1>5 DEF StackFits, rest

(***************************************************************************)
(* The stack of a case in each of its steps.                               *)
(***************************************************************************)
StackOf(fs, present) == fs \in Seq(PatchFrame) /\ StackFits(fs, present)
WithTop(fs, f) == [fs EXCEPT ![Len(fs)] = f]
AtStage(f, stage) == [f EXCEPT !.stage = stage]
Patched(f, name, old, value) ==
    [f EXCEPT !.undo = Append(@, [key |-> name, old |-> old]), !.wanted = [@ EXCEPT ![name] = value]]
OneUndone(f) == [f EXCEPT !.undo = SubSeq(f.undo, 1, Len(f.undo) - 1)]

LEMMA FrameChanged ==
    ASSUME NEW f \in PatchFrame, NEW undo, NEW wanted
    PROVE  [f EXCEPT !.undo = undo, !.wanted = wanted]
           = [undo |-> undo, wanted |-> wanted, entry |-> f.entry, stage |-> f.stage]
<1>1. f = [undo |-> f.undo, wanted |-> f.wanted, entry |-> f.entry, stage |-> f.stage]
    BY DEF PatchFrame
<1> DEFINE g == [f EXCEPT !.undo = undo]
<1>2. g = [undo |-> undo, wanted |-> f.wanted, entry |-> f.entry, stage |-> f.stage]
    BY <1>1
<1>3. [f EXCEPT !.undo = undo, !.wanted = wanted] = [g EXCEPT !.wanted = wanted]
    OBVIOUS
<1> HIDE DEF g
<1>4. [g EXCEPT !.wanted = wanted]
      = [undo |-> undo, wanted |-> wanted, entry |-> f.entry, stage |-> f.stage]
    BY <1>2
<1> QED
    BY <1>3, <1>4

LEMMA CasePatches ==
    ASSUME NEW present \in Environments, NEW fs, StackOf(fs, present), fs # <<>>,
           fs[Len(fs)].stage = "setup", NEW name \in Keys, NEW value \in EnvValues
    PROVE  LET f == Patched(fs[Len(fs)], name, present[name], value)
           IN  /\ [present EXCEPT ![name] = value] \in Environments
               /\ StackOf(WithTop(fs, f), [present EXCEPT ![name] = value])
               /\ Len(WithTop(fs, f)) = Len(fs) /\ f.stage = "setup" /\ WithTop(fs, f)[Len(fs)] = f
               /\ \A i \in 1 .. Len(fs) - 1 : WithTop(fs, f)[i] = fs[i]
<1> DEFINE top == fs[Len(fs)]
           more == Append(top.undo, [key |-> name, old |-> present[name]])
           then == [present EXCEPT ![name] = value]
           f == [top EXCEPT !.undo = Append(@, [key |-> name, old |-> present[name]]),
                            !.wanted = [@ EXCEPT ![name] = value]]
<1>1. top \in PatchFrame /\ TopFits(top, present) /\ Nested(fs)
    <2>1. Len(fs) \in 1 .. Len(fs) /\ Len(fs) > 0
        BY DEF StackOf
    <2> QED
        BY <2>1 DEF StackOf, StackFits
<1>2. /\ top.undo \in Seq(UndoEntry) /\ top.entry \in Environments
      /\ LeadsBack(top.undo, present, top.entry) /\ present = top.wanted /\ top.stage = "setup"
    BY <1>1 DEF PatchFrame, TopFits
<1>3. then \in Environments
    BY DEF Environments
<1> HIDE DEF top
<1>4. more \in Seq(UndoEntry) /\ LeadsBack(more, then, top.entry)
    BY <1>2, PatchIsUndone
<1>5. f = [undo |-> more, wanted |-> then, entry |-> top.entry, stage |-> "setup"]
    <2> DEFINE wanted == [top.wanted EXCEPT ![name] = value]
    <2>1. wanted = then
        BY <1>2
    <2>2. f = [top EXCEPT !.undo = more, !.wanted = wanted]
        BY <1>1 DEF PatchFrame
    <2> HIDE DEF more, wanted, then, f
    <2>3. [top EXCEPT !.undo = more, !.wanted = wanted]
          = [undo |-> more, wanted |-> wanted, entry |-> top.entry, stage |-> top.stage]
        BY <1>1, FrameChanged
    <2> QED
        BY <1>2, <2>1, <2>2, <2>3
<1> HIDE DEF more, then, f
<1>6. /\ f \in PatchFrame /\ f.undo = more /\ f.wanted = then /\ f.entry = top.entry
      /\ f.stage = "setup"
    BY <1>2, <1>3, <1>4, <1>5 DEF PatchFrame
<1>7. TopFits(f, then)
    BY <1>4, <1>6 DEF TopFits
<1>8. LET fs2 == [fs EXCEPT ![Len(fs)] = f]
      IN  /\ fs2 \in Seq(PatchFrame) /\ Len(fs2) = Len(fs) /\ fs2[Len(fs)] = f
          /\ \A i \in 1 .. Len(fs) - 1 : fs2[i] = fs[i]
          /\ StackFits(fs2, then)
    BY <1>1, <1>6, <1>7, TopIsReplaced DEF StackOf, top
<1> QED
    BY <1>3, <1>6, <1>8 DEF StackOf, WithTop, Patched, f, then, top

LEMMA CaseGoesTo ==
    ASSUME NEW present \in Environments, NEW fs, StackOf(fs, present), fs # <<>>,
           fs[Len(fs)].stage # "undo", NEW stage \in {"main", "after", "undo"}
    PROVE  LET f == AtStage(fs[Len(fs)], stage)
           IN  /\ StackOf(WithTop(fs, f), present)
               /\ Len(WithTop(fs, f)) = Len(fs) /\ f.stage = stage /\ WithTop(fs, f)[Len(fs)] = f
               /\ \A i \in 1 .. Len(fs) - 1 : WithTop(fs, f)[i] = fs[i]
<1> DEFINE top == fs[Len(fs)]
           f == [fs[Len(fs)] EXCEPT !.stage = stage]
<1>1. top \in PatchFrame /\ TopFits(top, present) /\ Nested(fs)
    <2>1. Len(fs) \in 1 .. Len(fs) /\ Len(fs) > 0
        BY DEF StackOf
    <2> QED
        BY <2>1 DEF StackOf, StackFits
<1>2. /\ f \in PatchFrame /\ f.undo = top.undo /\ f.wanted = top.wanted /\ f.entry = top.entry
      /\ f.stage = stage
    BY <1>1 DEF PatchFrame
<1> HIDE DEF f
<1>3. TopFits(f, present)
    BY <1>1, <1>2 DEF TopFits
<1>4. LET fs2 == [fs EXCEPT ![Len(fs)] = f]
      IN  /\ fs2 \in Seq(PatchFrame) /\ Len(fs2) = Len(fs) /\ fs2[Len(fs)] = f
          /\ \A i \in 1 .. Len(fs) - 1 : fs2[i] = fs[i]
          /\ StackFits(fs2, present)
    BY <1>1, <1>2, <1>3, TopIsReplaced DEF StackOf
<1> QED
    BY <1>2, <1>4 DEF StackOf, WithTop, AtStage, f

LEMMA CaseUndoesOne ==
    ASSUME NEW present \in Environments, NEW fs, StackOf(fs, present), fs # <<>>,
           fs[Len(fs)].stage = "undo", fs[Len(fs)].undo # <<>>
    PROVE  LET top == fs[Len(fs)]
               one == top.undo[Len(top.undo)]
               f == OneUndone(top)
           IN  /\ [present EXCEPT ![one.key] = one.old] \in Environments
               /\ StackOf(WithTop(fs, f), [present EXCEPT ![one.key] = one.old])
               /\ Len(WithTop(fs, f)) = Len(fs) /\ f.stage = "undo" /\ WithTop(fs, f)[Len(fs)] = f
               /\ \A i \in 1 .. Len(fs) - 1 : WithTop(fs, f)[i] = fs[i]
<1> DEFINE top == fs[Len(fs)]
           one == top.undo[Len(top.undo)]
           fewer == SubSeq(top.undo, 1, Len(top.undo) - 1)
           then == [present EXCEPT ![one.key] = one.old]
           f == [top EXCEPT !.undo = fewer]
<1>1. top \in PatchFrame /\ TopFits(top, present) /\ Nested(fs)
    <2>1. Len(fs) \in 1 .. Len(fs) /\ Len(fs) > 0
        BY DEF StackOf
    <2> QED
        BY <2>1 DEF StackOf, StackFits
<1>2. /\ top.undo \in Seq(UndoEntry) /\ top.entry \in Environments /\ top.undo # <<>>
      /\ LeadsBack(top.undo, present, top.entry) /\ top.stage = "undo"
    BY <1>1 DEF PatchFrame, TopFits
<1> HIDE DEF top
<1>3. /\ fewer \in Seq(UndoEntry) /\ then \in Environments
      /\ LeadsBack(fewer, then, top.entry)
    BY <1>2, UndoneInOrder
<1> HIDE DEF fewer, then
<1>4. f \in PatchFrame /\ f.undo = fewer /\ f.entry = top.entry /\ f.stage = "undo"
    BY <1>1, <1>2, <1>3 DEF PatchFrame
<1> HIDE DEF f
<1>5. TopFits(f, then)
    BY <1>3, <1>4 DEF TopFits
<1>6. LET fs2 == [fs EXCEPT ![Len(fs)] = f]
      IN  /\ fs2 \in Seq(PatchFrame) /\ Len(fs2) = Len(fs) /\ fs2[Len(fs)] = f
          /\ \A i \in 1 .. Len(fs) - 1 : fs2[i] = fs[i]
          /\ StackFits(fs2, then)
    BY <1>1, <1>4, <1>5, TopIsReplaced DEF StackOf, top
<1> QED
    BY <1>3, <1>4, <1>6 DEF StackOf, WithTop, OneUndone, f, fewer, then, top


-----------------------------------------------------------------------------
(***************************************************************************)
(* The locks let one thread at a time be inside a case; its stack fits the *)
(* environment, and all the others have none.                              *)
(***************************************************************************)
PatchInv ==
    /\ active \subseteq Threads /\ env \in Environments
    /\ done \in [Threads -> 0 .. MaxCases]
    /\ frames = [t \in Threads |-> frames[t]]
    /\ \A t \in Threads : StackOf(frames[t], env) /\ Len(frames[t]) <= MaxDepth
    /\ \A t \in Threads : frames[t] # <<>> => t \in active /\ done[t] > 0
    /\ \A t, u \in Threads : frames[t] # <<>> /\ frames[u] # <<>> => t = u

LEMMA EmptyStack ==
    ASSUME NEW present
    PROVE  StackOf(<<>>, present)
    BY DEF StackOf, StackFits, Nested

LEMMA StackMoves ==
    ASSUME PatchInv, NEW t \in active, NEW fs, frames' = [frames EXCEPT ![t] = fs],
           UNCHANGED active, env' \in Environments, StackOf(fs, env'), Len(fs) <= MaxDepth,
           done' \in [Threads -> 0 .. MaxCases], \A u \in Threads \ {t} : done'[u] = done[u],
           fs # <<>> => done'[t] > 0,
           fs # <<>> \/ env' # env => \A u \in Threads \ {t} : frames[u] = <<>>
    PROVE  PatchInv'
<1>1. t \in Threads
    BY DEF PatchInv
<1>2. /\ frames' = [u \in Threads |-> frames'[u]] /\ frames'[t] = fs
      /\ \A u \in Threads \ {t} : frames'[u] = frames[u]
    BY <1>1 DEF PatchInv
<1>3. ASSUME NEW u \in Threads PROVE StackOf(frames'[u], env') /\ Len(frames'[u]) <= MaxDepth
    <2>1. CASE u = t
        BY <1>2, <2>1
    <2>2. CASE u # t /\ env' = env
        BY <1>2, <2>2 DEF PatchInv
    <2>3. CASE u # t /\ env' # env
        <3>1. frames'[u] = <<>> /\ frames[u] = <<>>
            BY <1>2, <2>3
        <3>2. Len(frames'[u]) <= MaxDepth
            BY <3>1 DEF PatchInv
        <3> QED
            BY <3>1, <3>2, EmptyStack
    <2> QED
        BY <2>1, <2>2, <2>3
<1>4. \A u \in Threads : frames'[u] # <<>> => u \in active' /\ done'[u] > 0
    BY <1>2 DEF PatchInv
<1>5. \A u, v \in Threads : frames'[u] # <<>> /\ frames'[v] # <<>> => u = v
    BY <1>2 DEF PatchInv
<1>6. active' \subseteq Threads
    BY DEF PatchInv
<1> QED
    BY <1>2, <1>3, <1>4, <1>5, <1>6 DEF PatchInv

(***************************************************************************)
(* What the actions say of the stack of their thread.                      *)
(***************************************************************************)
LEMMA Holds ==
    ASSUME PatchInv, NEW t \in active, frames[t] # <<>>
    PROVE  /\ t \in Threads /\ StackOf(frames[t], env) /\ Effects!Depth(t) = Len(frames[t])
           /\ Effects!Top(t) = frames[t][Len(frames[t])] /\ Len(frames[t]) \in 1 .. MaxDepth
           /\ done[t] > 0 /\ \A u \in Threads \ {t} : frames[u] = <<>>
<1>1. t \in Threads
    BY DEF PatchInv
<1>2. /\ StackOf(frames[t], env) /\ Len(frames[t]) <= MaxDepth /\ done[t] > 0
      /\ \A u \in Threads \ {t} : frames[u] = <<>>
    BY <1>1 DEF PatchInv
<1>3. Len(frames[t]) \in Nat \ {0}
    BY <1>2 DEF StackOf
<1>4. MaxDepth \in Nat
    BY KeptStateAssumption DEF Effects!SideEffectsAssumption
<1> QED
    BY <1>1, <1>2, <1>3, <1>4 DEF Effects!Depth, Effects!Top

LEMMA TopSet ==
    ASSUME PatchInv, NEW t \in active, frames[t] # <<>>, NEW f, Effects!SetTop(t, f)
    PROVE  frames' = [frames EXCEPT ![t] = WithTop(frames[t], f)] /\ frames'[t] = WithTop(frames[t], f)
<1>1. frames' = [frames EXCEPT ![t] = WithTop(frames[t], f)]
    BY DEF Effects!SetTop, Effects!Depth, WithTop
<1> QED
    BY <1>1, Holds DEF PatchInv

LEMMA StageGoes ==
    ASSUME PatchInv, NEW t \in active, frames[t] # <<>>, Effects!Top(t).stage # "undo",
           NEW stage \in {"main", "after", "undo"},
           Effects!SetTop(t, [Effects!Top(t) EXCEPT !.stage = stage]), UNCHANGED <<active, env, done>>
    PROVE  /\ PatchInv' /\ Len(frames'[t]) = Len(frames[t])
           /\ frames'[t][Len(frames[t])].stage = stage
           /\ \A i \in 1 .. Len(frames[t]) - 1 : frames'[t][i] = frames[t][i]
<1>1. env \in Environments /\ done \in [Threads -> 0 .. MaxCases]
    BY DEF PatchInv
<1>2. StackOf(frames[t], env) /\ Effects!Top(t) = frames[t][Len(frames[t])]
    BY Holds
<1> DEFINE f == AtStage(frames[t][Len(frames[t])], stage)
           fs2 == WithTop(frames[t], f)
<1>3. f = [Effects!Top(t) EXCEPT !.stage = stage]
    BY <1>2 DEF AtStage
<1>4. frames' = [frames EXCEPT ![t] = fs2] /\ frames'[t] = fs2
    BY <1>3, TopSet
<1>5. /\ StackOf(fs2, env) /\ Len(fs2) = Len(frames[t]) /\ f.stage = stage
      /\ fs2[Len(frames[t])] = f /\ \A i \in 1 .. Len(frames[t]) - 1 : fs2[i] = frames[t][i]
    BY <1>1, <1>2, CaseGoesTo
<1> HIDE DEF fs2, f
<1>6. fs2 # <<>> /\ Len(fs2) <= MaxDepth /\ done[t] > 0
    BY <1>5, Holds
<1>7. PatchInv'
    BY <1>1, <1>4, <1>5, <1>6, Holds, StackMoves
<1> QED
    BY <1>4, <1>5, <1>7

LEMMA RemovedLast ==
    ASSUME NEW S, NEW s \in Seq(S), s # <<>>
    PROVE  Effects!RemoveAt(s, Len(s)) = SubSeq(s, 1, Len(s) - 1)
<1>1. PICK n \in Nat : n = Len(s) - 1
    OBVIOUS
<1> DEFINE rest == SubSeq(s, 1, n)
<1>2. rest \in Seq(S)
    BY <1>1
<1>3. SubSeq(s, Len(s) + 1, Len(s)) = <<>>
    OBVIOUS
<1>4. rest \o <<>> = rest
    BY <1>2
<1> QED
    BY <1>1, <1>3, <1>4 DEF Effects!RemoveAt


LEMMA Entering ==
    ASSUME PatchInv, NEW t \in active, Effects!Enter(t)
    PROVE  /\ PatchInv' /\ Len(frames'[t]) = Len(frames[t]) + 1
           /\ \A i \in 1 .. Len(frames[t]) : frames'[t][i] = frames[t][i]
           /\ frames[t] = <<>> => frames'[t][1].stage = "setup" /\ done'[t] = done[t] + 1
           /\ frames[t] # <<>> => done' = done
<1>1. /\ t \in Threads /\ StackOf(frames[t], env) /\ env \in Environments
      /\ done \in [Threads -> 0 .. MaxCases] /\ MaxDepth \in Nat /\ MaxCases \in Nat
    BY KeptStateAssumption DEF PatchInv, Effects!SideEffectsAssumption
<1>2. /\ frames' = [frames EXCEPT ![t] = Append(@, Begun(env))] /\ UNCHANGED <<active, env>>
      /\ done' = [done EXCEPT ![t] = IF Effects!Depth(t) = 0 THEN @ + 1 ELSE @]
      /\ Len(frames[t]) < MaxDepth /\ (Len(frames[t]) = 0 => done[t] < MaxCases)
      /\ \A x \in Threads \ {t} : Len(frames[x]) = 0
      /\ Len(frames[t]) > 0 => frames[t][Len(frames[t])].stage = "main"
    BY DEF Effects!Enter, Effects!InMain, Effects!LockFree, Effects!Depth, Effects!Top, Begun
<1> DEFINE fs2 == Append(frames[t], Begun(env))
<1>3. /\ fs2 \in Seq(PatchFrame) /\ Len(fs2) = Len(frames[t]) + 1 /\ Len(frames[t]) \in Nat
      /\ \A i \in 1 .. Len(frames[t]) : fs2[i] = frames[t][i]
      /\ fs2[Len(frames[t]) + 1] = Begun(env) /\ StackFits(fs2, env)
    BY <1>1, <1>2, CaseIsBegun DEF StackOf
<1>4. \A x \in Threads \ {t} : frames[x] = <<>>
    <2>1. \A x \in Threads : frames[x] \in Seq(PatchFrame)
        BY DEF PatchInv, StackOf
    <2> QED
        BY <1>2, <2>1
<1>5. frames' = [frames EXCEPT ![t] = fs2] /\ frames'[t] = fs2
    BY <1>1, <1>2 DEF PatchInv
<1> HIDE DEF fs2
<1>6. /\ done' \in [Threads -> 0 .. MaxCases] /\ \A u \in Threads \ {t} : done'[u] = done[u]
      /\ frames[t] = <<>> => done'[t] = done[t] + 1
      /\ frames[t] # <<>> => done' = done /\ done[t] > 0
    <2>1. CASE frames[t] = <<>>
        BY <1>1, <1>2, <2>1 DEF Effects!Depth
    <2>2. CASE frames[t] # <<>>
        <3>1. Effects!Depth(t) # 0 /\ done[t] > 0
            BY <2>2, Holds
        <3> QED
            BY <1>1, <1>2, <2>2, <3>1
    <2> QED
        BY <2>1, <2>2
<1>7. done'[t] > 0 /\ Len(fs2) <= MaxDepth
    BY <1>1, <1>2, <1>3, <1>6
<1>8. PatchInv'
    BY <1>1, <1>2, <1>3, <1>4, <1>5, <1>6, <1>7, StackMoves DEF StackOf
<1>9. frames[t] = <<>> => fs2[1].stage = "setup"
    BY <1>3 DEF Begun
<1> QED
    BY <1>3, <1>5, <1>6, <1>8, <1>9

LEMMA Patching ==
    ASSUME PatchInv, NEW t \in active, NEW name \in Keys, NEW value \in EnvValues,
           Effects!Patch(t, name, value)
    PROVE  /\ PatchInv' /\ frames[t] # <<>> /\ Len(frames'[t]) = Len(frames[t])
           /\ frames'[t][Len(frames[t])].stage = "setup"
           /\ frames[t][Len(frames[t])].stage = "setup"
           /\ \A i \in 1 .. Len(frames[t]) - 1 : frames'[t][i] = frames[t][i]
<1>0. frames[t] # <<>>
    BY DEF Effects!Patch, Effects!Depth
<1>1. env \in Environments /\ done \in [Threads -> 0 .. MaxCases]
    BY DEF PatchInv
<1>2. StackOf(frames[t], env) /\ Effects!Top(t) = frames[t][Len(frames[t])]
    BY <1>0, Holds
<1> DEFINE f == Patched(frames[t][Len(frames[t])], name, env[name], value)
           fs2 == WithTop(frames[t], f)
<1>3. /\ env' = [env EXCEPT ![name] = value] /\ UNCHANGED <<active, done>>
      /\ frames[t][Len(frames[t])].stage = "setup" /\ Effects!SetTop(t, f)
    BY <1>2 DEF Effects!Patch, Patched
<1>4. frames' = [frames EXCEPT ![t] = fs2] /\ frames'[t] = fs2
    BY <1>0, <1>3, TopSet
<1>5. /\ env' \in Environments /\ StackOf(fs2, env') /\ Len(fs2) = Len(frames[t])
      /\ f.stage = "setup" /\ fs2[Len(frames[t])] = f
      /\ \A i \in 1 .. Len(frames[t]) - 1 : fs2[i] = frames[t][i]
    <2>1. [env EXCEPT ![name] = value] \in Environments
          /\ StackOf(fs2, [env EXCEPT ![name] = value])
        BY <1>0, <1>1, <1>2, <1>3, CasePatches
    <2>2. /\ Len(fs2) = Len(frames[t]) /\ f.stage = "setup" /\ fs2[Len(frames[t])] = f
          /\ \A i \in 1 .. Len(frames[t]) - 1 : fs2[i] = frames[t][i]
        BY <1>0, <1>1, <1>2, <1>3, CasePatches
    <2> HIDE DEF fs2, f
    <2> QED
        BY <1>3, <2>1, <2>2
<1> HIDE DEF fs2, f
<1>6. fs2 # <<>> /\ Len(fs2) <= MaxDepth /\ done[t] > 0
    BY <1>0, <1>5, Holds
<1>7. PatchInv'
    BY <1>0, <1>1, <1>3, <1>4, <1>5, <1>6, Holds, StackMoves
<1> QED
    BY <1>0, <1>3, <1>4, <1>5, <1>7

LEMMA Undoing ==
    ASSUME PatchInv, NEW t \in active, Effects!Undo(t)
    PROVE  /\ PatchInv' /\ frames[t] # <<>> /\ Len(frames'[t]) = Len(frames[t])
           /\ frames'[t][Len(frames[t])].stage = "undo"
           /\ \A i \in 1 .. Len(frames[t]) - 1 : frames'[t][i] = frames[t][i]
<1>0. frames[t] # <<>>
    BY DEF Effects!Undo, Effects!Depth
<1>1. env \in Environments /\ done \in [Threads -> 0 .. MaxCases]
    BY DEF PatchInv
<1> DEFINE top == frames[t][Len(frames[t])]
           one == top.undo[Len(top.undo)]
           f == OneUndone(top)
           fs2 == WithTop(frames[t], f)
<1>2. StackOf(frames[t], env) /\ Effects!Top(t) = top
    BY <1>0, Holds
<1>3. top.stage = "undo" /\ top.undo # <<>> /\ UNCHANGED <<active, done>>
    BY <1>2 DEF Effects!Undo
<1>4. top.undo \in Seq(UndoEntry)
    <2>1. top \in PatchFrame
        BY <1>0, <1>2 DEF StackOf
    <2> QED
        BY <2>1 DEF PatchFrame
<1>5. Effects!RemoveAt(top.undo, Len(top.undo)) = SubSeq(top.undo, 1, Len(top.undo) - 1)
    BY <1>3, <1>4, RemovedLast
<1>6. env' = [env EXCEPT ![one.key] = one.old]
    BY <1>2 DEF Effects!Undo, Effects!NextUndo
<1>7. Effects!SetTop(t, f)
    BY <1>2, <1>5 DEF Effects!Undo, Effects!NextUndo, OneUndone
<1>8. frames' = [frames EXCEPT ![t] = fs2] /\ frames'[t] = fs2
    BY <1>0, <1>7, TopSet
<1>9. /\ env' \in Environments /\ StackOf(fs2, env') /\ Len(fs2) = Len(frames[t])
      /\ f.stage = "undo" /\ fs2[Len(frames[t])] = f
      /\ \A i \in 1 .. Len(frames[t]) - 1 : fs2[i] = frames[t][i]
    BY <1>0, <1>1, <1>2, <1>3, <1>6, CaseUndoesOne
<1> HIDE DEF fs2, f, one, top
<1>10. fs2 # <<>> /\ Len(fs2) <= MaxDepth /\ done[t] > 0
    BY <1>0, <1>9, Holds
<1>11. PatchInv'
    BY <1>0, <1>1, <1>3, <1>8, <1>9, <1>10, Holds, StackMoves
<1> QED
    BY <1>0, <1>8, <1>9, <1>11

LEMMA Releasing ==
    ASSUME PatchInv, NEW t \in active, Effects!Release(t)
    PROVE  /\ PatchInv' /\ frames[t] # <<>> /\ Len(frames'[t]) = Len(frames[t]) - 1
           /\ \A i \in 1 .. Len(frames[t]) - 1 : frames'[t][i] = frames[t][i]
           /\ env' = frames[t][Len(frames[t])].entry
           /\ \A u \in Threads \ {t} : frames'[u] = frames[u]
<1>0. frames[t] # <<>>
    BY DEF Effects!Release, Effects!Depth
<1>1. env \in Environments /\ done \in [Threads -> 0 .. MaxCases]
    BY DEF PatchInv
<1> DEFINE top == frames[t][Len(frames[t])]
           rest == SubSeq(frames[t], 1, Len(frames[t]) - 1)
<1>2. StackOf(frames[t], env) /\ Effects!Top(t) = top
    BY <1>0, Holds
<1>3. top.stage = "undo" /\ top.undo = <<>> /\ UNCHANGED <<active, env, done>>
    BY <1>2 DEF Effects!Release
<1>4. frames' = [frames EXCEPT ![t] = rest] /\ frames'[t] = rest
      /\ \A u \in Threads \ {t} : frames'[u] = frames[u]
    BY <1>0, Holds DEF Effects!Release, Effects!Front, PatchInv
<1>5. /\ env = top.entry /\ StackOf(rest, env) /\ Len(rest) = Len(frames[t]) - 1
      /\ \A i \in 1 .. Len(frames[t]) - 1 : rest[i] = frames[t][i]
    BY <1>0, <1>1, <1>2, <1>3, CaseIsLeft DEF StackOf
<1> HIDE DEF top, rest
<1>6. Len(rest) <= MaxDepth /\ done[t] > 0
    <2>1. MaxDepth \in Nat
        BY KeptStateAssumption DEF Effects!SideEffectsAssumption
    <2> QED
        BY <1>0, <1>5, <2>1, Holds
<1>7. PatchInv'
    BY <1>0, <1>1, <1>3, <1>4, <1>5, <1>6, Holds, StackMoves
<1> QED
    BY <1>0, <1>3, <1>4, <1>5, <1>7 DEF top


(***************************************************************************)
(* What is printed: nothing in the buffer is of a later case, what is in   *)
(* it of a case that has read is what that printed after it read, and a    *)
(* case that is in its entrypoint has printed and has not read.            *)
(***************************************************************************)
OuterStage(fs) == IF fs = <<>> THEN "none" ELSE fs[1].stage
ReadBy(m, found, by) ==
    /\ \A c \in by : c <= m
    /\ [case |-> m, part |-> "main"] \in found
    /\ \A x \in found : x.case \in by \ {m} => x.part = "late"
OutputFits(stage, d, unread, found, by) ==
    /\ \A x \in unread : x.case \in Nat /\ x.case <= d /\ (x.case \in by => x.part = "late")
    /\ \A c \in by : c \in Nat /\ c <= d
    /\ stage \in {"setup", "main"} => d \notin by
    /\ stage = "main" => [case |-> d, part |-> "main"] \in unread
    /\ by # {} => \E m \in by : ReadBy(m, found, by)
OutputInv ==
    /\ \A x \in buffer \cup seen : x.case \in 1 .. MaxCases
    /\ readers \subseteq 1 .. MaxCases
    /\ ~Effects!Single => readers = {}
    /\ \A t \in active :
         Effects!Single => OutputFits(OuterStage(frames[t]), done[t], buffer, seen, readers)
EffectsInv == PatchInv /\ OutputInv
EffectsPart == part = "effects" => EffectsInv

LEMMA SingleThread ==
    ASSUME PatchInv, Effects!Single, NEW t \in active, NEW u \in active
    PROVE  t = u
<1>1. IsFiniteSet(active)
    BY KeptStateAssumption, FS_Subset
    DEF PatchInv, Effects!SideEffectsAssumption, Effects!IsFiniteSet, IsFiniteSet
<1>2. Effects!Cardinality(active) = Cardinality(active)
    BY DEF Effects!Cardinality, Cardinality
<1>3. Cardinality(active) = 1
    BY <1>2 DEF Effects!Single
<1> QED
    BY <1>1, <1>3, FS_Singleton

LEMMA OutputStays ==
    ASSUME NEW d, NEW unread, NEW found, NEW by, NEW old, NEW new,
           OutputFits(old, d, unread, found, by), new = old \/ new \notin {"setup", "main"}
    PROVE  OutputFits(new, d, unread, found, by)
    BY DEF OutputFits

LEMMA OutputBegins ==
    ASSUME NEW d \in Nat, NEW unread, NEW found, NEW by, NEW old,
           OutputFits(old, d, unread, found, by)
    PROVE  OutputFits("setup", d + 1, unread, found, by)
<1>1. \A x \in unread : x.case \in Nat /\ x.case <= d + 1 /\ (x.case \in by => x.part = "late")
    BY DEF OutputFits
<1>2. (\A c \in by : c \in Nat /\ c <= d + 1) /\ d + 1 \notin by
    BY DEF OutputFits
<1> QED
    BY <1>1, <1>2 DEF OutputFits

LEMMA OutputPrinted ==
    ASSUME NEW d \in Nat, NEW unread, NEW found, NEW by,
           OutputFits("setup", d, unread, found, by)
    PROVE  OutputFits("main", d, unread \cup {[case |-> d, part |-> "main"]}, found, by)
<1>1. [case |-> d, part |-> "main"].case = d
    OBVIOUS
<1> QED
    BY <1>1 DEF OutputFits

LEMMA OutputLate ==
    ASSUME NEW d \in Nat, NEW unread, NEW found, NEW by, NEW old, NEW new, new \notin {"setup", "main"},
           OutputFits(old, d, unread, found, by)
    PROVE  OutputFits(new, d, unread \cup {[case |-> d, part |-> "late"]}, found, by)
<1>1. [case |-> d, part |-> "late"].case = d /\ [case |-> d, part |-> "late"].part = "late"
    OBVIOUS
<1> QED
    BY <1>1 DEF OutputFits

LEMMA OutputRead ==
    ASSUME NEW d \in Nat, NEW unread, NEW found, NEW by, NEW new, new \notin {"setup", "main"},
           OutputFits("main", d, unread, found, by)
    PROVE  OutputFits(new, d, {}, unread, by \cup {d})
<1>1. ReadBy(d, unread, by \cup {d})
    BY DEF OutputFits, ReadBy
<1> QED
    BY <1>1 DEF OutputFits

LEMMA OutputIsRead ==
    ASSUME OutputInv, PatchInv
    PROVE  Effects!SeenIsOwnOrUnread
<1> SUFFICES ASSUME readers # {} PROVE Effects!SeenIsOwnOrUnread
    BY DEF Effects!SeenIsOwnOrUnread
<1>1. Effects!Single
    BY DEF OutputInv
<1>2. \E t : t \in active
    <2>1. active # {}
        <3>1. Effects!Cardinality({}) = Cardinality({})
            BY DEF Effects!Cardinality, Cardinality
        <3> QED
            BY <1>1, <3>1, FS_EmptySet DEF Effects!Single
    <2> QED
        BY <2>1
<1>3. PICK m \in readers : ReadBy(m, seen, readers)
    BY <1>1, <1>2 DEF OutputInv, OutputFits
<1>4. \A c \in readers : c \in Nat
    BY DEF OutputInv
<1>5. ASSUME NEW c \in readers, \A x \in readers : x <= c PROVE c = m
    <2>1. c <= m /\ m <= c
        BY <1>3, <1>5 DEF ReadBy
    <2> QED
        BY <1>4, <2>1
<1>6. (CHOOSE c \in readers : \A x \in readers : x <= c) = m
    BY <1>3, <1>5 DEF ReadBy
<1> QED
    BY <1>3, <1>6 DEF Effects!SeenIsOwnOrUnread, ReadBy


LEMMA OutputMoves ==
    ASSUME PatchInv, OutputInv, NEW t \in active, UNCHANGED active,
           \A x \in buffer' \cup seen' : x.case \in 1 .. MaxCases, readers' \subseteq 1 .. MaxCases,
           ~Effects!Single => UNCHANGED readers,
           Effects!Single => OutputFits(OuterStage(frames'[t]), done'[t], buffer', seen', readers')
    PROVE  OutputInv'
<1>1. Effects!Single' = Effects!Single
    BY DEF Effects!Single
<1>2. ~Effects!Single => readers' = {}
    BY DEF OutputInv
<1>3. ASSUME NEW u \in active', Effects!Single
      PROVE  OutputFits(OuterStage(frames[u]), done[u], buffer, seen, readers)'
    <2>1. u = t
        BY <1>3, SingleThread
    <2> QED
        BY <1>3, <2>1 DEF OutputFits, OuterStage, ReadBy
<1> QED
    BY <1>1, <1>2, <1>3 DEF OutputInv

(***************************************************************************)
(* A step that neither prints nor reads, and leaves the outermost case     *)
(* where it is or takes it out of setup and entrypoint.                    *)
(***************************************************************************)
LEMMA SilentStep ==
    ASSUME PatchInv, OutputInv, NEW t \in active, UNCHANGED <<active, done, buffer, seen, readers>>,
           \/ OuterStage(frames'[t]) = OuterStage(frames[t])
           \/ OuterStage(frames'[t]) \notin {"setup", "main"}
    PROVE  OutputInv'
<1>1. Effects!Single => OutputFits(OuterStage(frames'[t]), done[t], buffer, seen, readers)
    BY OutputStays DEF OutputInv
<1> QED
    BY <1>1, OutputMoves DEF OutputInv

LEMMA OuterMoves ==
    ASSUME NEW fs, NEW fs2, NEW n \in Nat \ {0}, fs # <<>>, fs2 # <<>>, Len(fs) = n,
           \A i \in 1 .. n - 1 : fs2[i] = fs[i]
    PROVE  /\ n # 1 => OuterStage(fs2) = OuterStage(fs)
           /\ n = 1 => OuterStage(fs2) = fs2[n].stage /\ OuterStage(fs) = fs[n].stage
    BY DEF OuterStage

LEMMA Outermost ==
    ASSUME PatchInv, NEW t \in active, frames[t] # <<>>, PatchInv', active' = active,
           Len(frames'[t]) = Len(frames[t]),
           \A i \in 1 .. Len(frames[t]) - 1 : frames'[t][i] = frames[t][i]
    PROVE  LET n == Len(frames[t]) IN
           /\ n # 1 => OuterStage(frames'[t]) = OuterStage(frames[t])
           /\ n = 1 => /\ OuterStage(frames'[t]) = frames'[t][n].stage
                       /\ OuterStage(frames[t]) = frames[t][n].stage
<1>1. Len(frames[t]) \in Nat \ {0}
    BY Holds
<1>2. frames'[t] # <<>>
    BY <1>1
<1> QED
    BY <1>1, <1>2, OuterMoves

LEMMA EnvironmentSteps ==
    ASSUME EffectsInv, NEW t \in active,
           \/ Effects!Enter(t) \/ Effects!SetupFails(t) \/ Effects!MainRaises(t)
           \/ Effects!Undo(t) \/ Effects!Release(t)
           \/ \E name \in Keys, value \in EnvValues : Effects!Patch(t, name, value)
    PROVE  EffectsInv'
<1> USE DEF EffectsInv
<1>1. CASE Effects!Enter(t)
    <2>1. UNCHANGED <<active, buffer, seen, readers>> /\ t \in Threads /\ done[t] \in Nat
        BY <1>1 DEF Effects!Enter, PatchInv
    <2>2. CASE frames[t] = <<>>
        <3>1. OuterStage(frames[t]) = "none" /\ OuterStage(frames'[t]) = "setup" /\ done'[t] = done[t] + 1
            BY <1>1, <2>2, Entering DEF OuterStage
        <3>2. Effects!Single => OutputFits("setup", done[t] + 1, buffer, seen, readers)
            BY <2>1, OutputBegins DEF OutputInv
        <3>3. OutputInv'
            BY <2>1, <3>1, <3>2, OutputMoves DEF OutputInv
        <3> QED
            BY <1>1, <3>3, Entering
    <2>3. CASE frames[t] # <<>>
        <3>1. Len(frames[t]) \in Nat \ {0}
            BY <2>3, Holds
        <3>2. Len(frames'[t]) = Len(frames[t]) + 1 /\ frames'[t][1] = frames[t][1] /\ done' = done
            BY <1>1, <2>3, <3>1, Entering
        <3>3. frames'[t] # <<>>
            BY <3>1, <3>2
        <3>4. OuterStage(frames'[t]) = OuterStage(frames[t])
            BY <2>3, <3>2, <3>3 DEF OuterStage
        <3>5. OutputInv'
            BY <2>1, <3>2, <3>4, SilentStep
        <3> QED
            BY <1>1, <3>5, Entering
    <2> QED
        BY <2>2, <2>3
<1>2. CASE Effects!SetupFails(t) \/ Effects!MainRaises(t)
    <2>1. /\ UNCHANGED <<active, env, done, buffer, seen, readers>> /\ frames[t] # <<>>
          /\ Effects!Top(t).stage # "undo"
          /\ Effects!SetTop(t, [Effects!Top(t) EXCEPT !.stage = "undo"])
        BY <1>2 DEF Effects!SetupFails, Effects!MainRaises, Effects!Leave, Effects!Depth
    <2>2. /\ PatchInv' /\ Len(frames'[t]) = Len(frames[t])
          /\ frames'[t][Len(frames[t])].stage = "undo"
          /\ \A i \in 1 .. Len(frames[t]) - 1 : frames'[t][i] = frames[t][i]
        BY <2>1, StageGoes
    <2>3. OutputInv'
        BY <2>1, <2>2, Outermost, SilentStep
    <2> QED
        BY <2>2, <2>3
<1>3. CASE Effects!Undo(t)
    <2>1. UNCHANGED <<active, done, buffer, seen, readers>>
        BY <1>3 DEF Effects!Undo
    <2>2. OutputInv'
        BY <1>3, <2>1, Undoing, Outermost, SilentStep
    <2> QED
        BY <1>3, <2>2, Undoing
<1>4. CASE Effects!Release(t)
    <2>1. UNCHANGED <<active, done, buffer, seen, readers>> /\ frames[t] # <<>>
        BY <1>4, Releasing DEF Effects!Release
    <2>2. /\ Len(frames'[t]) = Len(frames[t]) - 1 /\ Len(frames[t]) \in Nat \ {0}
          /\ \A i \in 1 .. Len(frames[t]) - 1 : frames'[t][i] = frames[t][i]
        BY <1>4, <2>1, Releasing, Holds
    <2>3. \/ OuterStage(frames'[t]) = OuterStage(frames[t])
          \/ OuterStage(frames'[t]) \notin {"setup", "main"}
        BY <2>1, <2>2 DEF OuterStage
    <2>4. OutputInv'
        BY <2>1, <2>3, SilentStep
    <2> QED
        BY <1>4, <2>4, Releasing
<1>5. CASE \E name \in Keys, value \in EnvValues : Effects!Patch(t, name, value)
    <2>1. PICK name \in Keys, value \in EnvValues : Effects!Patch(t, name, value)
        BY <1>5
    <2>2. UNCHANGED <<active, done, buffer, seen, readers>>
        BY <2>1 DEF Effects!Patch
    <2>3. /\ PatchInv' /\ frames[t] # <<>> /\ Len(frames'[t]) = Len(frames[t])
          /\ frames'[t][Len(frames[t])].stage = frames[t][Len(frames[t])].stage
          /\ \A i \in 1 .. Len(frames[t]) - 1 : frames'[t][i] = frames[t][i]
        BY <2>1, Patching
    <2>4. OutputInv'
        BY <2>2, <2>3, Outermost, SilentStep
    <2> QED
        BY <2>3, <2>4
<1> QED
    BY <1>1, <1>2, <1>3, <1>4, <1>5

LEMMA OutputSteps ==
    ASSUME EffectsInv, NEW t \in active,
           Effects!Call(t) \/ Effects!ReadCapture(t) \/ Effects!End(t)
    PROVE  EffectsInv'
<1> USE DEF EffectsInv
<1>1. /\ UNCHANGED <<active, env, done>> /\ frames[t] # <<>> /\ Effects!Top(t).stage # "undo"
      /\ Effects!Top(t).stage = "main" \/ UNCHANGED <<seen, readers>>
    BY DEF Effects!Call, Effects!ReadCapture, Effects!End, Effects!Depth
<1>2. /\ t \in Threads /\ done[t] \in 1 .. MaxCases /\ done[t] \in Nat
      /\ Effects!Depth(t) = Len(frames[t])
      /\ Effects!Top(t) = frames[t][Len(frames[t])] /\ Len(frames[t]) \in Nat \ {0}
    <2>1. MaxCases \in Nat /\ done \in [Threads -> 0 .. MaxCases]
        BY KeptStateAssumption DEF PatchInv, Effects!SideEffectsAssumption
    <2>2. t \in Threads /\ done[t] > 0
        BY <1>1, Holds
    <2>3. done[t] \in 1 .. MaxCases /\ done[t] \in Nat
        BY <2>1, <2>2
    <2> QED
        BY <1>1, <2>2, <2>3, Holds
<1>3. PICK stage \in {"main", "after", "undo"} :
        /\ Effects!SetTop(t, [Effects!Top(t) EXCEPT !.stage = stage])
        /\ Effects!Call(t) <=> stage = "main"
    BY <1>1 DEF Effects!Call, Effects!ReadCapture, Effects!End, Effects!Leave
<1>4. /\ PatchInv' /\ Len(frames'[t]) = Len(frames[t])
      /\ frames'[t][Len(frames[t])].stage = stage
      /\ \A i \in 1 .. Len(frames[t]) - 1 : frames'[t][i] = frames[t][i]
    BY <1>1, <1>3, StageGoes
<1>5. CASE ~Effects!Single \/ Len(frames[t]) # 1
    <2>1. UNCHANGED <<buffer, seen, readers>>
        BY <1>2, <1>5 DEF Effects!Call, Effects!ReadCapture, Effects!End, Effects!Output
    <2>2. OuterStage(frames'[t]) = OuterStage(frames[t]) \/ ~Effects!Single
        BY <1>1, <1>4, <1>5, Outermost
    <2>3. Effects!Single => OutputFits(OuterStage(frames'[t]), done[t], buffer, seen, readers)
        BY <2>2, OutputStays DEF OutputInv
    <2>4. OutputInv'
        BY <1>1, <2>1, <2>3, OutputMoves DEF OutputInv
    <2> QED
        BY <1>4, <2>4
<1>6. CASE Effects!Single /\ Len(frames[t]) = 1
    <2>1. /\ OuterStage(frames'[t]) = stage /\ OuterStage(frames[t]) = Effects!Top(t).stage
          /\ OutputFits(OuterStage(frames[t]), done[t], buffer, seen, readers)
        BY <1>1, <1>2, <1>4, <1>6, Outermost DEF OutputInv
    <2>2. CASE Effects!Call(t)
        <3>1. /\ stage = "main" /\ Effects!Top(t).stage = "setup" /\ UNCHANGED <<seen, readers>>
              /\ buffer' = buffer \cup {[case |-> done[t], part |-> "main"]}
            BY <1>2, <1>3, <1>6, <2>2 DEF Effects!Call, Effects!Output
        <3>2. OutputFits(OuterStage(frames'[t]), done'[t], buffer', seen', readers')
            BY <1>1, <1>2, <2>1, <3>1, OutputPrinted
        <3>3. \A x \in buffer' \cup seen' : x.case \in 1 .. MaxCases
            BY <1>2, <3>1 DEF OutputInv
        <3> QED
            BY <1>1, <1>4, <3>1, <3>2, <3>3, OutputMoves DEF OutputInv
    <2>3. CASE Effects!ReadCapture(t)
        <3>1. /\ Effects!Top(t).stage = "main" /\ seen' = buffer /\ buffer' = {}
              /\ readers' = readers \cup {done[t]}
            BY <1>2, <1>6, <2>3 DEF Effects!ReadCapture
        <3>2. stage \notin {"setup", "main"}
            BY <1>3, <3>1 DEF Effects!Call
        <3>3. OutputFits(OuterStage(frames'[t]), done'[t], buffer', seen', readers')
            BY <1>1, <1>2, <2>1, <3>1, <3>2, OutputRead
        <3>4. /\ \A x \in buffer' \cup seen' : x.case \in 1 .. MaxCases
              /\ readers' \subseteq 1 .. MaxCases
            BY <1>2, <3>1 DEF OutputInv
        <3> QED
            BY <1>1, <1>4, <1>6, <3>3, <3>4, OutputMoves
    <2>4. CASE Effects!End(t)
        <3>1. /\ Effects!Top(t).stage = "after" /\ UNCHANGED <<seen, readers>>
              /\ buffer' = buffer \/ buffer' = buffer \cup {[case |-> done[t], part |-> "late"]}
            BY <1>2, <1>6, <2>4 DEF Effects!End, Effects!Output
        <3>2. stage \notin {"setup", "main"}
            BY <1>3, <3>1 DEF Effects!Call
        <3>3. OutputFits(OuterStage(frames'[t]), done'[t], buffer', seen', readers')
            BY <1>1, <1>2, <2>1, <3>1, <3>2, OutputLate, OutputStays
        <3>4. \A x \in buffer' \cup seen' : x.case \in 1 .. MaxCases
            BY <1>2, <3>1 DEF OutputInv
        <3> QED
            BY <1>1, <1>4, <3>1, <3>3, <3>4, OutputMoves DEF OutputInv
    <2> QED
        BY <2>2, <2>3, <2>4
<1> QED
    BY <1>5, <1>6


LEMMA EffectsStart ==
    ASSUME Effects!Init
    PROVE  EffectsInv
<1>1. /\ active \subseteq Threads /\ env \in Environments /\ MaxCases \in Nat /\ MaxDepth \in Nat
      /\ frames = [t \in Threads |-> <<>>] /\ done = [t \in Threads |-> 0]
      /\ buffer = {} /\ seen = {} /\ readers = {}
    BY KeptStateAssumption
    DEF Effects!Init, Effects!SideEffectsAssumption, Environments, EnvValues
<1>2. \A t \in Threads : frames[t] = <<>> /\ StackOf(frames[t], env) /\ Len(frames[t]) <= MaxDepth
    BY <1>1, EmptyStack
<1>3. PatchInv
    BY <1>1, <1>2 DEF PatchInv
<1>4. \A t \in active : OuterStage(frames[t]) = "none"
    BY <1>1, <1>2 DEF OuterStage
<1>5. OutputInv
    BY <1>1, <1>4 DEF OutputInv, OutputFits
<1> QED
    BY <1>3, <1>5 DEF EffectsInv

LEMMA EffectsSteps ==
    ASSUME EffectsInv, Effects!Next
    PROVE  EffectsInv'
<1>1. PICK t \in active :
        \/ Effects!Enter(t) \/ Effects!SetupFails(t) \/ Effects!Call(t) \/ Effects!MainRaises(t)
        \/ Effects!ReadCapture(t) \/ Effects!End(t) \/ Effects!Undo(t) \/ Effects!Release(t)
        \/ \E name \in Keys, value \in EnvValues : Effects!Patch(t, name, value)
    BY DEF Effects!Next, EnvValues
<1> QED
    BY <1>1, EnvironmentSteps, OutputSteps

LEMMA EffectsGoOn == EffectsPart /\ [Next]_vars => EffectsPart'
<1> SUFFICES ASSUME EffectsPart, [Next]_vars, part' = "effects" PROVE EffectsInv'
    BY DEF EffectsPart
<1>1. part = "effects" /\ EffectsInv
    BY DEF EffectsPart, Next, vars
<1>2. CASE Effects!Next
    BY <1>1, <1>2, EffectsSteps
<1>3. CASE UNCHANGED vars
    BY <1>1, <1>3
    DEF vars, processVars, effectVars, EffectsInv, PatchInv, OutputInv, Effects!Single
<1> QED
    BY <1>1, <1>2, <1>3 DEF Next

(***************************************************************************)
(* The invariant of the process that cases patch and print in.             *)
(***************************************************************************)
LEMMA EffectsInvariant == Spec => []EffectsPart
<1>1. Init => EffectsPart
    BY EffectsStart DEF Init, EffectsPart
<1> QED
    BY <1>1, EffectsGoOn, PTL DEF Spec

LEMMA EffectsTypes ==
    ASSUME EffectsInv
    PROVE  Effects!TypeOK /\ Effects!EnvironmentIsOwn
<1>1. PatchInv /\ OutputInv
    BY DEF EffectsInv
<1>2. ASSUME NEW t \in Threads, NEW i \in 1 .. Len(frames[t])
      PROVE  /\ frames[t][i].stage \in {"setup", "main", "after", "undo"}
             /\ i < Len(frames[t]) => frames[t][i].stage = "main"
    <2>1. StackOf(frames[t], env)
        BY <1>1 DEF PatchInv
    <2>2. frames[t][i] \in PatchFrame /\ Len(frames[t]) \in Nat
        BY <2>1 DEF StackOf
    <2>3. i < Len(frames[t]) => frames[t][i].stage = "main"
        BY <2>1, <2>2 DEF StackOf, StackFits, Nested
    <2> QED
        BY <2>2, <2>3 DEF PatchFrame
<1>3. Effects!TypeOK
    BY <1>1, <1>2
    DEF PatchInv, OutputInv, Effects!TypeOK, Effects!Depth, Environments, EnvValues
<1>4. ASSUME NEW t \in Threads, Effects!Depth(t) > 0, Effects!Top(t).stage # "undo"
      PROVE  env = Effects!Top(t).wanted
    <2>1. StackFits(frames[t], env)
        BY <1>1 DEF PatchInv, StackOf
    <2> QED
        BY <1>4, <2>1 DEF StackFits, TopFits, Effects!Depth, Effects!Top
<1> QED
    BY <1>3, <1>4 DEF Effects!EnvironmentIsOwn

(***************************************************************************)
(* For any number of threads, patches and nested runs: while a cli.run     *)
(* case is set up and runs, the process is as it patched it, and the       *)
(* output it compares is its own, or what nobody could read before (run of *)
(* cli_run.py, MiniMonkeyPatch.context, MiniCapsys).                       *)
(***************************************************************************)
THEOREM ProcessesAreOwned == Spec => []ProcessIsOwn
<1>1. EffectsPart => ProcessIsOwn
    BY EffectsTypes, OutputIsRead DEF EffectsPart, EffectsInv, ProcessIsOwn
<1> QED
    BY <1>1, EffectsInvariant, PTL

LEMMA LeavingRestores ==
    ASSUME EffectsInv, Effects!Next
    PROVE  Effects!Restores
<1> SUFFICES ASSUME NEW t \in Threads, Len(frames'[t]) < Len(frames[t])
             PROVE  env' = Effects!Top(t).entry
    BY DEF Effects!Restores
<1>0. PatchInv /\ \A u \in Threads : Len(frames[u]) \in Nat
    BY DEF EffectsInv, PatchInv, StackOf
<1>1. PICK u \in active :
        \/ Effects!Enter(u) \/ Effects!SetupFails(u) \/ Effects!Call(u) \/ Effects!MainRaises(u)
        \/ Effects!ReadCapture(u) \/ Effects!End(u) \/ Effects!Undo(u) \/ Effects!Release(u)
        \/ \E name \in Keys, value \in EnvValues : Effects!Patch(u, name, value)
    BY DEF Effects!Next, EnvValues
<1>2. u \in Threads
    BY <1>0 DEF PatchInv
<1>3. CASE Effects!Release(u)
    <2>1. t = u
        BY <1>0, <1>3, Releasing
    <2> QED
        BY <1>0, <1>3, <2>1, Releasing, Holds
<1>4. CASE ~Effects!Release(u)
    <2>1. \A x \in Threads \ {u} : frames'[x] = frames[x]
        BY <1>0, <1>1, <1>2, <1>4
        DEF PatchInv, Effects!Enter, Effects!SetupFails, Effects!Call, Effects!MainRaises,
            Effects!ReadCapture, Effects!End, Effects!Undo, Effects!Patch, Effects!Leave,
            Effects!SetTop
    <2>2. Len(frames'[u]) >= Len(frames[u])
        <3>1. CASE Effects!Enter(u)
            BY <1>0, <1>2, <3>1, Entering
        <3>2. CASE Effects!Undo(u)
            BY <1>0, <1>2, <3>2, Undoing
        <3>3. CASE \E name \in Keys, value \in EnvValues : Effects!Patch(u, name, value)
            BY <1>0, <1>2, <3>3, Patching
        <3>4. CASE \/ Effects!SetupFails(u) \/ Effects!Call(u) \/ Effects!MainRaises(u)
                   \/ Effects!ReadCapture(u) \/ Effects!End(u)
            <4>1. /\ frames[u] # <<>> /\ Effects!Top(u).stage # "undo"
                  /\ UNCHANGED <<active, env, done>>
                  /\ \E stage \in {"main", "after", "undo"} :
                       Effects!SetTop(u, [Effects!Top(u) EXCEPT !.stage = stage])
                BY <3>4
                DEF Effects!SetupFails, Effects!Call, Effects!MainRaises, Effects!ReadCapture,
                    Effects!End, Effects!Leave, Effects!Depth
            <4>2. PICK stage \in {"main", "after", "undo"} :
                    Effects!SetTop(u, [Effects!Top(u) EXCEPT !.stage = stage])
                BY <4>1
            <4>3. Len(frames'[u]) = Len(frames[u])
                BY <1>0, <4>1, <4>2, StageGoes
            <4> QED
                BY <1>0, <1>2, <4>3
        <3> QED
            BY <1>1, <1>4, <3>1, <3>2, <3>3, <3>4
    <2> QED
        BY <1>0, <2>1, <2>2
<1> QED
    BY <1>3, <1>4

(***************************************************************************)
(* A case that is left has restored the environment it was entered with,   *)
(* however often one key was patched and whatever ran inside: the while    *)
(* loop of MiniMonkeyPatch.context undoes the last patch first.            *)
(***************************************************************************)
THEOREM CasesRestoreTheProcess == Spec => RestoredOnLeave
<1>1. EffectsPart /\ [Next]_vars => [part = "effects" => Effects!Restores]_vars
    <2> SUFFICES ASSUME EffectsPart, Next, part = "effects" PROVE Effects!Restores
        OBVIOUS
    <2>1. EffectsInv /\ Effects!Next
        BY DEF EffectsPart, Next
    <2> QED
        BY <2>1, LeavingRestores
<1> QED
    BY <1>1, EffectsInvariant, PTL DEF Spec, RestoredOnLeave
=============================================================================
