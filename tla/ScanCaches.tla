---------------------------- MODULE ScanCaches -----------------------------
(***************************************************************************)
(* The caches the governance checks share.  Every check thread looks a     *)
(* cache up under the lock, computes a missing value outside it, usually   *)
(* from another cache, and stores it under the lock; the key holds the     *)
(* token that _reset_scan_caches changes.  The value of a cache is the     *)
(* oldest version of the repository that any part of it was read from.     *)
(***************************************************************************)
EXTENDS Naturals, Sequences, FiniteSets, FiniteSetsExt

CONSTANTS
    Threads,    \* check threads
    Kinds,      \* the caches the model uses, a subset of AllKinds
    MaxVersion, \* bound on the versions of the repository on disk
    MaxToken    \* bound on the resets

Disk == "disk"

(* What a missing value is computed from. *)
Inner == [external |-> Disk, iter |-> Disk, normalize |-> Disk, certify |-> Disk,
          all |-> "external", chainRef |-> "external",
          chain |-> "all", symbols |-> "all", conformanceIds |-> "iter"]
AllKinds == DOMAIN Inner

ScanCachesAssumption ==
    /\ IsFiniteSet(Threads) /\ Kinds \subseteq AllKinds
    /\ MaxVersion \in Nat /\ MaxToken \in Nat

VARIABLES
    version,   \* of the repository on disk
    token,     \* _SCAN_CACHE_TOKEN
    cache,     \* set of [token, kind, oldest]: at most one of a token and kind
    stack,     \* thread -> the computations it is in: sequence of [kind, token, got]
    began,     \* thread -> the version on disk at the last reset when its lookup began
    resetAt,   \* the version on disk at the last reset
    result     \* thread -> what its last outermost lookup came to, 0 for none

vars == <<version, token, cache, stack, began, resetAt, result>>

Frame(kind, tok) == [kind |-> kind, token |-> tok, got |-> 0]
TopOf(t) == stack[t][Len(stack[t])]

Found(kind, tok) == {x \in cache : x.kind = kind /\ x.token = tok}

(* A value goes to the computation below it, or is the thread's result. *)
Deliver(t, rest, value) ==
    IF rest = <<>>
    THEN /\ result' = [result EXCEPT ![t] = value]
         /\ stack' = [stack EXCEPT ![t] = rest]
    ELSE /\ stack' = [stack EXCEPT ![t] = [rest EXCEPT ![Len(rest)].got = value]]
         /\ UNCHANGED result

(* The first lookup of a kind, or the lookup of what it is computed from. *)
Enter(t, kind, rest) ==
    IF Found(kind, token) # {}
    THEN Deliver(t, rest, (CHOOSE x \in Found(kind, token) : TRUE).oldest) /\ UNCHANGED cache
    ELSE /\ stack' = [stack EXCEPT ![t] = Append(rest, Frame(kind, token))]
         /\ result' = [result EXCEPT ![t] = 0]
         /\ UNCHANGED cache

Lookup(t, kind) ==
    /\ stack[t] = <<>>
    /\ began' = [began EXCEPT ![t] = resetAt]
    /\ Enter(t, kind, <<>>)
    /\ UNCHANGED <<version, token, resetAt>>

Descend(t) ==
    /\ stack[t] # <<>> /\ TopOf(t).got = 0 /\ Inner[TopOf(t).kind] # Disk
    /\ Enter(t, Inner[TopOf(t).kind], stack[t])
    /\ UNCHANGED <<version, token, began, resetAt>>

Read(t) ==
    /\ stack[t] # <<>> /\ TopOf(t).got = 0 /\ Inner[TopOf(t).kind] = Disk
    /\ stack' = [stack EXCEPT ![t][Len(stack[t])].got = version]
    /\ UNCHANGED <<version, token, cache, began, resetAt, result>>

(* Slip: a value is stored under the token of now. *)
TokenNow(frame) == token
StoreToken(frame) == frame.token

(* The last of several threads that computed one value replaces the others'. *)
Store(t) ==
    /\ stack[t] # <<>> /\ TopOf(t).got # 0
    /\ LET f == TopOf(t)
           tok == StoreToken(f)
       IN  /\ cache' = {x \in cache : ~(x.kind = f.kind /\ x.token = tok)}
                         \cup {[token |-> tok, kind |-> f.kind, oldest |-> f.got]}
           /\ Deliver(t, SubSeq(stack[t], 1, Len(stack[t]) - 1), f.got)
    /\ UNCHANGED <<version, token, began, resetAt>>

(* A computation raises: nothing is stored on any level. *)
Raise(t) ==
    /\ stack[t] # <<>>
    /\ stack' = [stack EXCEPT ![t] = <<>>]
    /\ result' = [result EXCEPT ![t] = 0]
    /\ UNCHANGED <<version, token, cache, began, resetAt>>

Reset ==
    /\ token < MaxToken
    /\ token' = token + 1
    /\ cache' = {}
    /\ resetAt' = version
    /\ UNCHANGED <<version, stack, began, result>>

Change ==
    /\ version < MaxVersion
    /\ version' = version + 1
    /\ UNCHANGED <<token, cache, stack, began, resetAt, result>>

Init ==
    /\ version = 1 /\ token = 0 /\ cache = {} /\ resetAt = 1
    /\ stack = [t \in Threads |-> <<>>]
    /\ began = [t \in Threads |-> 1]
    /\ result = [t \in Threads |-> 0]

Next ==
    \/ Reset \/ Change
    \/ \E t \in Threads :
         \/ \E kind \in Kinds : Lookup(t, kind)
         \/ Descend(t) \/ Read(t) \/ Store(t) \/ Raise(t)

Spec == Init /\ [][Next]_vars

-----------------------------------------------------------------------------
(* A key has one value, a computation is one of a cache and of what it is  *)
(* computed from (the nine dictionaries of the governance checks).         *)
TypeOK ==
    /\ \A x, y \in cache : x.kind = y.kind /\ x.token = y.token => x = y
    /\ \A x \in cache : x.kind \in AllKinds /\ x.oldest \in 1 .. version
    /\ \A t \in Threads : \A i \in 1 .. Len(stack[t]) :
         i > 1 => stack[t][i].kind = Inner[stack[t][i - 1].kind]

(* What a check is given was read after the reset that its lookup began    *)
(* under, also when threads of before the reset are still storing          *)
(* (_reset_scan_caches at the start of every governance run).              *)
NothingFromBeforeTheReset ==
    \A t \in Threads : result[t] # 0 => result[t] >= began[t]

(* Entries that can still be found were read after the last reset. *)
ReachableEntriesAreFresh ==
    \A x \in cache : x.token = token => x.oldest >= resetAt
=============================================================================
