---------------------------- MODULE ChainCaches ----------------------------
(***************************************************************************)
(* The process-wide cache of the chain engine: the compiled cases of a     *)
(* document by its path, modification time and size.  Chains of several    *)
(* threads resolve a reference to one document while it is rewritten,      *)
(* moved away and moved back.  A document maps the ids of its cases to     *)
(* what they say; each rewrite has a modification time of its own.         *)
(***************************************************************************)
EXTENDS Naturals, FiniteSets

CONSTANTS
    Chains,    \* the chains that are executed, each in some thread
    Contents,  \* what a document may say: functions from case ids
    MaxWrites  \* bound on the rewrites of the document

ChainCachesAssumption ==
    /\ IsFiniteSet(Chains)
    /\ \A c \in Contents : DOMAIN c # {}   \* contracts is a non-empty list
    /\ MaxWrites \in Nat

VARIABLES
    file,      \* the document: [there, mtime, content]
    gone,      \* the modification times it had when it was moved away
    docCases,  \* _DOC_CASES_CACHE: key -> [mtime, content]
    pc,        \* chain -> idle, stat, lookup, load, read, store, filter, done, failed
    ref,       \* chain -> the id it refers to, or AllCases for a path alone
    key,       \* chain -> the key it looked the document up with
    got,       \* chain -> the cases it works with, and the time they are of
    began      \* chain -> the modification time when it began

vars == <<file, gone, docCases, pc, ref, key, got, began>>

AllCases == "all"
Malformed == "malformed"    \* a case that does not compile
Nothing == <<>>             \* the empty list of cases
Ids == UNION {DOMAIN c : c \in Contents}
Compiles(content) == \A id \in DOMAIN content : content[id] # Malformed
Seen(content) == [mtime |-> file.mtime, content |-> content]

(* A document that cannot be stat'ed has a key of its own (-1, -1). *)
FileKey == IF file.there THEN file.mtime ELSE 0

-----------------------------------------------------------------------------
(* Somebody edits the document, moves it away or moves it back as it was. *)
Write(content) ==
    /\ file.mtime < MaxWrites
    /\ file' = [there |-> TRUE, mtime |-> file.mtime + 1, content |-> content]
    /\ UNCHANGED <<gone, docCases, pc, ref, key, got, began>>

Remove ==
    /\ file.there
    /\ file' = [file EXCEPT !.there = FALSE]
    /\ gone' = gone \cup {file.mtime}
    /\ UNCHANGED <<docCases, pc, ref, key, got, began>>

Restore ==
    /\ ~file.there
    /\ file' = [file EXCEPT !.there = TRUE]
    /\ UNCHANGED <<gone, docCases, pc, ref, key, got, began>>

(* A reference to a path where there is no file is an error. *)
Begin(c) ==
    /\ pc[c] = "idle"
    /\ \E r \in Ids \cup {AllCases} : ref' = [ref EXCEPT ![c] = r]
    /\ began' = [began EXCEPT ![c] = file.mtime]
    /\ pc' = [pc EXCEPT ![c] = IF file.there THEN "stat" ELSE "failed"]
    /\ UNCHANGED <<file, gone, docCases, key, got>>

(* The key is taken before the document is read. *)
Stat(c) ==
    /\ pc[c] = "stat"
    /\ key' = [key EXCEPT ![c] = FileKey]
    /\ pc' = [pc EXCEPT ![c] = "lookup"]
    /\ UNCHANGED <<file, gone, docCases, ref, got, began>>

Lookup(c) ==
    /\ pc[c] = "lookup"
    /\ IF key[c] \in DOMAIN docCases
       THEN /\ got' = [got EXCEPT ![c] = docCases[key[c]]]
            /\ pc' = [pc EXCEPT ![c] = "filter"]
       ELSE /\ pc' = [pc EXCEPT ![c] = "load"]
            /\ UNCHANGED got
    /\ UNCHANGED <<file, gone, docCases, ref, key, began>>

(* Where discover_case_files finds no file it looks for files below the    *)
(* path: it finds none, and there are no cases to load.                    *)
Discover(c) ==
    /\ pc[c] = "load"
    /\ IF file.there
       THEN /\ pc' = [pc EXCEPT ![c] = "read"]
            /\ UNCHANGED got
       ELSE /\ got' = [got EXCEPT ![c] = Seen(Nothing)]
            /\ pc' = [pc EXCEPT ![c] = "store"]
    /\ UNCHANGED <<file, gone, docCases, ref, key, began>>

(* A file that is gone by now, or has a case that does not compile, is an  *)
(* error, and nothing is stored.                                           *)
Read(c) ==
    /\ pc[c] = "read"
    /\ IF file.there /\ Compiles(file.content)
       THEN /\ got' = [got EXCEPT ![c] = Seen(file.content)]
            /\ pc' = [pc EXCEPT ![c] = "store"]
       ELSE /\ pc' = [pc EXCEPT ![c] = "failed"]
            /\ UNCHANGED got
    /\ UNCHANGED <<file, gone, docCases, ref, key, began>>

With(cache, k, value) == [x \in DOMAIN cache \cup {k} |-> IF x = k THEN value ELSE cache[x]]

(* Slip: the document is stat'ed after it was read. *)
StoreUnderNewKey(c) ==
    /\ pc[c] = "store"
    /\ docCases' = With(docCases, FileKey, got[c])
    /\ pc' = [pc EXCEPT ![c] = "filter"]
    /\ UNCHANGED <<file, gone, ref, key, got, began>>
Store(c) ==
    /\ pc[c] = "store"
    /\ docCases' = With(docCases, key[c], got[c])
    /\ pc' = [pc EXCEPT ![c] = "filter"]
    /\ UNCHANGED <<file, gone, ref, key, got, began>>

(* A reference that names a case must find it; a path alone may come to no *)
(* case, and the step has nothing to run.  A later step of the chain finds *)
(* the document in the chain's own cache, and is left out.                 *)
Filter(c) ==
    /\ pc[c] = "filter"
    /\ pc' = [pc EXCEPT ![c] =
           IF ref[c] = AllCases \/ ref[c] \in DOMAIN got[c].content THEN "done" ELSE "failed"]
    /\ UNCHANGED <<file, gone, docCases, ref, key, got, began>>

-----------------------------------------------------------------------------
Init ==
    /\ \E c \in Contents : file = [there |-> TRUE, mtime |-> 1, content |-> c]
    /\ gone = {}
    /\ docCases = <<>>
    /\ pc = [c \in Chains |-> "idle"]
    /\ ref = [c \in Chains |-> AllCases]
    /\ key = [c \in Chains |-> 0]
    /\ got = [c \in Chains |-> [mtime |-> 0, content |-> Nothing]]
    /\ began = [c \in Chains |-> 0]

Next ==
    \/ \E content \in Contents : Write(content)
    \/ Remove
    \/ Restore
    \/ \E c \in Chains :
         \/ Begin(c) \/ Stat(c) \/ Lookup(c) \/ Discover(c) \/ Read(c) \/ Store(c) \/ Filter(c)

Spec == Init /\ [][Next]_vars

-----------------------------------------------------------------------------
(* Keys are modification times, cached documents are of times the file had *)
(* (the process-wide dictionaries of the chain engine).                    *)
TypeOK ==
    /\ DOMAIN docCases \subseteq 0 .. MaxWrites + 1
    /\ \A k \in DOMAIN docCases : docCases[k].mtime \in 1 .. file.mtime
    /\ pc \in [Chains -> {"idle", "stat", "lookup", "load", "read", "store", "filter", "done", "failed"}]

HasDoc(c) == pc[c] \in {"store", "filter", "done"}

(* A chain never works with a version of the document older than the one   *)
(* that was there when it began, however loads, rewrites and stores of     *)
(* other threads interleave (the document is stat'ed before it is read);   *)
(* only chains whose own stat failed share an entry that is of any time.   *)
NeverOlderThanTheStart ==
    \A c \in Chains : HasDoc(c) /\ key[c] # 0 => got[c].mtime >= began[c]

(* A chain is left without any case, and passes for that, only when the    *)
(* document was moved away at the time its cases are of: a document that   *)
(* stays where it is never comes to nothing.                               *)
NothingMeansGone ==
    \A c \in Chains : HasDoc(c) /\ got[c].content = Nothing => got[c].mtime \in gone

(* What is cached under the key a document has now is what it says now; it *)
(* is nothing at all only when the document was away in between.           *)
EntryOfNowIsOfNow ==
    file.there /\ FileKey \in DOMAIN docCases =>
        \/ docCases[FileKey].content = file.content
        \/ docCases[FileKey].content = Nothing /\ file.mtime \in gone
=============================================================================
