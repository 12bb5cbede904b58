------------------------- MODULE SpecDataProperties -------------------------
(* The laws the builtins on lists, dicts, paths and schemas keep. *)
EXTENDS SpecSchema

P == INSTANCE SpecPaths

Items(v) == ToSet(v.list)
NoRepeats(seq) == Cardinality(ToSet(seq)) = Len(seq)
FirstIn(seq, v) == CHOOSE i \in 1 .. Len(seq) : seq[i] = v /\ \A j \in 1 .. i - 1 : seq[j] # v
(* In the order of their first encounter. *)
EncounterOrder(out, seq) == \A i, j \in 1 .. Len(out) : i < j => FirstIn(seq, out[i]) < FirstIn(seq, out[j])

(* The set builtins are the operations on the sets of deeply different     *)
(* items, whatever the lists repeat, each item once in the order of the    *)
(* first encounter (1 and True differ); the predicates agree with them.    *)
SetAlgebra(left, right) ==
    LET L == ToSet(left)  R == ToSet(right)
        Is2(op, set) == LET out == Pair(op, left, right).list
                        IN  ToSet(out) = set /\ NoRepeats(out) /\ EncounterOrder(out, left \o right)
        Says(op) == Pair(op, left, right).bool
    IN  /\ Is2("union", L \cup R) /\ Is2("intersection", L \cap R) /\ Is2("difference", L \ R)
        /\ Is2("symmetric_difference", (L \ R) \cup (R \ L))
        /\ Says("set_equals") = (L = R) /\ Says("is_subset") = (L \subseteq R)
        /\ Says("is_superset") = Pair("is_subset", right, left).bool
        /\ Says("contains_all") = (R \subseteq L) /\ Says("contains_any") = (L \cap R # {})

(* take and drop, and two slices at one place, cut a list in two parts,    *)
(* for counts and places beyond both ends.                                 *)
CutsInTwo(seq, n) ==
    LET Of(op) == Sequence(op, <<Num(n), List(seq)>>).list
    IN  /\ Of("take") \o Of("drop") = seq
        /\ Slice(seq, 0, n) \o Slice(seq, n, Len(seq)) = seq
        /\ n >= 0 => Slice(seq, 0, n) = Of("take")

(* The paths of a dict, to scalars and to what they lie in. *)
RECURSIVE PathsOf(_)
PathsOf(v) ==
    {<<>>} \cup IF Is("dict", v) THEN UNION {{<<Str(k)>> \o p : p \in PathsOf(v.dict[k])} : k \in DOMAIN v.dict}
                ELSE {}

(* A deep merge has the paths of both dicts, less those of the left that   *)
(* the right cuts off with a value; at the end of each it holds the        *)
(* right's value if it has one, else the left's.                           *)
DeepMergeByPath(left, right) ==
    LET m == Dict(DeepMerge(left, right))
        l == Dict(left)  r == Dict(right)
        Cuts(path) == \E i \in 1 .. Len(path) :
                          LET at == GetInPath(r, SubSeq(path, 1, i))
                          IN  ~Failed(at) /\ (~Is("dict", at) \/ ~Is("dict", GetInPath(l, SubSeq(path, 1, i))))
        kept == {p \in PathsOf(l) : ~Cuts(p)}
    IN  /\ PathsOf(m) = PathsOf(r) \cup kept
        /\ \A p \in PathsOf(m) :
               LET v == GetInPath(m, p)
               IN  Is("dict", v) \/ v = IF p \in PathsOf(r) THEN GetInPath(r, p) ELSE GetInPath(l, p)

(* get_in, get_or and has_path agree: a path is there when it leads to a   *)
(* value, the default is used only when it is not, and a prefix of a path  *)
(* that is there is there; no place is counted from the end of a list.     *)
LookupsAgree(v, path, default) ==
    LET at == GetInPath(v, path)
        Of(op, args) == Eager(op, args)
    IN  /\ Of("has_path", <<v, List(path)>>) = Bool(~Failed(at))
        /\ Of("get_or", <<v, List(path), default>>) = (IF Failed(at) THEN default ELSE at)
        /\ Of("get_in", <<v, List(path)>>) = (IF Failed(at) THEN Null ELSE at)
        /\ \A i \in 0 .. Len(path) : ~Failed(at) => ~Failed(GetInPath(v, SubSeq(path, 1, i)))
        /\ \A i \in 1 .. Len(path) :
               Is("num", path[i]) /\ path[i].num < 0 /\ Is("list", GetInPath(v, SubSeq(path, 1, i - 1))) => Failed(at)

-----------------------------------------------------------------------------
(* A normalised path is normal: it names the same file, has no empty part, *)
(* no "." but the path itself, and a ".." only in front of a relative one. *)
NormalForm(path) ==
    LET n == P!Normalize(path)
        kept == P!Kept(path)
    IN  /\ P!Normalize(n) = n
        /\ P!Absolute(n) = P!Absolute(path)
        /\ ToSet(kept) \cap {P!Empty, P!Here} = {}
        /\ \A i \in 1 .. Len(kept) : kept[i] = P!Up => ~P!Absolute(path) /\ (i = 1 \/ kept[i - 1] = P!Up)

(* A path is its directory joined with its base name; its parents are the  *)
(* directories above it, nearest first, and it lies within each of them.   *)
TakesApart(path) ==
    LET n == P!Normalize(path)
        above == P!Parents(path)
    IN  /\ P!Join(P!Dirname(path), <<P!Basename(path)>>) = n
        /\ above # <<>> => Head(above) = P!Dirname(path)
        /\ \A i \in 1 .. Len(above) : P!Within(above[i], path) /\ (i > 1 => above[i] = P!Dirname(above[i - 1]))
        /\ NoRepeats(above)

(* A changed extension is there and changes nothing else. *)
ChangesExtension(path, ext) ==
    LET c == P!ChangeExt(path, ext)
    IN  P!Basename(path) \notin {P!Empty, P!Here} =>
            P!HasExt(c, ext) /\ P!Dirname(c) = P!Dirname(path) /\ P!Stem(c) = P!Stem(path)

(* A relative path leads back: the base joined with it is the path, unless *)
(* one is absolute and the other is not or the base climbs where the path  *)
(* does not.  A path that does not climb itself is within the base exactly *)
(* when its relative path does not climb; one that climbs counts as within *)
(* ".", and "../.." as within "..".                                        *)
LeadsBack(base, path) ==
    LET rel == P!Relativize(base, path)
        common == P!Shared(P!Kept(base), P!Kept(path))
        climbs == \E i \in Len(common) + 1 .. Len(P!Kept(base)) : P!Kept(base)[i] = P!Up
    IN  P!Absolute(base) = P!Absolute(path) =>
            /\ ~climbs => P!Join(base, rel) = P!Normalize(path)
            /\ P!Up \notin ToSet(P!Kept(path)) => (P!Within(base, path) <=> Head(rel) # P!Up)

(* The common prefix has every path within it, and no path below it has.   *)
CommonAndNearest(one, other) ==
    LET c == P!CommonPrefix({one, other})
    IN  P!Absolute(one) = P!Absolute(other) =>
            /\ P!Within(c, one) /\ P!Within(c, other)
            /\ P!Kept(one) # P!Kept(other) /\ P!Kept(one) # <<>> /\ P!Kept(other) # <<>> =>
                   \A p \in {one, other} :
                       Len(P!Kept(p)) > Len(P!Kept(c)) =>
                           LET below == P!Join(c, <<P!Kept(p)[Len(P!Kept(c)) + 1]>>)
                           IN  ~(P!Within(below, one) /\ P!Within(below, other))

-----------------------------------------------------------------------------
Fitting(v, schema) == SchemaMatch(v, schema)

(* The keywords of a schema are conditions that all hold, each on its own: *)
(* a schema fits as the all_of of its keywords does (properties and its    *)
(* allow_extra together), any_of and not are the or and the not of schemas *)
(* that are well formed.                                                   *)
KeywordsAreConditions(v, one, other) ==
    LET Parts(s) == {[k \in keys \cap DOMAIN s |-> s[k]] :
                         keys \in {{k} : k \in DOMAIN s \ {"properties", "allow_extra"}} \cup {{"properties", "allow_extra"}}}
    IN  /\ Fitting(v, one) = \A part \in Parts(one) : Fitting(v, part)
        /\ Fitting(v, [all_of |-> <<one, other>>]) = (Fitting(v, one) /\ Fitting(v, other))
        /\ Fitting(v, [any_of |-> <<one, other>>]) = (Fitting(v, one) \/ Fitting(v, other))
        /\ Fitting(v, [not |-> one]) = ~Fitting(v, one)
        /\ Fitting(v, [not |-> [any_of |-> <<one, other>>]]) =
               Fitting(v, [all_of |-> <<[not |-> one], [not |-> other]>>])

(* A list fits an items schema when each of its items fits it.             *)
ItemsFitEach(list, schema) ==
    Fitting(List(list), [items |-> schema]) = \A i \in 1 .. Len(list) : Fitting(list[i], schema)
=============================================================================
