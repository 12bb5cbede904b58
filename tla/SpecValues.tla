----------------------------- MODULE SpecValues -----------------------------
(***************************************************************************)
(* The values of the expression language and its eager builtins on them    *)
(* (spec_lang.py).  A value is a record whose only field is its kind, so   *)
(* that values of different kinds are comparable.  Left out: floats (and   *)
(* with them div and pow), the builtins on the text of strings, and the    *)
(* order of the entries of a dict.                                         *)
(***************************************************************************)
EXTENDS Integers, Sequences, SequencesExt, FiniteSets, TLC

Null == [null |-> TRUE]
Bool(b) == [bool |-> b]
Num(n) == [num |-> n]
Str(s) == [str |-> s]
List(l) == [list |-> l]
Dict(d) == [dict |-> d]       \* d: key -> value
Err(kind) == [err |-> kind]

Is(kind, v) == kind \in DOMAIN v
Failed(v) == Is("err", v)

(* bool is a subclass of int: a truth value is an index, a count, a summand. *)
IsIndex(v) == Is("num", v) \/ Is("bool", v)
AsInt(v) == IF Is("num", v) THEN v.num ELSE IF v.bool THEN 1 ELSE 0

Truthy(v) ==
    CASE Is("null", v) -> FALSE
      [] Is("bool", v) -> v.bool
      [] Is("num", v) -> v.num # 0
      [] Is("str", v) -> v.str # ""
      [] Is("list", v) -> v.list # <<>>
      [] Is("dict", v) -> DOMAIN v.dict # {}
      [] OTHER -> TRUE

(* Values of different kinds are different, lists and dicts by content. *)
DeepEquals(a, b) == a = b

(* Python's ==, by which 1 equals True at any depth. *)
RECURSIVE LooselyEqual(_, _)
LooselyEqual(a, b) ==
    \/ a = b
    \/ IsIndex(a) /\ IsIndex(b) /\ AsInt(a) = AsInt(b)
    \/ /\ Is("list", a) /\ Is("list", b) /\ Len(a.list) = Len(b.list)
       /\ \A i \in 1 .. Len(a.list) : LooselyEqual(a.list[i], b.list[i])
    \/ /\ Is("dict", a) /\ Is("dict", b) /\ DOMAIN a.dict = DOMAIN b.dict
       /\ \A k \in DOMAIN a.dict : LooselyEqual(a.dict[k], b.dict[k])

JsonType(v) ==
    CASE Is("num", v) -> "number"
      [] Is("str", v) -> "string"
      [] Failed(v) \/ Is("fn", v) \/ Is("builtin", v) -> "unknown"
      [] OTHER -> CHOOSE kind \in DOMAIN v : TRUE

TypeToken(name) ==
    CASE name = "boolean" -> "bool" [] name = "array" -> "list"
      [] name = "object" -> "dict" [] OTHER -> name

(* str(v) of a scalar: what a dict is keyed by. *)
KeyOf(v) ==
    CASE Is("str", v) -> v.str
      [] Is("bool", v) -> IF v.bool THEN "True" ELSE "False"
      [] Is("null", v) -> "None"
      [] OTHER -> ToString(v)

-----------------------------------------------------------------------------
(* Lists and paths.                                                        *)

IncludesDeep(seq, v) == \E i \in 1 .. Len(seq) : DeepEquals(seq[i], v)

AddNew(item, out) == IF IncludesDeep(out, item) THEN out ELSE Append(out, item)
DistinctDeep(seq) == FoldLeft(LAMBDA out, item : AddNew(item, out), <<>>, seq)

(* Both members in order, each once, that satisfy the condition. *)
Those(seq, other, wanted) ==
    DistinctDeep(SelectSeq(seq, LAMBDA item : IncludesDeep(other, item) = wanted))

(* A list's element by a number or a truth value, not from its end; a      *)
(* dict's value by the text of the segment; nothing else has elements.     *)
NoSuch == Err("absent")
Step(v, seg) ==
    CASE Is("dict", v) -> IF KeyOf(seg) \in DOMAIN v.dict THEN v.dict[KeyOf(seg)] ELSE NoSuch
      [] Is("list", v) /\ IsIndex(seg) ->
            IF AsInt(seg) \in 0 .. Len(v.list) - 1 THEN v.list[AsInt(seg) + 1] ELSE NoSuch
      [] OTHER -> NoSuch
(* Slip: an index from the end of the list is one more element. *)
FromTheEnd(v, path) ==
    FoldLeft(LAMBDA cur, seg :
        IF Failed(cur) THEN cur
        ELSE IF Is("list", cur) /\ Is("num", seg) /\ seg.num < 0 /\ -seg.num <= Len(cur.list)
             THEN cur.list[Len(cur.list) + seg.num + 1]
        ELSE Step(cur, seg), v, path)
GetInPath(v, path) ==
    FoldLeft(LAMBDA cur, seg : IF Failed(cur) THEN cur ELSE Step(cur, seg), v, path)
OrElse(found, default) == IF found = NoSuch THEN default ELSE found

(* seq[start:end], negative positions counted from the end. *)
Position(n, len) == IF n < 0 THEN IF len + n < 0 THEN 0 ELSE len + n ELSE IF n > len THEN len ELSE n
Slice(seq, start, end) == SubSeq(seq, Position(start, Len(seq)) + 1, Position(end, Len(seq)))
AtLeast0(n) == IF n < 0 THEN 0 ELSE n

RECURSIVE Flat(_)
Flat(seq) == FlattenSeq([i \in 1 .. Len(seq) |->
                 IF Is("list", seq[i]) THEN Flat(seq[i].list) ELSE <<seq[i]>>])

(* Slip: the left dict wins at the leaves. *)
RECURSIVE MergeLeft(_, _)
MergeLeft(left, right) ==
    [k \in DOMAIN left \cup DOMAIN right |->
        IF k \notin DOMAIN left THEN right[k]
        ELSE IF k \in DOMAIN right /\ Is("dict", left[k]) /\ Is("dict", right[k])
             THEN Dict(MergeLeft(left[k].dict, right[k].dict))
        ELSE left[k]]
RECURSIVE DeepMerge(_, _)
DeepMerge(left, right) ==
    [k \in DOMAIN left \cup DOMAIN right |->
        IF k \notin DOMAIN right THEN left[k]
        ELSE IF k \in DOMAIN left /\ Is("dict", left[k]) /\ Is("dict", right[k])
             THEN Dict(DeepMerge(left[k].dict, right[k].dict))
        ELSE right[k]]

Keyed(d, keys) == [k \in keys \cap DOMAIN d |-> d[k]]
KeysIn(list) == {KeyOf(list[i]) : i \in 1 .. Len(list)}
EntriesOf(d) == SetToSeq(DOMAIN d)

-----------------------------------------------------------------------------
(* What each builtin asks of its arguments: the arity table, with the kind *)
(* the case of _eval_builtin_eager requires at each place.                 *)
Anything == "any"
Signature ==
    [op \in {"eq", "neq", "equals", "xor", "has_key", "get", "always", "and", "or", "coalesce"} |-> <<Anything, Anything>>]
    @@ [op \in {"identity", "not", "is_null", "is_bool", "is_number", "is_string", "is_list", "is_dict", "sized"} |-> <<Anything>>]
    @@ [op \in {"lt", "lte", "gt", "gte"} |-> <<"index", "index">>]
    @@ [op \in {"add", "sub", "mul", "mod"} |-> <<"num", "num">>]
    @@ [op \in {"abs", "negate", "inc", "dec"} |-> <<"num">>]
    @@ [op \in {"clamp", "between"} |-> <<"num", "num", "num">>]
    @@ [op \in {"compare"} |-> <<"index", "index">>]
    @@ [op \in {"json_type"} |-> <<Anything, "str">>]
    @@ [op \in {"get_in", "has_path"} |-> <<Anything, "list">>]
    @@ [op \in {"get_or"} |-> <<Anything, "list", Anything>>]
    @@ [op \in {"in"} |-> <<Anything, Anything>>]
    @@ [op \in {"includes", "pluck"} |-> <<"list", Anything>>]
    @@ [op \in {"nth"} |-> <<"list", "num">>]
    @@ [op \in {"first", "rest", "last", "any", "all", "none", "distinct", "sum", "reverse", "flatten"} |-> <<"list">>]
    @@ [op \in {"keys", "values"} |-> <<"dict">>]
    @@ [op \in {"merge", "merge_deep"} |-> <<"dict", "dict">>]
    @@ [op \in {"assoc", "prop_eq"} |-> <<Anything, Anything, "dict">>]
    @@ [op \in {"dissoc"} |-> <<Anything, "dict">>]
    @@ [op \in {"pick", "omit"} |-> <<"list", "dict">>]
    @@ [op \in {"keys_exact", "keys_include", "keys_exclude"} |-> <<"dict", "list">>]
    @@ [op \in {"take", "drop"} |-> <<"index", "list">>]
    @@ [op \in {"slice"} |-> <<"num", "num", "list">>]
    @@ [op \in {"append", "prepend"} |-> <<Anything, "list">>]
    @@ [op \in {"range"} |-> <<"num", "num">>]
    @@ [op \in {"repeat"} |-> <<Anything, "num">>]
    @@ [op \in {"zip", "concat", "union", "intersection", "difference", "symmetric_difference",
                "set_equals", "contains_all", "contains_any", "is_subset", "is_superset"} |-> <<"list", "list">>]

Fits(kind, v) == kind = Anything \/ (kind = "index" /\ IsIndex(v)) \/ Is(kind, v)

-----------------------------------------------------------------------------
(* The cases, by group.                                                    *)

Arithmetic(op, n) ==
    CASE op = "add" -> Num(n[1] + n[2])
      [] op = "sub" -> Num(n[1] - n[2])
      [] op = "mul" -> Num(n[1] * n[2])
      (* the sign of a remainder is the divisor's *)
      [] op = "mod" -> IF n[2] = 0 THEN Err("type")
                       ELSE Num(IF n[2] > 0 THEN n[1] % n[2] ELSE -((-n[1]) % (-n[2])))
      [] op = "abs" -> Num(IF n[1] < 0 THEN -n[1] ELSE n[1])
      [] op = "negate" -> Num(-n[1])
      [] op = "inc" -> Num(n[1] + 1)
      [] op = "dec" -> Num(n[1] - 1)
      [] op = "clamp" -> IF n[1] > n[2] THEN Err("type")
                         ELSE Num(IF n[3] < n[1] THEN n[1] ELSE IF n[3] > n[2] THEN n[2] ELSE n[3])
      [] op = "between" -> IF n[1] > n[2] THEN Err("type") ELSE Bool(n[1] <= n[3] /\ n[3] <= n[2])
      [] op = "compare" -> Num(IF n[1] < n[2] THEN -1 ELSE IF n[1] > n[2] THEN 1 ELSE 0)
      [] op = "lt" -> Bool(n[1] < n[2])
      [] op = "lte" -> Bool(n[1] <= n[2])
      [] op = "gt" -> Bool(n[1] > n[2])
      [] op = "gte" -> Bool(n[1] >= n[2])
      [] op = "range" -> List([i \in 1 .. AtLeast0(n[2] - n[1]) |-> Num(n[1] + i - 1)])
ArithmeticOps == {"add", "sub", "mul", "mod", "abs", "negate", "inc", "dec", "clamp", "between",
                  "compare", "lt", "lte", "gt", "gte", "range"}

Membership(v, box) ==
    CASE Is("list", box) -> Bool(\E i \in 1 .. Len(box.list) : LooselyEqual(box.list[i], v))
      [] Is("dict", box) -> Bool(KeyOf(v) \in DOMAIN box.dict)
      [] OTHER -> Err("type")

Comparison(op, a, b) ==
    CASE op = "eq" -> Bool(LooselyEqual(a, b))
      [] op = "neq" -> Bool(~LooselyEqual(a, b))
      [] op = "equals" -> Bool(DeepEquals(a, b))
      [] op = "xor" -> Bool(Truthy(a) # Truthy(b))
      [] op = "and" -> Bool(Truthy(a) /\ Truthy(b))
      [] op = "or" -> Bool(Truthy(a) \/ Truthy(b))
      [] op = "in" -> Membership(a, b)
      [] op = "json_type" -> Bool(JsonType(a) = TypeToken(b.str))
      [] op = "has_key" -> Bool(Is("dict", a) /\ KeyOf(b) \in DOMAIN a.dict)
      [] op = "always" -> a
      [] op = "coalesce" -> IF a \notin {Null, Str("")} THEN a ELSE IF b # Str("") THEN b ELSE Null
ComparisonOps == {"eq", "neq", "equals", "xor", "and", "or", "in", "json_type", "has_key", "always", "coalesce"}

IsType(op, v) ==
    JsonType(v) = CASE op = "is_null" -> "null" [] op = "is_bool" -> "bool" [] op = "is_number" -> "number"
                    [] op = "is_string" -> "string" [] op = "is_list" -> "list" [] op = "is_dict" -> "dict"
TypeOps == {"is_null", "is_bool", "is_number", "is_string", "is_list", "is_dict"}

(* get tells a wrong index kind from an index that is not there. *)
Access(op, args) ==
    CASE op = "get" -> IF Is("dict", args[1]) \/ (Is("list", args[1]) /\ IsIndex(args[2]))
                       THEN OrElse(Step(args[1], args[2]), Null) ELSE Err("type")
      [] op = "get_in" -> OrElse(GetInPath(args[1], args[2].list), Null)
      [] op = "get_or" -> OrElse(GetInPath(args[1], args[2].list), args[3])
      [] op = "has_path" -> Bool(GetInPath(args[1], args[2].list) # NoSuch)
      [] op = "nth" -> OrElse(Step(args[1], args[2]), Null)
AccessOps == {"get", "get_in", "get_or", "has_path", "nth"}

OfList(op, l) ==
    CASE op = "first" -> IF l = <<>> THEN Null ELSE Head(l)
      [] op = "rest" -> List(IF l = <<>> THEN l ELSE Tail(l))
      [] op = "last" -> IF l = <<>> THEN Null ELSE Last(l)
      [] op = "any" -> Bool(\E i \in 1 .. Len(l) : Truthy(l[i]))
      [] op = "all" -> Bool(\A i \in 1 .. Len(l) : Truthy(l[i]))
      [] op = "none" -> Bool(\A i \in 1 .. Len(l) : ~Truthy(l[i]))
      [] op = "distinct" -> List(DistinctDeep(l))
      [] op = "sum" -> IF \A i \in 1 .. Len(l) : IsIndex(l[i])
                       THEN Num(FoldLeft(LAMBDA n, v : n + AsInt(v), 0, l)) ELSE Err("type")
      [] op = "reverse" -> List(Reverse(l))
      [] op = "flatten" -> List(Flat(l))
ListOps == {"first", "rest", "last", "any", "all", "none", "distinct", "sum", "reverse", "flatten"}

OfDict(op, args) ==
    CASE op = "keys" -> List([i \in 1 .. Cardinality(DOMAIN args[1].dict) |-> Str(EntriesOf(args[1].dict)[i])])
      [] op = "values" -> List([i \in 1 .. Cardinality(DOMAIN args[1].dict) |-> args[1].dict[EntriesOf(args[1].dict)[i]]])
      [] op = "merge" -> Dict(args[2].dict @@ args[1].dict)
      [] op = "merge_deep" -> Dict(DeepMerge(args[1].dict, args[2].dict))
      [] op = "assoc" -> Dict((KeyOf(args[1]) :> args[2]) @@ args[3].dict)
      [] op = "dissoc" -> Dict(Keyed(args[2].dict, DOMAIN args[2].dict \ {KeyOf(args[1])}))
      [] op = "pick" -> Dict(Keyed(args[2].dict, KeysIn(args[1].list)))
      [] op = "omit" -> Dict(Keyed(args[2].dict, DOMAIN args[2].dict \ KeysIn(args[1].list)))
      [] op = "keys_exact" -> Bool(DOMAIN args[1].dict = KeysIn(args[2].list))
      [] op = "keys_include" -> Bool(KeysIn(args[2].list) \subseteq DOMAIN args[1].dict)
      [] op = "keys_exclude" -> Bool(KeysIn(args[2].list) \cap DOMAIN args[1].dict = {})
      [] op = "prop_eq" -> Bool(DeepEquals(OrElse(Step(args[3], args[1]), Null), args[2]))
DictOps == {"keys", "values", "merge", "merge_deep", "assoc", "dissoc", "pick", "omit",
            "keys_exact", "keys_include", "keys_exclude", "prop_eq"}

Sequence(op, args) ==
    CASE op = "includes" -> Bool(IncludesDeep(args[1].list, args[2]))
      [] op = "pluck" -> List([i \in 1 .. Len(args[1].list) |->
                              IF Is("dict", args[1].list[i]) THEN OrElse(Step(args[1].list[i], args[2]), Null) ELSE Null])
      [] op = "append" -> List(Append(args[2].list, args[1]))
      [] op = "prepend" -> List(<<args[1]>> \o args[2].list)
      [] op = "take" -> List(Slice(args[2].list, 0, AtLeast0(AsInt(args[1]))))
      [] op = "drop" -> List(Slice(args[2].list, AtLeast0(AsInt(args[1])), Len(args[2].list)))
      [] op = "slice" -> List(Slice(args[3].list, args[1].num, args[2].num))
      [] op = "repeat" -> IF args[2].num < 0 THEN Err("type") ELSE List([i \in 1 .. args[2].num |-> args[1]])
SequenceOps == {"includes", "pluck", "append", "prepend", "take", "drop", "slice", "repeat"}

Pair(op, left, right) ==
    CASE op = "zip" -> List([i \in 1 .. IF Len(left) < Len(right) THEN Len(left) ELSE Len(right) |->
                            List(<<left[i], right[i]>>)])
      [] op = "concat" -> List(left \o right)
      [] op = "union" -> List(DistinctDeep(left \o right))
      [] op = "intersection" -> List(Those(left, right, TRUE))
      [] op = "difference" -> List(Those(left, right, FALSE))
      [] op = "symmetric_difference" -> List(Those(left, right, FALSE) \o Those(right, left, FALSE))
      [] op = "set_equals" ->
            Bool(/\ Len(DistinctDeep(left)) = Len(DistinctDeep(right))
                 /\ \A i \in 1 .. Len(left) : IncludesDeep(right, left[i]))
      [] op = "contains_all" -> Bool(\A i \in 1 .. Len(right) : IncludesDeep(left, right[i]))
      [] op = "contains_any" -> Bool(\E i \in 1 .. Len(right) : IncludesDeep(left, right[i]))
      [] op = "is_subset" -> Bool(\A i \in 1 .. Len(left) : IncludesDeep(right, left[i]))
      [] op = "is_superset" -> Bool(\A i \in 1 .. Len(right) : IncludesDeep(left, right[i]))
PairOps == {"zip", "concat", "union", "intersection", "difference", "symmetric_difference",
            "set_equals", "contains_all", "contains_any", "is_subset", "is_superset"}

(* len, count and is_empty. *)
SizeOf(v) ==
    CASE Is("list", v) -> Num(Len(v.list)) [] Is("dict", v) -> Num(Cardinality(DOMAIN v.dict))
      [] OTHER -> Err("type")

(* A builtin on values: its arity, then the kinds of its arguments. *)
Eager(op, args) ==
    IF Len(args) # Len(Signature[op]) THEN Err("arity")
    ELSE IF \E i \in 1 .. Len(args) : ~Fits(Signature[op][i], args[i]) THEN Err("type")
    ELSE CASE op \in ArithmeticOps -> Arithmetic(op, [i \in 1 .. Len(args) |-> AsInt(args[i])])
           [] op \in ComparisonOps -> Comparison(op, args[1], args[2])
           [] op \in TypeOps -> Bool(IsType(op, args[1]))
           [] op \in AccessOps -> Access(op, args)
           [] op \in ListOps -> OfList(op, args[1].list)
           [] op \in DictOps -> OfDict(op, args)
           [] op \in SequenceOps -> Sequence(op, args)
           [] op \in PairOps -> Pair(op, args[1].list, args[2].list)
           [] op = "sized" -> SizeOf(args[1])
           [] op = "identity" -> args[1]
           [] op = "not" -> Bool(~Truthy(args[1]))
=============================================================================
