--------------------------- MODULE ChainCheckInputs ---------------------------
(* Small trees and graphs for the chain checks. *)
EXTENDS ChainChecks

SeqsUpTo(S, n) == UNION {[1 .. k -> S] : k \in 0 .. n}

(* Trees: a consumer before a producer of another document, of which every *)
(* part may be wrong, and three cases whose steps lead to one another.     *)
Step(id, class, ref) == [id |-> id, class |-> class, ref |-> ref, imports |-> FALSE]
Ref(doc, id) == [doc |-> doc, id |-> id]
Steps == {Step("s", class, Ref("e", "p")) : class \in {"MUST", "MUST_NOT", "must"}}
         \cup {Step("s", "MAY", ref) : ref \in {Ref("e", ""), Ref("", "p"), Ref("", "other"), Ref("x", ""), Ref("", ""), Bad}}
         \cup {Step("t", "MUST", Ref("e", "p")), Step("", "MUST", Ref("e", "p")),
               [Step("t", "MUST", Ref("e", "p")) EXCEPT !.imports = TRUE]}
Import(from, names, as) == [from |-> from, names |-> names, as |-> as]
Imports == {Import("s", names, <<>>) : names \in {<<"x">>, <<"x", "y">>, <<>>, <<"x", "x">>, <<"pub">>, <<"call">>}}
           \cup {Import("t", <<"x">>, <<>>), Import("t", <<"x">>, [x |-> "x2"]), Import("s", <<"x">>, [x |-> "if"]),
                 Import("s", <<"x">>, [y |-> "z"]), Import("s", <<"x">>, [x |-> ""])}
Export(name, path) == [as |-> name, from |-> "assert.function", path |-> path, doc |-> FALSE]
ExportLists == {None, Bad} \cup {Listed(l) : l \in
    {<<Export("x", "ok"), Export("y", "ok")>>, <<Export("x", "ok"), Export("x", "ok")>>, <<Export("x", "may")>>,
     <<Export("x", "ok"), Export("call", "lost")>>, <<Export("x", "")>>, <<Export("", "ok")>>,
     <<[Export("x", "ok") EXCEPT !.from = "target"]>>}}
Good == Listed(<<Export("x", "ok"), Export("y", "ok")>>)
Maybe(S) == {None, Bad} \cup {Listed(seq) : seq \in SeqsUpTo(S, 2)}
OneStep == {Listed(<<Step("s", "MUST", Ref("e", "p"))>>),
            Listed(<<Step("s", "MAY", Ref("e", "")), Step("t", "MUST", Ref("e", "p"))>>)}
Chain(steps, imports) == [steps |-> steps, imports |-> imports, exports |-> FALSE, flags_ok |-> TRUE]
Case(doc, id, chain, exports) ==
    [doc |-> doc, id |-> id, type |-> "text.file", chain |-> chain, exports |-> exports, public |-> {},
     clauses |-> [kind |-> "mapping", class |-> [ok |-> "MUST", may |-> "MAY"]], misplaced |-> FALSE]
Consumer(steps, imports) == Case("d", "c", Chain(steps, imports), None)
Chains == {Consumer(s, i) : s \in Maybe(Steps), i \in {None, Listed(<<Import("s", <<"x">>, <<>>)>>)}}
          \cup {Consumer(s, i) : s \in OneStep, i \in Maybe(Imports)}
          \cup {[Consumer(s, None) EXCEPT !.chain.exports = e, !.chain.flags_ok = ~e, !.misplaced = m, !.type = "spec.export"] :
                    s \in OneStep \cup {Listed(<<>>)}, e \in BOOLEAN, m \in BOOLEAN}
Documented == Listed(<<[Export("x", "ok") EXCEPT !.doc = TRUE]>>)
Contracts == {[Case("e", "p", None, e) EXCEPT !.type = "contract.export", !.clauses.kind = "list"] : e \in {Good, Documented, None}}
Producers == {Case("e", "p", None, e) : e \in ExportLists \cup {Documented}}
             \cup {[Case("e", "p", None, Good) EXCEPT !.clauses.kind = "list"]} \cup Contracts
             \cup {[Case("e", "p", None, None) EXCEPT !.type = "spec_lang.export", !.public = {"x", "pub"}]}
Sources == {<<p>> : p \in Producers} \cup {<<Case("e", "p", None, Good), Case("e", id, None, None)>> : id \in {"p", "q", ""}}
Trees == {<<c>> \o p : c \in Chains, p \in Sources}

Targets == {Ref("d", "c"), Ref("", "p"), Ref("e", "p"), Ref("e", "")}
To(ref, imported) == Chain(Listed(<<Step("s", "MUST", ref)>>),
                           IF imported THEN Listed(<<Import("s", <<"x">>, <<>>)>>) ELSE None)
Links == {None} \cup {To(ref, i) : ref \in Targets, i \in BOOLEAN}
         \cup {Chain(Listed(<<Step("s", "MUST", one), Step("t", "MAY", other)>>), None) : one \in Targets, other \in Targets}
Circles == {<<Case("d", "c", one, Good), Case("e", "p", two, Good), Case("e", id, three, Good)>> :
               one \in Links, two \in Links, three \in Links, id \in {"q", ""}}
GraphSet == UNION {[1 .. n -> SUBSET (1 .. n)] : n \in 1 .. 3}
=============================================================================
