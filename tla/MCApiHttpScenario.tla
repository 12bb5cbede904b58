------------------------- MODULE MCApiHttpScenario -------------------------
EXTENDS ApiHttpScenario

(* Templates: none, the step before, and a step that is yet to come. *)
RefsOf(n) ==
    {[k \in 1 .. n |-> {}], [k \in 1 .. n |-> IF k = 1 THEN {} ELSE {k - 1}]}
    \cup (IF n = 1 THEN {} ELSE {[k \in 1 .. n |-> IF k = 1 THEN {2} ELSE {}]})

AllScenarios ==
    UNION {[n : {n}, refs : RefsOf(n), failFast : BOOLEAN, setup : Setups,
            teardown : Teardowns, deaf : BOOLEAN] : n \in 1 .. 3}

BadTeardown == {s \in AllScenarios : s.n = 1 /\ s.setup = "probe"
                                     /\ s.teardown \in {"missing", "invalid"}}
=============================================================================
