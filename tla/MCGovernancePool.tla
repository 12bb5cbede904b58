-------------------------- MODULE MCGovernancePool --------------------------
EXTENDS GovernancePool

(* The hang, if any, and the failure are of different cases. *)
RunsOf(ns, ws, stalls, prompts) ==
    {r \in [n : ns, filtered : BOOLEAN, workers : ws, stall : stalls,
            fails : {{}, {1}}, hangs : {{}, {2}}, prompt : prompts] :
        /\ r.filtered => r.n = 0
        /\ r.fails \cup r.hangs \subseteq 1 .. r.n}

(* All the options with a prompt pool, up to one case more than threads;   *)
(* with any delays, the smallest pool that has to wait and one that queues. *)
PromptRuns == RunsOf(0 .. 3, {-1, 0, 3}, BOOLEAN, {TRUE})
SlowRuns == RunsOf({1, 2}, {0}, BOOLEAN, {FALSE})
            \cup {r \in RunsOf({3}, {0}, {TRUE}, {FALSE}) : r.fails = {1} /\ r.hangs = {}}
AllRuns == PromptRuns \cup SlowRuns
OneHang == {r \in RunsOf({3}, {0}, {TRUE}, {TRUE}) : r.fails = {} /\ r.hangs = {2}}
=============================================================================
