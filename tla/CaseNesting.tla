----------------------------- MODULE CaseNesting -----------------------------
(***************************************************************************)
(* What run_case (dispatcher.py) promises of a tree of nested case runs,   *)
(* whatever the chains between the cases say:                              *)
(*   - a case is never entered while it is still open;                     *)
(*   - cases are left in the reverse order of their entry, and each one    *)
(*     leaves exactly one profile row, written as it is left;              *)
(*   - a BaseException that is not an Exception unwinds every open case.   *)
(* ChainExecution is the detailed specification; it implements this one.   *)
(***************************************************************************)
EXTENDS Naturals, Sequences

CONSTANT Cases

VARIABLES
    open,       \* the cases entered and not left, outermost first
    rows,       \* profile rows, oldest first
    unwinding,  \* an abort is on its way out
    verdict     \* the outcome of the outermost case, or "running"

vars == <<open, rows, unwinding, verdict>>

Status == {"pass", "fail", "abort"}
Row == [case : Cases, status : {"pass", "fail"}]

\* The row's status: the handler catches BaseException, so an abort is a fail.
RowStatus(s) == IF s = "pass" THEN "pass" ELSE "fail"

Init ==
    /\ \E c \in Cases : open = <<c>>
    /\ rows = <<>>
    /\ unwinding = FALSE
    /\ verdict = "running"

Enter(c) ==
    /\ open # <<>>
    /\ ~unwinding
    /\ \A i \in DOMAIN open : open[i] # c
    /\ open' = Append(open, c)
    /\ UNCHANGED <<rows, unwinding, verdict>>

Leave(s) ==
    /\ open # <<>>
    /\ unwinding => s = "abort"
    /\ open' = SubSeq(open, 1, Len(open) - 1)
    /\ rows' = Append(rows, [case |-> open[Len(open)], status |-> RowStatus(s)])
    /\ unwinding' = (s = "abort" /\ Len(open) > 1)
    /\ verdict' = IF Len(open) = 1 THEN s ELSE verdict

Next == (\E c \in Cases : Enter(c)) \/ (\E s \in Status : Leave(s))

Spec == Init /\ [][Next]_vars
=============================================================================
