---------------------------- MODULE Conformance ----------------------------
(***************************************************************************)
(* The conformance cases run by two implementations, and the parity        *)
(* command that compares both reports with the expectations of the cases   *)
(* and, where the expectations agree and both are capable, with each other. *)
(* Messages are left out; an outcome is a status and a category.           *)
(***************************************************************************)
EXTENDS Naturals, Sequences, SequencesExt, FiniteSets

CONSTANTS
    CaseDefs,  \* the cases a tree is made of
    MaxCases   \* bound on the cases of a tree

Impls == {"python", "php"}

(* Every capability of the PHP runner is one of the Python runner too. *)
Caps == {"shared", "python_only", "unknown"}
Has == [python |-> {"shared", "python_only"}, php |-> {"shared"}]

None == "none"
Pass == [status |-> "pass", category |-> None]
Skip == [status |-> "skip", category |-> None]
Fail(category) == [status |-> "fail", category |-> category]
Outcome == {Pass, Skip} \cup {Fail(c) : c \in {"schema", "assertion", "runtime"}}
NoOutcome == [status |-> None, category |-> None]

CaseDef == [id : STRING,
            requires : {None, "malformed", "well"},      \* requires, and its list
            needs : SUBSET Caps,
            whenMissing : {"fail", "skip", "other"},
            expect : Outcome \cup {NoOutcome},           \* expect.portable; none: invalid
            override : [Impls -> Outcome \cup {NoOutcome}],
            does : [Impls -> Outcome]]                   \* what running it comes to

ConformanceAssumption ==
    /\ CaseDefs \subseteq CaseDef
    /\ MaxCases \in Nat \ {0}

VARIABLES
    cases,     \* the cases of the tree, in the order of the files
    only,      \* --python-only
    reports,   \* implementation -> its report, a sequence of [id, outcome]
    pc,        \* python, php, check, ended
    errors,    \* what the parity command found
    artifact,  \* what it wrote: missing, mismatch, shape
    exit       \* its exit code, "raised" for an error nobody caught

vars == <<cases, only, reports, pc, errors, artifact, exit>>

NoReport == <<[id |-> "none", outcome |-> NoOutcome]>>
Error(kind, impl, id) == [kind |-> kind, impl |-> impl, id |-> id]

NoArtifact == [missing |-> {Error(None, None, None)}, mismatch |-> {}, shape |-> {}]
Ids == {cases[i].id : i \in 1 .. Len(cases)}

-----------------------------------------------------------------------------
(* What the cases expect, and what an implementation makes of them.        *)

(* Cases of one id share one entry: the last one counts. *)
LastOf(id) == cases[CHOOSE i \in 1 .. Len(cases) :
                        /\ cases[i].id = id
                        /\ \A j \in i + 1 .. Len(cases) : cases[j].id # id]

(* An expectation without a status is refused when the tree is loaded. *)
Loadable == \A i \in 1 .. Len(cases) : cases[i].expect # NoOutcome

Expected(case, impl) ==
    IF case.override[impl] # NoOutcome THEN case.override[impl] ELSE case.expect

(* Slip: a missing capability is an ordinary failure or no failure. *)
RunsAnyway(case, impl) == NoOutcome
RequiresOutcome(case, impl) ==
    CASE case.requires = None -> NoOutcome
      [] case.requires = "malformed" -> Fail("schema")
      [] case.whenMissing = "other" -> Fail("schema")
      [] case.needs \subseteq Has[impl] -> NoOutcome
      [] case.whenMissing = "skip" -> Skip
      [] OTHER -> Fail("runtime")

(* Every exception of a case, an interrupt included, is a result. *)
ResultOf(case, impl) ==
    LET pre == RequiresOutcome(case, impl)
    IN  [id |-> case.id, outcome |-> IF pre # NoOutcome THEN pre ELSE case.does[impl]]

RunCases(impl) == [i \in 1 .. Len(cases) |-> ResultOf(cases[i], impl)]

-----------------------------------------------------------------------------
(* Comparing reports.                                                       *)

Reported(impl) == {reports[impl][i].id : i \in 1 .. Len(reports[impl])}
Got(impl, id) ==
    reports[impl][CHOOSE i \in 1 .. Len(reports[impl]) :
                      /\ reports[impl][i].id = id
                      /\ \A j \in i + 1 .. Len(reports[impl]) : reports[impl][j].id # id].outcome

(* Slip: a case that is not in the report is not compared. *)
ReportedOnly(impl) ==
    {Error("unexpected", impl, id) : id \in {x \in Reported(impl) :
        x \in Ids => Got(impl, x) # Expected(LastOf(x), impl)}}
CompareWithExpected(impl) ==
    {Error("absent", impl, id) : id \in Ids \ Reported(impl)}
    \cup {Error("differs", impl, id) : id \in {x \in Ids \cap Reported(impl) :
            Got(impl, x) # Expected(LastOf(x), impl)}}
    \cup {Error("unexpected", impl, id) : id \in Reported(impl) \ Ids}

SharedExpectation == {id \in Ids : Expected(LastOf(id), "python") = Expected(LastOf(id), "php")}

(* A case whose requires is missing or malformed stays in scope; one id is *)
(* in scope when one of its cases is.                                      *)
SharedCapability ==
    {cases[i].id : i \in {j \in 1 .. Len(cases) :
        cases[j].requires = "well" => cases[j].needs \subseteq Has["python"] \cap Has["php"]}}

CompareParity ==
    LET scope == SharedExpectation \cap SharedCapability
    IN  {Error("missing", impl, id) : impl \in Impls, id \in scope \ (Reported("python") \cap Reported("php"))}
        \cup {Error("mismatch", "both", id) : id \in
               {x \in scope \cap Reported("python") \cap Reported("php") : Got("python", x) # Got("php", x)}}

Malformed(impl) == \E i \in 1 .. Len(reports[impl]) : reports[impl][i].outcome \notin Outcome

(* Errors under the three headings of the artefact.                        *)
Artifact(errs) == [missing  |-> {e \in errs : e.kind = "missing"},
                   mismatch |-> {e \in errs : e.kind \in {"absent", "differs", "unexpected", "mismatch"}},
                   shape    |-> {e \in errs : e.kind \in {"shape", "crash"}}]

-----------------------------------------------------------------------------
Conclude(errs) ==
    /\ errors' = errs
    /\ artifact' = Artifact(errs)
    /\ exit' = IF errs = {} THEN "0" ELSE "1"
    /\ pc' = "ended"

Raise ==
    /\ exit' = "raised"
    /\ pc' = "ended"
    /\ UNCHANGED <<errors, artifact>>

(* A runner that times out or exits with a code of its own. *)
RunnerFails(impl) ==
    /\ pc = impl
    /\ Conclude({Error("crash", impl, None)})
    /\ UNCHANGED <<cases, only, reports>>

(* The Python runner writes its report whatever the results were. *)
PythonReports ==
    /\ pc = "python"
    /\ reports' = [reports EXCEPT !["python"] = RunCases("python")]
    /\ pc' = IF only THEN "check" ELSE "php"
    /\ UNCHANGED <<cases, only, errors, artifact, exit>>

(* It cannot load the cases: it exits with 1, an accepted code, and leaves *)
(* no report; reading it is an error that the command does not catch.      *)
PythonLoadFails ==
    /\ pc = "python"
    /\ Raise
    /\ UNCHANGED <<cases, only, reports>>

(* The other runner is a program of its own: it may leave out a case or    *)
(* report one with no valid status.                                        *)
PhpReports ==
    /\ pc = "php"
    /\ LET whole == RunCases("php")
       IN  \E r \in {whole, Tail(whole), [whole EXCEPT ![1].outcome = NoOutcome]} :
               reports' = [reports EXCEPT !["php"] = r]
    /\ pc' = "check"
    /\ UNCHANGED <<cases, only, errors, artifact, exit>>

(* run_parity_check: the shape first; then the expectations, which may not *)
(* load; then every comparison.                                            *)
Check ==
    /\ pc = "check"
    /\ LET shape == {Error("shape", i, None) : i \in {x \in Impls : reports[x] # NoReport /\ Malformed(x)}}
       IN  IF shape # {} /\ ~only THEN Conclude(shape)
           ELSE IF ~Loadable THEN Raise
           ELSE IF only THEN Conclude(CompareWithExpected("python"))
           ELSE Conclude(CompareWithExpected("python") \cup CompareWithExpected("php") \cup CompareParity)
    /\ UNCHANGED <<cases, only, reports>>

Ended == pc = "ended" /\ UNCHANGED vars

Init ==
    /\ cases \in UNION {[1 .. n -> CaseDefs] : n \in 1 .. MaxCases}
    /\ only \in BOOLEAN
    /\ reports = [i \in Impls |-> NoReport]
    /\ pc = "python"
    /\ errors = {}
    /\ artifact = NoArtifact
    /\ exit = "none"

Next ==
    \/ \E impl \in Impls : RunnerFails(impl)
    \/ PythonReports \/ PythonLoadFails \/ PhpReports \/ Check \/ Ended

Spec == Init /\ [][Next]_vars

-----------------------------------------------------------------------------
(* Reports name cases of the tree, errors are of the known kinds (the      *)
(* reports and the artefact of the parity command).                        *)
TypeOK ==
    /\ \A i \in 1 .. Len(cases) : cases[i] \in CaseDefs
    /\ pc \in {"python", "php", "check", "ended"}
    /\ \A impl \in Impls : reports[impl] = NoReport \/ Reported(impl) \subseteq Ids
    /\ \A e \in errors : e.kind \in {"crash", "shape", "absent", "differs", "unexpected", "missing", "mismatch"}
    /\ exit \in {"none", "0", "1", "raised"}

(* When the command says that parity holds, every case of an id of its own *)
(* came to what its implementation is expected to come to, and any two     *)
(* implementations that differ on a case are expected to, case by case, or *)
(* one of them lacks a capability of it.                                   *)
ParityMeansAgreement ==
    exit = "0" =>
        \A i \in 1 .. Len(cases) :
            (\A j \in 1 .. Len(cases) : cases[j].id = cases[i].id => j = i) =>
                LET c == cases[i]
                    impls == IF only THEN {"python"} ELSE Impls
                    cameTo(impl) == ResultOf(c, impl).outcome
                IN  /\ \A impl \in impls :
                         cameTo(impl) = (IF c.override[impl] # NoOutcome THEN c.override[impl] ELSE c.expect)
                    /\ ~only /\ cameTo("python") # cameTo("php") =>
                         \E impl \in Impls : c.override[impl] # NoOutcome

(* A case that asks for a capability the implementation lacks never passes *)
(* there: it is skipped or fails, so no report claims what cannot be.      *)
NoPassWithoutCapability ==
    \A impl \in Impls : reports[impl] # NoReport =>
        \A i \in 1 .. Len(reports[impl]) :
            reports[impl][i].outcome.status = "pass" =>
                \E j \in 1 .. Len(cases) :
                    /\ cases[j].id = reports[impl][i].id
                    /\ cases[j].requires = "well" => cases[j].needs \subseteq Has[impl]

(* Every failure the command ends on is in the artefact, under one of its  *)
(* headings ("Keep all non-diff failures visible").                        *)
FailuresAreInTheArtifact ==
    exit = "1" =>
        /\ errors # {}
        /\ artifact.missing \cup artifact.mismatch \cup artifact.shape = errors
=============================================================================
