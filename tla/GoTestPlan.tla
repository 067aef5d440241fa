----------------------------- MODULE GoTestPlan -----------------------------
(***************************************************************************)
(* GolangWorkspaceTestPlan of golang.py, for the module list workspace_    *)
(* modules returned when the plan was built.  run_tests runs "go test      *)
(* -coverprofile <cache>/<name>.coverage" in each module's directory, one  *)
(* after another; a failing go test raises CommandException.              *)
(* fetch_coverage then runs "go tool cover -func" on each module's profile *)
(* in the same order, takes the percentage of its "total:" line (raising  *)
(* TestException when there is none), and returns the sum divided by the *)
(* number of modules.  The profile is named after the module's name, the   *)
(* last element of its import path, so two modules of one name share one  *)
(* profile file.                                                          *)
(*                                                                         *)
(* The code is sequential: both loops are recursive operators, and the     *)
(* plan's input (the modules, each directory's test result and the cover  *)
(* tool's total for the profile go test writes there) is fixed in Init.   *)
(***************************************************************************)
EXTENDS Naturals, Sequences, SequencesExt

CONSTANTS
    Paths,        \* module directories
    Idents,       \* module import paths
    NameOf,       \* NameOf[i]: module_def.split("/")[-1], the module's name
    ModuleLists,  \* the module lists the plan may hold
    Pcts,         \* the percentages a "total:" line may carry
    NoTotal       \* cover output without a "total:" line

GoModule(p, i) == [path |-> p, module |-> i]

\* The outcome of run_tests then fetch_coverage: the exception raised, or
\* "none" with the sum of the percentages and the module count.
Outcome(raised, total, num) == [raised |-> raised, total |-> total, num |-> num]

Raised(e) == Outcome(e, 0, 0)

-----------------------------------------------------------------------------
(* The code.                                                               *)

\* _module_coverage_path: cache_path(f"{module.name}.coverage").
ProfileOf(m) == NameOf[m.module]

\* run_tests: _run_module_tests for each module in order; go test writes the
\* module's profile, and a non-zero exit raises CommandException from
\* run_logged.  The result maps each profile name to the directory whose
\* go test wrote it last.
RECURSIVE RunTests(_, _, _)
RunTests(ms, passed, profiles) ==
    IF ms = <<>> THEN [raised |-> "none", profiles |-> profiles]
    ELSE LET m == Head(ms)
             written == profiles @@ (ProfileOf(m) :> m.path)
         IN  IF passed[m.path] THEN RunTests(Tail(ms), passed, written)
             ELSE [raised |-> "CommandException", profiles |-> written]

\* The loop of fetch_coverage: _fetch_module_coverage reads the profile
\* named after the module; a cover output without "total:" raises
\* TestException; the division by num_modules raises ZeroDivisionError when
\* the list is empty.
RECURSIVE FetchCoverage(_, _, _, _, _)
FetchCoverage(ms, cover, profiles, total_coverage, num_modules) ==
    IF ms = <<>>
    THEN IF num_modules = 0 THEN Raised("ZeroDivisionError")
         ELSE Outcome("none", total_coverage, num_modules)
    ELSE LET out == cover[profiles[ProfileOf(Head(ms))]] IN
         IF out = NoTotal THEN Raised("TestException")
         ELSE FetchCoverage(Tail(ms), cover, profiles, total_coverage + out,
                            num_modules + 1)

\* _run_test_plan's calls on a Go plan: prepare and cleanup do nothing,
\* run_tests, then fetch_coverage from _gate_coverage.
TestPlanOutcome(ms, passed, cover) ==
    LET run == RunTests(ms, passed, <<>>) IN
    IF run.raised # "none" THEN Raised(run.raised)
    ELSE FetchCoverage(ms, cover, run.profiles, 0, 0)

-----------------------------------------------------------------------------
VARIABLES
    modules,  \* the plan's _workspace_modules
    passed,   \* passed[p]: go test in directory p exits 0
    cover     \* cover[p]: the total of the profile go test writes in p

vars == <<modules, passed, cover>>

Init ==
    /\ modules \in ModuleLists
    /\ passed \in [Paths -> BOOLEAN]
    /\ cover \in [Paths -> Pcts \cup {NoTotal}]

\* What the plan's run_tests and fetch_coverage end with on this input.
PlanOutcome == TestPlanOutcome(modules, passed, cover)

\* The input is fixed; the run checks the plan on every initial state.
Next == UNCHANGED vars

Spec == Init /\ [][Next]_vars

-----------------------------------------------------------------------------
(* Properties.                                                             *)

=============================================================================
