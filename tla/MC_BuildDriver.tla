--------------------------- MODULE MC_BuildDriver ---------------------------
(***************************************************************************)
(* "beagle build" (BuildDriver), one call of the process runner every     *)
(* step of it makes (ProcessRunner), the code generation of the Go        *)
(* plan's prepare (CodeGen), and "beagle test" (TestDriver), checked in   *)
(* one run.  A behaviour follows one of the four, chosen by part in the   *)
(* initial state; the others stay in                                      *)
(* their initial states, on which their properties hold.  Fairness is     *)
(* the runner's and code generation's own, for their steps; the build and *)
(* test drivers have only safety properties and get none.                 *)
(***************************************************************************)
EXTENDS Naturals, TLC

CONSTANTS
    TargetChoices, MaxRuns, MaxEdits, Absent, Empty, None,   \* BuildDriver
    NumLines, PipeCap, InvalidChoices, ExitCodes,             \* ProcessRunner
    Workers, ListError, MaxLines, r1, r2, a, b, c, d,         \* CodeGen
    ta, tb, tz, inv                                           \* TestDriver

VARIABLES
    uiSrc, artifact, assets, binary, runs, targets, codegen, idx, pc, err,
    runSrc,                                                   \* BuildDriver
    written, pipe, child, rc, invalid, reader, capture, main, \* ProcessRunner
    needs, listFails, gpc, i, futures, yielded, queue, running, done, gerr,
    out, buf, log,                                            \* CodeGen
    store, tpc, flags, tidx, manifest, pending, terr, firstErr, exitCode,
    cleanups, prepared, gated, skipped, wrote,                \* TestDriver
    part          \* which of the four this behaviour follows

B == INSTANCE BuildDriver
R == INSTANCE ProcessRunner

\* Two workspace modules, the first with three packages and the second
\* with one.
MC_Roots == <<r1, r2>>
MC_Packages == (r1 :> {a, b, c}) @@ (r2 :> {d})
G == INSTANCE CodeGen WITH Roots <- MC_Roots, Packages <- MC_Packages, pc <- gpc, err <- gerr

buildVars == <<uiSrc, artifact, assets, binary, runs, targets, codegen, idx, pc, err,
              runSrc>>
runnerVars == <<written, pipe, child, rc, invalid, reader, capture, main>>
genVars == <<needs, listFails, gpc, i, futures, yielded, queue, running, done, gerr,
            out, buf, log>>
testVars == <<store, tpc, flags, tidx, manifest, pending, terr, firstErr, exitCode,
             cleanups, prepared, gated, skipped, wrote>>
vars == <<buildVars, runnerVars, genVars, testVars, part>>
Parts == {"build", "runner", "codegen", "test"}

\* One "beagle test" invocation over two test plans.  Targets: none, plan
\* tb, or tz, a word naming no plan (parse_known_args passes every argument
\* it does not know, a mistyped flag included, to run_tests as a target).
\* fetch_coverage returns 0.0 (the yarn plan without a coverage summary),
\* 78.5 (exactly at the tolerance below 80.0), 78.6 or 80.0.
T == INSTANCE TestDriver
        WITH TestPlans <- <<ta, tb>>, TargetChoices <- {{}, {tb}, {tz}},
             Coverage <- {0, 785, 786, 800}, Tolerance <- 15, Runs <- {inv},
             Overlap <- FALSE, CleanupMayFail <- TRUE,
             pc <- tpc, idx <- tidx, err <- terr

\* No targets, only the Go build, only the UI build.
MC_TargetChoices == {{}, {"bh"}, {"bh-ui"}}

\* The parts not followed sit in one initial state each: a child that
\* exits 0, no package needing generation and no go list failing.
RunnerIdle == R!Init /\ rc = 0
GenIdle == G!Init /\ needs = {} /\ listFails = {}

\* A single invocation uses one of the two stores, so both start with the
\* same manifest, any one a previous beagle could have persisted; when the
\* test driver is not followed, no manifest is stored.
TestInit == T!Init /\ store["cache"] = store["s3"]
TestIdle == TestInit /\ \A k \in T!Stores : store[k] = [legacy |-> FALSE, cov |-> T!EmptyManifest]

Init ==
    \/ part = "build" /\ B!Init /\ RunnerIdle /\ GenIdle /\ TestIdle
    \/ part = "runner" /\ B!Init /\ R!Init /\ GenIdle /\ TestIdle
    \/ part = "codegen" /\ B!Init /\ RunnerIdle /\ G!Init /\ TestIdle
    \/ part = "test" /\ B!Init /\ RunnerIdle /\ GenIdle /\ TestInit

BuildStep(A) == part = "build" /\ A /\ UNCHANGED <<runnerVars, genVars, testVars, part>>
RunnerStep(A) == part = "runner" /\ A /\ UNCHANGED <<buildVars, genVars, testVars, part>>
GenStep(A) == part = "codegen" /\ A /\ UNCHANGED <<buildVars, runnerVars, testVars, part>>
TestStep(A) == part = "test" /\ A /\ UNCHANGED <<buildVars, runnerVars, genVars, part>>

Next ==
    \/ BuildStep(B!Next) \/ RunnerStep(R!Next) \/ GenStep(G!Next)
    \/ TestStep(T!Next \/ (T!Done /\ UNCHANGED testVars))

Spec ==
    /\ Init /\ [][Next]_vars
    /\ WF_vars(RunnerStep(R!child_write)) /\ WF_vars(RunnerStep(R!child_exit))
    /\ WF_vars(RunnerStep(R!tee_line)) /\ WF_vars(RunnerStep(R!tee_eof))
    /\ WF_vars(RunnerStep(R!start_output_thread))
    /\ WF_vars(RunnerStep(R!process_wait))
    /\ WF_vars(RunnerStep(R!output_thread_join))
    /\ WF_vars(GenStep(G!go_generate)) /\ WF_vars(GenStep(G!modules_done))
    /\ WF_vars(GenStep(G!as_completed_next)) /\ WF_vars(GenStep(G!pool_shutdown))
    /\ WF_vars(GenStep(G!worker_start))
    /\ \A t \in G!AllTasks : WF_vars(GenStep(G!task_finish(t)))

TypeOK == part \in Parts /\ B!TypeOK /\ R!TypeOK /\ G!TypeOK /\ T!TypeOK

-----------------------------------------------------------------------------
\* run_builds follows the plan lifecycle of spec 4.5 (BuildDriver).
ImplementsPlanDriver == B!ImplementsPlanDriver

\* A "beagle build" of both plans that exits 0 embeds the whole UI built
\* from the current source (BuildDriver).
FreshUIWhenBuiltTogether == B!FreshUIWhenBuiltTogether

\* run's capture holds every line the child wrote, in order, when it
\* returns or raises (ProcessRunner).
CaptureComplete == R!CaptureComplete

\* A call of run returns or raises: the child, the reader thread and the
\* calling thread never all wait on one another (ProcessRunner).
RunReturns == part = "runner" => R!RunReturns

\* The Go plan's prepare implements the fan-out/join contract of spec 4.4
\* (CodeGen refines FanOutJoin).
ImplementsFanOutJoin == G!ImplementsFanOutJoin

\* The code generation of prepare returns or raises (CodeGen).
GenerationTerminates == part = "codegen" => G!GenerationTerminates

\* Cleanup always runs: once an invocation has left the try/finally of a
\* plan whose prepare() it entered, that plan's cleanup() has been invoked
\* once, whatever prepare() or run_tests() raised (TestDriver).
CleanupAlways == T!CleanupAlways

\* Exit status 0 from a run that was not interrupted means every plan was
\* deliberately skipped or gated and the manifest persisted where the flags
\* ask for it (TestDriver).
ExitZeroMeansGated == T!ExitZeroMeansGated

\* No persisted baseline falls by more than the tolerance in one write, and
\* a skipped plan's entry is left as it was (TestDriver).
PersistedBaselineSafe == T!PersistedBaselineSafe

\* run_tests follows the plan lifecycle of spec 4.5 and 4.6 (TestDriver
\* refines PlanDriver).
TestImplementsPlanDriver == T!ImplementsPlanDriver
=============================================================================
