----------------------------- MODULE TestDriver -----------------------------
(***************************************************************************)
(* The "beagle test" action: main() in main.py driving run_tests() of      *)
(* beagle/test.py over the registered test plans, with the coverage        *)
(* manifest of beagle/project/project.py persisted between invocations.   *)
(*                                                                         *)
(* Each element of Runs is one beagle process.  A process walks the plans *)
(* in registration order; for each selected plan it runs prepare and      *)
(* run_tests inside try/finally with cleanup, then gates the coverage.    *)
(* The manifest is read once at the start of a run and written once at    *)
(* the end, to the local cache file or to the S3 object.  The persisted   *)
(* stores outlive the processes, so several runs one after the other (or, *)
(* when Overlap is TRUE, at the same time) are checked together.          *)
(*                                                                         *)
(* Coverage percentages are integers in tenths of a percent.              *)
(***************************************************************************)
EXTENDS Naturals, Integers, Sequences, FiniteSets

CONSTANTS
    TestPlans,      \* plans.test_plans: a sequence of distinct plan names
    TargetChoices,  \* the sets of positional target names an invocation may pass
    Coverage,       \* the coverage values fetch_coverage may return (tenths of a percent)
    Tolerance,      \* the regression tolerance of _gate_coverage (1.5 points = 15)
    Runs,           \* the beagle invocations
    Overlap,        \* may two invocations be active at the same time
    CleanupMayFail, \* may a plan's cleanup() raise (the TestPlan contract allows it)
    Absent,         \* no entry for a plan in a manifest
    None            \* no exception / no exit code yet

Plans == {TestPlans[i] : i \in DOMAIN TestPlans}

ASSUME /\ Len(TestPlans) = Cardinality(Plans)
       /\ Coverage \subseteq Nat /\ Tolerance \in Nat
       /\ Overlap \in BOOLEAN /\ CleanupMayFail \in BOOLEAN

\* The two places a manifest is persisted: the local cache file and the S3 object.
Stores == {"cache", "s3"}

\* The exceptions that end a run, by the except clause of main() that sees them.
Errors == {"interrupt", "test", "command", "system_exit", "other"}

\* The exit status main() gives each exception (main.py:132-151); an
\* exception main() does not catch ends Python with status 1.
ExitStatus(e) ==
    CASE e = None        -> 0
      [] e = "interrupt" -> 0
      [] e = "test"      -> 2
      [] OTHER           -> 1

VARIABLES
    store,     \* store[k]: the persisted manifest, [legacy, cov]; legacy means it was
               \* pickled by a beagle whose classes no longer import
    pc,        \* pc[r]: the step invocation r is at
    flags,     \* flags[r]: local, targeted, upload and targets of invocation r
    idx,       \* idx[r]: position in TestPlans of the plan invocation r handles
    manifest,  \* manifest[r]: the in-memory CoverageManifest of invocation r
    pending,   \* pending[r]: the exception raised inside the try of _run_test_plan
    err,       \* err[r]: the exception that ended invocation r, or None
    firstErr,  \* firstErr[r]: the first exception raised in invocation r (history)
    exitCode,  \* exitCode[r]: the exit status of invocation r, or None
    cleanups,  \* cleanups[r][p]: how many times cleanup() of plan p was invoked by r
    prepared,  \* prepared[r]: the plans whose prepare() invocation r entered
    gated,     \* gated[r]: the plans whose coverage invocation r gated
    skipped,   \* skipped[r]: the plans invocation r skipped
    wrote      \* wrote[r]: invocation r persisted its manifest

vars == <<store, pc, flags, idx, manifest, pending, err, firstErr, exitCode,
          cleanups, prepared, gated, skipped, wrote>>

Manifests == [Plans -> Coverage \cup {Absent}]
EmptyManifest == [p \in Plans |-> Absent]
Active(r) == pc[r] \notin {"idle", "done"}
Plan(r) == TestPlans[idx[r]]
StoreOf(r) == IF flags[r].local THEN "cache" ELSE "s3"

TypeOK ==
    /\ store \in [Stores -> [legacy : BOOLEAN, cov : Manifests]]
    /\ pc \in [Runs -> {"idle", "start_services", "read", "select", "prepare",
                        "run_tests", "cleanup", "gate", "write", "stop_services", "done"}]
    /\ flags \in [Runs -> [local : BOOLEAN, targeted : BOOLEAN, upload : BOOLEAN,
                           targets : TargetChoices]]
    /\ idx \in [Runs -> 1..Len(TestPlans) + 1]
    /\ manifest \in [Runs -> Manifests]
    /\ pending \in [Runs -> Errors \cup {None}]
    /\ err \in [Runs -> Errors \cup {None}]
    /\ firstErr \in [Runs -> Errors \cup {None}]
    /\ exitCode \in [Runs -> {None, 0, 1, 2}]
    /\ cleanups \in [Runs -> [Plans -> 0..1]]   \* at most one cleanup() per plan
    /\ prepared \in [Runs -> SUBSET Plans]
    /\ gated \in [Runs -> SUBSET Plans]
    /\ skipped \in [Runs -> SUBSET Plans]
    /\ wrote \in [Runs -> BOOLEAN]

\* A previous beagle left either nothing or a baseline in each store, in the
\* current or a legacy pickle format.
Init ==
    /\ store \in [Stores -> [legacy : BOOLEAN, cov : [Plans -> {Absent} \cup Coverage]]]
    /\ pc = [r \in Runs |-> "idle"]
    /\ flags = [r \in Runs |-> [local |-> TRUE, targeted |-> FALSE, upload |-> FALSE,
                                targets |-> {}]]
    /\ idx = [r \in Runs |-> 1]
    /\ manifest = [r \in Runs |-> EmptyManifest]
    /\ pending = [r \in Runs |-> None]
    /\ err = [r \in Runs |-> None]
    /\ firstErr = [r \in Runs |-> None]
    /\ exitCode = [r \in Runs |-> None]
    /\ cleanups = [r \in Runs |-> [p \in Plans |-> 0]]
    /\ prepared = [r \in Runs |-> {}]
    /\ gated = [r \in Runs |-> {}]
    /\ skipped = [r \in Runs |-> {}]
    /\ wrote = [r \in Runs |-> FALSE]

\* Exception e propagates out of run_tests to main(), which maps it to an
\* exit status; the finally of main() (teardown) does nothing.
Raise(r, e) ==
    /\ pc' = [pc EXCEPT ![r] = "done"]
    /\ err' = [err EXCEPT ![r] = e]
    /\ firstErr' = [firstErr EXCEPT ![r] = IF @ = None THEN e ELSE @]
    /\ exitCode' = [exitCode EXCEPT ![r] = ExitStatus(e)]

NextPlan(r) ==
    /\ idx' = [idx EXCEPT ![r] = @ + 1]
    /\ pc' = [pc EXCEPT ![r] = "select"]

\* A run that left every step normally exits 0.
Finish(r) ==
    /\ pc' = [pc EXCEPT ![r] = "done"]
    /\ exitCode' = [exitCode EXCEPT ![r] = 0]

\* Exception e is raised inside the try of _run_test_plan: the finally
\* clause runs cleanup next.
Throw(r, e) ==
    /\ pending' = [pending EXCEPT ![r] = e]
    /\ firstErr' = [firstErr EXCEPT ![r] = IF @ = None THEN e ELSE @]
    /\ pc' = [pc EXCEPT ![r] = "cleanup"]

\* The float comparison current - previous <= -1.5 of _gate_coverage.  Away
\* from the boundary it is exact; at a difference of exactly 1.5 points the
\* binary difference of the two decimals can fall on either side.
Regressed(cur, prev) ==
    IF cur - prev = -Tolerance THEN BOOLEAN ELSE {cur - prev < -Tolerance}

\* The plan is not among the positional targets of invocation r.
NotTargeted(r, p) == flags[r].targets # {} /\ p \notin flags[r].targets

-----------------------------------------------------------------------------
(* main(): parse the arguments, build the project context and enter        *)
(* run_tests, which starts the integration services in CI.                 *)
main_start(r) ==
    /\ pc[r] = "idle"
    /\ Overlap \/ \A o \in Runs \ {r} : ~Active(o)
    /\ \E local, targeted, upload \in BOOLEAN, targets \in TargetChoices :
          /\ flags' = [flags EXCEPT ![r] = [local |-> local, targeted |-> targeted,
                                            upload |-> upload, targets |-> targets]]
          /\ pc' = [pc EXCEPT ![r] = IF local THEN "read" ELSE "start_services"]
    /\ UNCHANGED <<store, idx, manifest, pending, err, firstErr, exitCode,
                   cleanups, prepared, gated, skipped, wrote>>

\* _start_integration_test_services: two run() calls, either may raise.
start_integration_test_services(r) ==
    /\ pc[r] = "start_services"
    /\ \/ /\ pc' = [pc EXCEPT ![r] = "read"]
          /\ UNCHANGED <<err, firstErr, exitCode>>
       \/ Raise(r, "command")
    /\ UNCHANGED <<store, flags, idx, manifest, pending, cleanups, prepared,
                   gated, skipped, wrote>>

\* read_coverage_manifest: a manifest that does not unpickle
\* (ModuleNotFoundError) is replaced by an empty one; an S3 error propagates.
read_coverage_manifest(r) ==
    /\ pc[r] = "read"
    /\ LET k == StoreOf(r) IN
       \/ /\ manifest' = [manifest EXCEPT ![r] =
                             IF store[k].legacy THEN EmptyManifest ELSE store[k].cov]
          /\ pc' = [pc EXCEPT ![r] = "select"]
          /\ UNCHANGED <<err, firstErr, exitCode>>
       \/ /\ ~flags[r].local
          /\ Raise(r, "other")
          /\ UNCHANGED manifest
    /\ UNCHANGED <<store, flags, idx, pending, cleanups, prepared, gated, skipped, wrote>>

\* Mutant of select_plan: the change check runs with --all-tests too.
select_plan_always_scoped(r) ==
    /\ pc[r] = "select"
    /\ \/ /\ idx[r] > Len(TestPlans)
          /\ pc' = [pc EXCEPT ![r] = "write"]
          /\ UNCHANGED <<idx, skipped, prepared>>
       \/ /\ idx[r] <= Len(TestPlans)
          /\ skipped' = [skipped EXCEPT ![r] = @ \cup {Plan(r)}]
          /\ NextPlan(r)
          /\ UNCHANGED prepared
       \/ /\ idx[r] <= Len(TestPlans)
          /\ ~NotTargeted(r, Plan(r))
          /\ prepared' = [prepared EXCEPT ![r] = @ \cup {Plan(r)}]
          /\ pc' = [pc EXCEPT ![r] = "prepare"]
          /\ UNCHANGED <<idx, skipped>>
    /\ UNCHANGED <<store, flags, manifest, pending, err, firstErr, exitCode,
                   cleanups, gated, wrote>>

\* One iteration of the loop of run_tests: the target filter, the change
\* check (git_path_has_changes, either answer) and the call of _run_test_plan;
\* past the last plan, the manifest is written.
select_plan(r) ==
    /\ pc[r] = "select"
    /\ \/ /\ idx[r] > Len(TestPlans)
          /\ pc' = [pc EXCEPT ![r] = "write"]
          /\ UNCHANGED <<idx, skipped, prepared>>
       \/ /\ idx[r] <= Len(TestPlans)
          /\ \/ NotTargeted(r, Plan(r))
             \/ ~NotTargeted(r, Plan(r)) /\ flags[r].targeted
          /\ skipped' = [skipped EXCEPT ![r] = @ \cup {Plan(r)}]
          /\ NextPlan(r)
          /\ UNCHANGED prepared
       \/ /\ idx[r] <= Len(TestPlans)
          /\ ~NotTargeted(r, Plan(r))
          /\ prepared' = [prepared EXCEPT ![r] = @ \cup {Plan(r)}]
          /\ pc' = [pc EXCEPT ![r] = "prepare"]
          /\ UNCHANGED <<idx, skipped>>
    /\ UNCHANGED <<store, flags, manifest, pending, err, firstErr, exitCode,
                   cleanups, gated, wrote>>

\* Mutant of prepare: the call made before the try, so that its exception
\* propagates without cleanup.
prepare_outside_try(r) ==
    /\ pc[r] = "prepare"
    /\ \/ /\ pc' = [pc EXCEPT ![r] = "run_tests"]
          /\ UNCHANGED <<err, firstErr, exitCode>>
       \/ Raise(r, "command")
    /\ UNCHANGED <<store, flags, idx, manifest, pending, cleanups,
                   prepared, gated, skipped, wrote>>

\* test_plan.prepare() inside the try of _run_test_plan.
prepare(r) ==
    /\ pc[r] = "prepare"
    /\ \/ /\ pc' = [pc EXCEPT ![r] = "run_tests"]
          /\ UNCHANGED <<pending, firstErr>>
       \/ Throw(r, "command")
    /\ UNCHANGED <<store, flags, idx, manifest, err, exitCode, cleanups,
                   prepared, gated, skipped, wrote>>

\* Mutant of run_tests_step: cleanup() also called at the end of the try,
\* so the finally calls it a second time.
run_tests_then_cleanup(r) ==
    /\ pc[r] = "run_tests"
    /\ \/ /\ pc' = [pc EXCEPT ![r] = "cleanup"]
          /\ cleanups' = [cleanups EXCEPT ![r][Plan(r)] = @ + 1]
          /\ UNCHANGED <<pending, firstErr>>
       \/ Throw(r, "command") /\ UNCHANGED cleanups
    /\ UNCHANGED <<store, flags, idx, manifest, err, exitCode,
                   prepared, gated, skipped, wrote>>

\* test_plan.run_tests() inside the try of _run_test_plan.
run_tests_step(r) ==
    /\ pc[r] = "run_tests"
    /\ \/ /\ pc' = [pc EXCEPT ![r] = "cleanup"]
          /\ UNCHANGED <<pending, firstErr>>
       \/ Throw(r, "command")
    /\ UNCHANGED <<store, flags, idx, manifest, err, exitCode, cleanups,
                   prepared, gated, skipped, wrote>>

\* The finally of _run_test_plan: cleanup() runs; if it returns, the
\* exception of the try (if any) propagates; if it raises, its own
\* exception propagates in place of that one.
cleanup(r) ==
    /\ pc[r] = "cleanup"
    /\ cleanups' = [cleanups EXCEPT ![r][Plan(r)] = @ + 1]
    /\ \/ /\ pending[r] = None
          /\ pc' = [pc EXCEPT ![r] = "gate"]
          /\ UNCHANGED <<err, firstErr, exitCode>>
       \/ /\ pending[r] # None
          /\ Raise(r, pending[r])
       \/ CleanupMayFail /\ Raise(r, "other")
       \/ Raise(r, "interrupt")
    /\ UNCHANGED <<store, flags, idx, manifest, pending, prepared, gated, skipped, wrote>>

\* Mutant of gate_coverage: coverage.put hoisted out of the else branch,
\* so a local regression overwrites the baseline.
gate_coverage_put_always(r) ==
    /\ pc[r] = "gate"
    /\ LET p == Plan(r)
           prev == IF manifest[r][p] = Absent THEN 0 ELSE manifest[r][p]
       IN
       \/ /\ \E e \in {"test", "command", "other"} : Raise(r, e)
          /\ UNCHANGED <<idx, manifest, gated>>
       \/ \E cur \in Coverage : \E regressed \in Regressed(cur, prev) :
             \/ /\ regressed /\ ~flags[r].local
                /\ Raise(r, "system_exit")
                /\ UNCHANGED <<idx, manifest, gated>>
             \/ /\ ~regressed \/ flags[r].local
                /\ manifest' = [manifest EXCEPT ![r][p] = cur]
                /\ gated' = [gated EXCEPT ![r] = @ \cup {p}]
                /\ NextPlan(r)
                /\ UNCHANGED <<err, firstErr, exitCode>>
    /\ UNCHANGED <<store, flags, pending, cleanups, prepared, skipped, wrote>>

\* _gate_coverage: coverage.get inserts a 0.0 default, fetch_coverage may
\* raise; a regression is an error in CI and a warning locally, where the
\* manifest keeps the previous value; otherwise the new value is put.
gate_coverage(r) ==
    /\ pc[r] = "gate"
    /\ LET p == Plan(r)
           prev == IF manifest[r][p] = Absent THEN 0 ELSE manifest[r][p]
       IN
       \/ /\ \E e \in {"test", "command", "other"} : Raise(r, e)
          /\ UNCHANGED <<idx, manifest, gated>>
       \/ \E cur \in Coverage : \E regressed \in Regressed(cur, prev) :
             \/ /\ regressed /\ ~flags[r].local
                /\ Raise(r, "system_exit")
                /\ UNCHANGED <<idx, manifest, gated>>
             \/ /\ regressed /\ flags[r].local
                /\ manifest' = [manifest EXCEPT ![r][p] = prev]
                /\ gated' = [gated EXCEPT ![r] = @ \cup {p}]
                /\ NextPlan(r)
                /\ UNCHANGED <<err, firstErr, exitCode>>
             \/ /\ ~regressed
                /\ manifest' = [manifest EXCEPT ![r][p] = cur]
                /\ gated' = [gated EXCEPT ![r] = @ \cup {p}]
                /\ NextPlan(r)
                /\ UNCHANGED <<err, firstErr, exitCode>>
    /\ UNCHANGED <<store, flags, pending, cleanups, prepared, skipped, wrote>>

\* Mutant of write_coverage_manifest: the --upload-coverage check guards the
\* local cache file as well.
write_only_with_upload(r) ==
    /\ pc[r] = "write"
    /\ LET saved == [legacy |-> FALSE, cov |-> manifest[r]] IN
       \/ /\ flags[r].local /\ flags[r].upload
          /\ store' = [store EXCEPT !["cache"] = saved]
          /\ wrote' = [wrote EXCEPT ![r] = TRUE]
          /\ Finish(r)
          /\ UNCHANGED <<err, firstErr>>
       \/ /\ flags[r].local /\ ~flags[r].upload
          /\ Finish(r)
          /\ UNCHANGED <<store, wrote, err, firstErr>>
       \/ /\ ~flags[r].local /\ flags[r].upload
          /\ store' = [store EXCEPT !["s3"] = saved]
          /\ wrote' = [wrote EXCEPT ![r] = TRUE]
          /\ pc' = [pc EXCEPT ![r] = "stop_services"]
          /\ UNCHANGED <<err, firstErr, exitCode>>
       \/ /\ ~flags[r].local /\ ~flags[r].upload
          /\ pc' = [pc EXCEPT ![r] = "stop_services"]
          /\ UNCHANGED <<store, wrote, err, firstErr, exitCode>>
    /\ UNCHANGED <<flags, idx, manifest, pending, cleanups, prepared, gated, skipped>>

\* write_coverage_manifest: the cache file locally, S3 in CI only with
\* --upload-coverage (the put may fail); CI then stops the services.
write_coverage_manifest(r) ==
    /\ pc[r] = "write"
    /\ LET saved == [legacy |-> FALSE, cov |-> manifest[r]] IN
       \/ /\ flags[r].local
          /\ store' = [store EXCEPT !["cache"] = saved]
          /\ wrote' = [wrote EXCEPT ![r] = TRUE]
          /\ Finish(r)
          /\ UNCHANGED <<err, firstErr>>
       \/ /\ ~flags[r].local /\ flags[r].upload
          /\ store' = [store EXCEPT !["s3"] = saved]
          /\ wrote' = [wrote EXCEPT ![r] = TRUE]
          /\ pc' = [pc EXCEPT ![r] = "stop_services"]
          /\ UNCHANGED <<err, firstErr, exitCode>>
       \/ /\ ~flags[r].local /\ flags[r].upload
          /\ Raise(r, "other")
          /\ UNCHANGED <<store, wrote>>
       \/ /\ ~flags[r].local /\ ~flags[r].upload
          /\ pc' = [pc EXCEPT ![r] = "stop_services"]
          /\ UNCHANGED <<store, wrote, err, firstErr, exitCode>>
    /\ UNCHANGED <<flags, idx, manifest, pending, cleanups, prepared, gated, skipped>>

\* _stop_integration_test_services: two run() calls, either may raise.
stop_integration_test_services(r) ==
    /\ pc[r] = "stop_services"
    /\ \/ Finish(r) /\ UNCHANGED <<err, firstErr>>
       \/ Raise(r, "command")
    /\ UNCHANGED <<store, flags, idx, manifest, pending, cleanups, prepared,
                   gated, skipped, wrote>>

\* SIGINT arrives: KeyboardInterrupt is raised where the run is; inside the
\* try of _run_test_plan it goes through the finally first.  (Its arrival
\* during cleanup() is a case of the cleanup action.)
keyboard_interrupt(r) ==
    /\ Active(r) /\ pc[r] # "cleanup"
    /\ IF pc[r] \in {"prepare", "run_tests"}
       THEN Throw(r, "interrupt") /\ UNCHANGED <<err, exitCode>>
       ELSE Raise(r, "interrupt") /\ UNCHANGED pending
    /\ UNCHANGED <<store, flags, idx, manifest, cleanups, prepared, gated, skipped, wrote>>

Next ==
    \E r \in Runs :
        \/ main_start(r)
        \/ start_integration_test_services(r)
        \/ read_coverage_manifest(r)
        \/ select_plan(r)
        \/ prepare(r)
        \/ run_tests_step(r)
        \/ cleanup(r)
        \/ gate_coverage(r)
        \/ write_coverage_manifest(r)
        \/ stop_integration_test_services(r)
        \/ keyboard_interrupt(r)

\* Every invocation ends: the model has no hung subprocess.
Done == \A r \in Runs : pc[r] = "done"

Spec == Init /\ [][Next \/ (Done /\ UNCHANGED vars)]_vars
-----------------------------------------------------------------------------
(* Properties.                                                             *)

\* The plan invocation r is still inside the try/finally of _run_test_plan.
InTry(r, p) == pc[r] \in {"prepare", "run_tests", "cleanup"} /\ Plan(r) = p

\* Cleanup always runs (the finally of _run_test_plan): once invocation r
\* has left the try/finally of a plan whose prepare() it entered, that plan's
\* cleanup() has been invoked, whatever prepare() or run_tests() raised and
\* wherever the run ended.  (TypeOK bounds the count by one.)
CleanupAlways ==
    \A r \in Runs, p \in Plans :
        (p \in prepared[r] /\ ~InTry(r, p)) => cleanups[r][p] = 1

\* The persisted baseline is safe (_gate_coverage, write_coverage_manifest):
\* when an invocation persists its manifest over one that was readable, no
\* plan's stored coverage falls by more than the tolerance, and the entry of
\* a plan the invocation skipped (not a target, or no changes) is unchanged.
PersistedBaselineSafe ==
    [][\A r \in Runs : (wrote'[r] /\ ~wrote[r]) =>
         LET k == StoreOf(r) IN
         ~store[k].legacy =>
            \A p \in Plans :
               LET old == store[k].cov[p]
                   new == store'[k].cov[p]
               IN  old # Absent =>
                     /\ new # Absent
                     /\ new >= old - Tolerance
                     /\ (p \in skipped[r] \/ NotTargeted(r, p)) => new = old
      ]_vars

\* Exit status 0 from a run that was not interrupted (main.py) means every
\* plan was either deliberately skipped or gated, and the manifest was
\* persisted wherever the flags ask for it.
ExitZeroMeansGated ==
    \A r \in Runs :
        (exitCode[r] = 0 /\ err[r] # "interrupt") =>
            /\ gated[r] \cup skipped[r] = Plans
            /\ \A p \in skipped[r] : NotTargeted(r, p) \/ flags[r].targeted
            /\ (flags[r].local \/ flags[r].upload) => wrote[r]

\* The lifecycle state of plan i in invocation r: gated plans succeeded;
\* the plan being handled is preparing, executing, cleaning up or being
\* gated by where the run is, and failed once its exception has ended the
\* run.
PlanState(r, i) ==
    LET p == TestPlans[i] IN
    CASE p \in gated[r] -> "succeeded"
      [] p \in skipped[r] -> "skipped"
      [] p \notin prepared[r] -> "created"
      [] pc[r] = "prepare" -> "preparing"
      [] pc[r] = "run_tests" -> "executing"
      [] pc[r] = "cleanup" -> "cleaning_up"
      [] pc[r] = "gate" -> "gating"
      [] OTHER -> "failed"

\* The invocation the refinement follows; the runs are interchangeable, so
\* any one stands for all.
Observed == CHOOSE r \in Runs : TRUE

PD == INSTANCE PlanDriver WITH
    Names <- TestPlans,
    ScopeChoices <- BOOLEAN,
    Gating <- TRUE,
    run <- CASE pc[Observed] = "idle" -> "idle"
             [] pc[Observed] = "done" -> "done"
             [] OTHER -> "running",
    targets <- flags[Observed].targets,
    scoped <- flags[Observed].targeted,
    st <- [i \in DOMAIN TestPlans |-> PlanState(Observed, i)],
    raised <- pending[Observed] # None

\* run_tests follows the plan lifecycle of spec 4.5 and 4.6: registration
\* order, the target filter, the change-scoped skip only without
\* --all-tests, cleanup after every prepare and run_tests whether they
\* raised or not, the coverage gate after cleanup, no plan after a failed
\* one, and the driver's own failures and SIGINT only between plans or
\* through a plan's finally.
ImplementsPlanDriver == PD!Spec

\* The spec (section 4.5, section 8): when the try of _run_test_plan raised
\* and cleanup() raised too, the exception main() reports is the original
\* one, not cleanup's.
OriginalErrorSurfaced ==
    \A r \in Runs : exitCode[r] # None => err[r] = firstErr[r]

\* The spec (section 6): exit status 0 means success, i.e. every plan that
\* was not deliberately skipped went through the coverage gate.
ExitZeroIsSuccess ==
    \A r \in Runs : exitCode[r] = 0 => gated[r] \cup skipped[r] = Plans
=============================================================================
