---------------------------- MODULE BuildDriver ----------------------------
(***************************************************************************)
(* "beagle build": run_builds (beagle/build.py) over the two build plans   *)
(* the extension registers (beagle/extensions/__init__.py): the Yarn plan *)
(* "bh-ui", which builds the UI into the artifact directory bh-ui, and the *)
(* Go workspace plan "bh", whose prepare syncs the workspace, runs code   *)
(* generation and CopyBloodHoundUIAssets, and whose build compiles the    *)
(* binary that embeds cmd/api/src/api/static/assets.                      *)
(*                                                                         *)
(* Invocations run one after another and share what is on disk: the UI   *)
(* artifact directory, the static assets directory and the binary.  The   *)
(* UI source may be edited between invocations.  Directory contents are   *)
(* abstracted to the UI source version they were built from and whether  *)
(* they are whole; Empty is a directory holding no build (git keep files  *)
(* only).  Every external command may fail; code generation is the       *)
(* CodeGen module, here only its outcome.                                 *)
(***************************************************************************)
EXTENDS Naturals, Sequences, FiniteSets, TLC

CONSTANTS
    TargetChoices,  \* the positional target lists an invocation may get
    MaxRuns,        \* the most invocations
    MaxEdits,       \* the most edits of the UI source
    Absent,         \* no such directory or file
    Empty,          \* a directory with no UI build in it
    None            \* no exception

\* plans.build_plans, in registration order.
BuildPlans == <<"bh-ui", "bh">>

Versions == 0..MaxEdits
Contents == [ver : Versions, whole : BOOLEAN]

\* The exceptions a build step raises: CommandException, the Exception of
\* CopyBloodHoundUIAssets, and an OSError of shutil.
Errors == {"command", "no_ui_assets", "os_error"}

VARIABLES
    uiSrc,     \* the version of the UI source in the repository
    artifact,  \* the artifact directory bh-ui: Absent, Empty or Contents
    assets,    \* the static assets directory of the Go API
    binary,    \* the UI the built bh binary embeds, or Absent
    runs,      \* how many invocations have started
    targets,   \* project_ctx.runtime.targets
    codegen,   \* project_ctx.runtime.do_code_generation
    idx,       \* the position in plans.build_plans
    pc,        \* where the invocation is
    err,       \* the exception propagating, or None
    runSrc     \* history: the UI source version the invocation started on

vars == <<uiSrc, artifact, assets, binary, runs, targets, codegen, idx, pc, err,
          runSrc>>

PCs == {"idle", "select", "yarn_install", "yarn_build", "sync_workspace",
        "code_generation", "copy_ui_assets", "go_build", "cleanup", "raise",
        "done"}

TypeOK ==
    /\ uiSrc \in Versions
    /\ artifact \in {Absent, Empty} \cup Contents
    /\ assets \in {Empty} \cup Contents
    /\ binary \in {Absent, Empty} \cup Contents
    /\ runs \in 0..MaxRuns
    /\ targets \in TargetChoices
    /\ codegen \in BOOLEAN
    /\ idx \in 1..(Len(BuildPlans) + 1)
    /\ pc \in PCs
    /\ err \in {None} \cup Errors
    /\ runSrc \in Versions

\* A fresh checkout: no artifacts, the committed assets directory holds only
\* its keep file, no binary.
Init ==
    /\ uiSrc = 0
    /\ artifact = Absent
    /\ assets = Empty
    /\ binary = Absent
    /\ runs = 0
    /\ targets = {}
    /\ codegen = TRUE
    /\ idx = 1
    /\ pc = "idle"
    /\ err = None
    /\ runSrc = 0

Selected(i) == targets = {} \/ BuildPlans[i] \in targets

\* The first step of each plan's prepare.
PrepareEntry == ("bh-ui" :> "yarn_install") @@ ("bh" :> "sync_workspace")

\* A step raises e; the finally of run_builds runs cleanup next.
Raise(e) == pc' = "cleanup" /\ err' = e

-----------------------------------------------------------------------------
(* The invocation: main, setup and the loop of run_builds.                 *)

\* beagle build with some targets; setup only ensures the artifact root.
start_build ==
    /\ pc \in {"idle", "done"}
    /\ runs < MaxRuns
    /\ runs' = runs + 1
    /\ targets' \in TargetChoices
    /\ codegen' \in BOOLEAN
    /\ idx' = 1
    /\ pc' = "select"
    /\ err' = None
    /\ runSrc' = uiSrc
    /\ UNCHANGED <<uiSrc, artifact, assets, binary>>

\* One iteration of the loop head: the loop ends, a plan the targets do not
\* name is skipped, or the plan's prepare is entered.
select ==
    /\ pc = "select"
    /\ CASE idx > Len(BuildPlans) -> pc' = "done" /\ UNCHANGED idx
         [] ~Selected(idx) -> idx' = idx + 1 /\ UNCHANGED pc
         [] OTHER -> pc' = PrepareEntry[BuildPlans[idx]] /\ UNCHANGED idx
    /\ UNCHANGED <<uiSrc, artifact, assets, binary, runs, targets, codegen, err, runSrc>>

-----------------------------------------------------------------------------
(* YarnBuildPlan "bh-ui".                                                  *)

\* prepare: yarn install.
yarn_install ==
    /\ pc = "yarn_install"
    /\ \/ pc' = "yarn_build" /\ UNCHANGED err
       \/ Raise("command")
    /\ UNCHANGED <<uiSrc, artifact, assets, binary, runs, targets, codegen, idx, runSrc>>

\* The artifact directory after ensure_dir.
Ensured == IF artifact = Absent THEN Empty ELSE artifact

\* Mutant of yarn_build: a failed yarn build is not reported.
yarn_build_unchecked ==
    /\ pc = "yarn_build"
    /\ pc' = "cleanup"
    /\ \/ artifact' = [ver |-> uiSrc, whole |-> TRUE]
       \/ artifact' \in {Ensured, [ver |-> uiSrc, whole |-> FALSE]}
    /\ UNCHANGED <<err, uiSrc, assets, binary, runs, targets, codegen, idx, runSrc>>

\* build: ensure_dir(artifacts_path), then yarn build with BUILD_PATH set
\* to it.  A failed yarn build raises CommandException, leaving the
\* directory as ensure_dir made it or holding part of a new build.
yarn_build ==
    /\ pc = "yarn_build"
    /\ \/ /\ artifact' = [ver |-> uiSrc, whole |-> TRUE]
          /\ pc' = "cleanup" /\ UNCHANGED err
       \/ /\ artifact' \in {Ensured, [ver |-> uiSrc, whole |-> FALSE]}
          /\ Raise("command")
    /\ UNCHANGED <<uiSrc, assets, binary, runs, targets, codegen, idx, runSrc>>

-----------------------------------------------------------------------------
(* GolangWorkspaceBuildPlan "bh".                                          *)

\* prepare: sync_workspace ("go work sync").
sync_workspace ==
    /\ pc = "sync_workspace"
    /\ \/ /\ pc' = IF codegen THEN "code_generation" ELSE "copy_ui_assets"
          /\ UNCHANGED err
       \/ Raise("command")
    /\ UNCHANGED <<uiSrc, artifact, assets, binary, runs, targets, codegen, idx, runSrc>>

\* prepare: the with new_threadpool() block running go_generate for every
\* workspace module; it returns or raises the error of a task or of go list.
code_generation ==
    /\ pc = "code_generation"
    /\ \/ pc' = "copy_ui_assets" /\ UNCHANGED err
       \/ Raise("command")
    /\ UNCHANGED <<uiSrc, artifact, assets, binary, runs, targets, codegen, idx, runSrc>>

\* What an interrupted copy leaves: the old files deleted, part of the new.
Partial == IF artifact \in Contents THEN [artifact EXCEPT !.whole = FALSE] ELSE Empty

\* Mutant of copy_ui_assets: the lexists check is dropped.
copy_ui_assets_unchecked ==
    /\ pc = "copy_ui_assets"
    /\ \/ assets' = artifact /\ pc' = "go_build" /\ UNCHANGED err
       \/ assets' \in {Empty, Partial} /\ Raise("os_error")
    /\ UNCHANGED <<uiSrc, artifact, binary, runs, targets, codegen, idx, runSrc>>

\* prepare: CopyBloodHoundUIAssets.run.  No artifact directory raises;
\* otherwise every file of the assets directory but the keep files is
\* deleted and every file of the artifact directory copied in; an OSError
\* in between leaves the directory emptied or partly copied.
copy_ui_assets ==
    /\ pc = "copy_ui_assets"
    /\ IF artifact = Absent
       THEN Raise("no_ui_assets") /\ UNCHANGED assets
       ELSE \/ assets' = artifact /\ pc' = "go_build" /\ UNCHANGED err
            \/ assets' \in {Empty, Partial} /\ Raise("os_error")
    /\ UNCHANGED <<uiSrc, artifact, binary, runs, targets, codegen, idx, runSrc>>

\* build: go build of the main modules, embedding the static assets; a
\* failed build raises and leaves the old binary.
go_build ==
    /\ pc = "go_build"
    /\ \/ binary' = assets /\ pc' = "cleanup" /\ UNCHANGED err
       \/ Raise("command") /\ UNCHANGED binary
    /\ UNCHANGED <<uiSrc, artifact, assets, runs, targets, codegen, idx, runSrc>>

-----------------------------------------------------------------------------
(* The finally of run_builds, and main.                                    *)

\* Mutant of cleanup: the exception is swallowed and the loop goes on.
cleanup_continues ==
    /\ pc = "cleanup"
    /\ idx' = idx + 1 /\ pc' = "select"
    /\ UNCHANGED <<uiSrc, artifact, assets, binary, runs, targets, codegen, err, runSrc>>

\* build_plan.cleanup() (a no-op for both plans); then the next iteration,
\* or the exception propagates out of run_builds.
cleanup ==
    /\ pc = "cleanup"
    /\ IF err = None
       THEN idx' = idx + 1 /\ pc' = "select"
       ELSE pc' = "raise" /\ UNCHANGED idx
    /\ UNCHANGED <<uiSrc, artifact, assets, binary, runs, targets, codegen, err, runSrc>>

\* main catches the exception and exits with status 1.
propagate ==
    /\ pc = "raise"
    /\ pc' = "done"
    /\ UNCHANGED <<uiSrc, artifact, assets, binary, runs, targets, codegen, idx, err, runSrc>>

\* A developer edits the UI source between invocations.
edit_ui ==
    /\ pc \in {"idle", "done"}
    /\ uiSrc < MaxEdits
    /\ uiSrc' = uiSrc + 1
    /\ UNCHANGED <<artifact, assets, binary, runs, targets, codegen, idx, pc, err,
                   runSrc>>

Finished == pc \in {"idle", "done"} /\ runs = MaxRuns

Next ==
    \/ start_build \/ select \/ cleanup \/ propagate \/ edit_ui
    \/ yarn_install \/ yarn_build
    \/ sync_workspace \/ code_generation \/ copy_ui_assets \/ go_build
    \/ (Finished /\ UNCHANGED vars)

Spec == Init /\ [][Next]_vars

-----------------------------------------------------------------------------
(* Refinement and properties.                                              *)

\* The lifecycle state of plan i, read off the loop position and pc.
PlanState(i) ==
    CASE i < idx -> IF Selected(i) THEN "succeeded" ELSE "skipped"
      [] i > idx \/ pc \in {"idle", "select"} -> "created"
      [] pc \in {"yarn_install", "sync_workspace", "code_generation",
                 "copy_ui_assets"} -> "preparing"
      [] pc \in {"yarn_build", "go_build"} -> "executing"
      [] pc = "cleanup" -> "cleaning_up"
      [] OTHER -> "failed"

PD == INSTANCE PlanDriver WITH
    Names <- BuildPlans,
    ScopeChoices <- {FALSE},
    Gating <- FALSE,
    scoped <- FALSE,
    run <- CASE pc = "idle" -> "idle" [] pc = "done" -> "done" [] OTHER -> "running",
    st <- [i \in DOMAIN BuildPlans |-> PlanState(i)],
    raised <- err # None

\* run_builds follows the plan lifecycle of spec 4.5: registration order,
\* target filtering, cleanup after every prepare and build whether it
\* raised or not, a plan fails exactly when a step raised, and no plan runs
\* after a failed one.
ImplementsPlanDriver == PD!Spec

\* A "beagle build" of both plans that exits 0 leaves a bh binary embedding
\* the whole UI built from the current source: bh-ui runs first, a failed
\* yarn build ends the invocation, and CopyBloodHoundUIAssets copies what
\* yarn build just wrote.
FreshUIWhenBuiltTogether ==
    (pc = "done" /\ err = None /\ Selected(1) /\ Selected(2))
        => binary = [ver |-> runSrc, whole |-> TRUE]
=============================================================================
