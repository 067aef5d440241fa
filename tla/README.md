# Model-checking project for beagle, the BloodHound build and test orchestrator

This directory holds TLA+ models of the Python build/test orchestrator `beagle`
(`src/packages/python/beagle`) and the TLC configurations that check them.
`PROJECT.json` lists the components, the runs, the mutants, the map from every
definition to the source lines it models, the findings and the hazards.

## 1. Inventory

### Components, their state and operations

| Component | Source | State | Operations |
|---|---|---|---|
| Driver (`main`) | `main.py` | the project context; the exception that ends the run | `main`, `_run_action`; maps exceptions to exit status (KeyboardInterrupt → 0, TestException → 2, CommandException → 1, SystemExit(1) → 1, anything else → traceback, 1) |
| Test driver | `beagle/test.py` | the in-memory `CoverageManifest`; the position in `plans.test_plans` | `run_tests` (target filter, change check, per-plan call, manifest write, CI services), `_run_test_plan` (prepare/run_tests in `try`, cleanup in `finally`), `_gate_coverage` |
| Build driver | `beagle/build.py`, `plan/plan.py` | position in `plans.build_plans` | `run_builds` (target filter, prepare/build in `try`, cleanup in `finally`), `BuildPlan.execute` |
| Coverage manifest | `project/project.py`, `aws/aws.py` | the persisted manifest: the local cache file `coverage.pyp` or the S3 object of the same name, pickled | `CoverageManifest.get` (inserts a 0.0 default), `put`, `read_coverage_manifest`, `write_coverage_manifest`, `s3_exists/read/write` |
| Process runner | `subprocess/subprocess.py` | per call: the child, the pipe, the reader (`_tee`) thread, the capture buffer, the writers | `run_simple`, `_run`, `run`, `run_logged`, `_tee` |
| JSON stream decoder | `util/json.py` | `buffer`, `in_string`, `escaping`, `depth` | `json_multi_loads` (a generator) |
| Go discovery | `plan/golang.py` | none (recomputed) | `GoModule.list`, `main_modules`, `contains_main_definition`, `requires_code_generation`, `_workspace_module_paths`, `workspace_modules` |
| Code generation | `plan/golang.py` | the thread pool, the set of futures | `go_generate`, `GolangWorkspaceBuildPlan.prepare` |
| Language plans | `plan/golang.py`, `plan/yarn.py`, `plan/bloodhound.py` | artifacts and log files on disk | Go/Yarn test and build plans, `CopyBloodHoundUIAssets` |
| Context and setup | `project/project.py`, `beagle/extensions/__init__.py` | the plan registry `plans.*`; directories | `new_project_context`, `load_beagle_extensions`, `setup`, `Filesystem.*` |
| License header audit | `license_check.py` | none (each file rewritten in place) | `main` (walk, ignore filter), `check_file`, `content_has_header`, `insert_license_header`, `validate_license_header` |
| Excluded by the spec | `docs/assets/apiclient.py`, `harnessgen.py`, `setup.py` | — | — |

### How they interact

`main` builds the context, loads the extension (which fills the plan
registry), and calls `run_tests` or `run_builds`. `run_tests` reads the
manifest once, walks the test plans in registration order and, for each
selected plan, calls `_run_test_plan`; that calls the plan's methods, which
call the process runner (`run`, `run_logged`), and then `_gate_coverage`,
which compares against and updates the manifest. The manifest is written once
after the loop. `run_builds` walks the build plans the same way; the Go build
plan's `prepare` fans `go generate` out over a thread pool, each task again a
`run_logged` call, and the Go plans discover modules through `go list -json`
decoded by `json_multi_loads`. Exceptions are the only channel back to `main`.

### What is hard

* **Failure in the middle.** Every step can raise; `try/finally` decides
  what runs next and which exception is reported. A failed plan aborts the
  loop before the manifest is written and before CI services are stopped.
* **Persisted state across invocations.** The manifest outlives the process.
  It is read at the start and overwritten whole at the end, with no version
  check; a manifest pickled by an older beagle may not unpickle and is then
  silently replaced.
* **Threads.** Each subprocess has a reader thread that must drain the pipe
  while the main thread waits; code generation runs N tasks on a pool and
  joins them, surfacing the first failure observed.
* **Incremental parsing.** The JSON decoder tracks strings, escapes and depth
  character by character.
* **Boundaries.** The gate compares floats at exactly −1.5; the Go coverage
  is an average over a possibly empty module list.

### Properties that make each component correct

* Test driver: cleanup runs exactly once for every plan whose `prepare` was
  entered; the reported exception is the original; exit 0 means every plan
  was gated or deliberately skipped and the manifest persisted; a skipped plan's
  baseline is never touched; no persisted baseline falls by more than the
  tolerance in one write.
* Build driver: the same cleanup rule; the bh build uses the UI assets of the
  current run.
* Process runner: a successful `run` returns exactly the lines the child
  wrote, in order; `run` returns once the child has exited.
* JSON decoder: K concatenated values give K values, each equal to its
  substring decoded alone; an incomplete tail gives nothing.
* Discovery: a well-formed `go.work` with N paths gives N modules; a missing
  or malformed `use` block is an error.
* Code generation: when `prepare` returns or raises, no generation task is
  still running; a raised error is the error of a failed task; with no
  failures every module requiring generation was generated once.

The hazards are listed one by one, each at its source line, in
`PROJECT.json` under `hazards`.

## 2. Plan

Modules in the order they are (to be) written, most important first:

1. **TestDriver** (done): `main` + `run_tests` + `_run_test_plan` +
   `_gate_coverage` + manifest read/write, several invocations over shared
   persisted stores. Runs: the main safety run, and three violation runs for
   disagreements found while modelling.
2. **JsonMultiLoads** (done): `json_multi_loads` as a recursive fold of its
   per-character step, checked against inputs built from a small JSON
   grammar: a passing run on plain strings, a violation run for brackets and
   escaped quotes inside strings.
3. **GoWorkspace** (done): `_workspace_module_paths` and `workspace_modules`
   as operators over sequences of line kinds, checked against the spec's
   grammar of a `use ( ... )` block.
4. **ProcessRunner** (done): `_run`/`_tee`/`run`: child, bounded pipe,
   reader thread, main thread; capture completeness and termination under
   weak fairness of the three actors; lines that are not UTF-8.
5. **CodeGen** (done): `go_generate` inside `GolangWorkspaceBuildPlan.prepare`:
   W workers, N tasks, `as_completed`, the `with` pool's join; abstract
   spec **FanOutJoin** (all tasks end before return; the error is a task's),
   refined by CodeGen via INSTANCE ... WITH.
6. **BuildDriver** (done): `run_builds` with the Yarn UI build, the Go build
   and `CopyBloodHoundUIAssets`, over several invocations sharing the
   artifact directory, the served assets and the binary.
7. **PlanDriver** (done): the abstract per-plan state machine and driver
   contract of spec 4.5 and 4.6 (CREATED → PREPARING → EXECUTING →
   CLEANING_UP → SUCCEEDED/FAILED, with a gate after cleanup for test
   plans; registration order, target filter, the change-scoped skip, stop
   after a failure). BuildDriver and TestDriver are both shown to implement
   it.
8. **LicenseCheck** (done): the header audit of `license_check.py` as
   operators over files abstracted to sequences of line kinds.
9. **GoTestPlan** (done): `run_tests` and `fetch_coverage` of the Go test
   plan, composed with GoWorkspace so the plan runs on the modules
   discovery returns.
10. **GoBuild** (done): `GoModule.list`, `contains_main_definition`,
    `main_modules` and the loops of `GolangWorkspaceBuildPlan.build`.
11. **ProjectSetup** (done): `ProjectContext.setup` over invocations that
    share the work directory.
12. **ProjectRoot** (done): the walk of `_find_project_root`.
13. **GitVersion** (done): the version of `new_project_context`: `VERSION`,
    or the scan of `git tag --list v*` in `_get_latest_version_label`.
14. **ProjectPaths** (done): `Filesystem._format_path_parts` and
    `project_path` against the directory a relative path names.

The three state machines of `beagle build` and the test driver of
`beagle test` share one run, `build_driver` (`MC_BuildDriver.tla`): a
behaviour follows the build driver, one call of the process runner, the Go
plan's code generation, or one `beagle test` invocation, chosen by `part`
in the initial state; the other three stay in one initial state each, on which
their properties hold, and the liveness properties of the runner and code
generation are stated for the behaviours that follow them. The runner and
code generation keep their own modules' fairness, for their own steps; the
build and test drivers have only safety properties and get none.

Pure components whose checks are each one fixed-input sweep share one run,
`text_scanners` (`MC_Scanners.tla`): its `Init` is a disjunction in which
one component takes every input of its own bounds while the others sit at
an input on which their properties hold, so each property is checked on
every input of its component.

## 3. Modules and runs

### TestDriver (`TestDriver.tla`, `MC_TestDriver.tla`, `MC_BuildDriver.tla`)

Each element of `Runs` is one beagle process. Its variables:

| Variable | Code |
|---|---|
| `store[k]` | the persisted manifest in the cache file (`k = "cache"`) or S3 (`"s3"`); `legacy` marks a pickle that no longer imports |
| `pc[r]` | where invocation `r` is in `main`/`run_tests`/`_run_test_plan` |
| `flags[r]` | `--ci` (`local`), `--all-tests` (`targeted`), `--upload-coverage`, positional targets |
| `idx[r]` | the loop position in `plans.test_plans` |
| `manifest[r]` | the in-memory `CoverageManifest` |
| `pending[r]` | the exception propagating through the `finally` of `_run_test_plan` |
| `err[r]`, `exitCode[r]` | the exception that reached `main` and the exit status it gives |
| `firstErr`, `cleanups`, `prepared`, `gated`, `skipped`, `wrote` | history kept for the properties |

Actions, one per step of the code: `main_start`, `start_integration_test_services`,
`read_coverage_manifest`, `select_plan` (one loop iteration: target filter, the
`git diff` answer, entry into `_run_test_plan`, or the end of the loop),
`prepare`, `run_tests_step`, `cleanup`, `gate_coverage`,
`write_coverage_manifest`, `stop_integration_test_services`, and
`keyboard_interrupt` (SIGINT at any step; inside the `try` it goes through the
`finally`). Each failing call is a disjunct of its action that raises the
exception the code raises there. Coverage values are integers in tenths of a
percent; at a difference of exactly 1.5 points the float comparison may fall
either way (`Regressed`).

Runs:

* the `test` part of `build_driver` (pass; plans `ta` and `tb`, the
  unknown target `tz`): one invocation, any flags and targets (`{}`, `{b}`,
  or `{z}`, a word naming no plan: `parse_known_args` passes every argument
  it does not know, a mistyped flag included, to `run_tests` as a target),
  any prior manifest (absent, 0.0, 78.5, 78.6 or 80.0 per plan, readable or
  legacy), `fetch_coverage` returning 0.0, 78.5, 78.6 or 80.0 or raising,
  every command able to fail, cleanup able to raise, SIGINT anywhere.
  Properties: `TypeOK`; `CleanupAlways`; `ExitZeroMeansGated`;
  `PersistedBaselineSafe` (action property on the store);
  `TestImplementsPlanDriver` (`PD!Spec`, below). The values put
  78.6 (−1.4, passes), 78.5 (exactly −1.5) and 0.0 (−80, fails) against an
  80.0 baseline, as in the spec's examples.
  The three violation runs below instantiate TestDriver in
  `MC_TestDriver.tla` with plans `a`, `b` and runs `r1`, `r2`.
* `cleanup_masks_error` (violation of `OriginalErrorSurfaced`): prepare raises
  a CommandException, cleanup raises; main reports cleanup's exception.
* `sigint_exit_zero` (violation of `ExitZeroIsSuccess`): a SIGINT before the
  first plan; main exits 0.
* `overlapping_runs` (violation of `PersistedBaselineSafe`, two overlapping
  invocations): the second invocation read the manifest before the first
  wrote it and overwrites the first one's entries.

Why the bounds suffice: two plans are enough for a plan to be skipped while
another runs, and for the loop to end after a failure in the middle; a
single invocation starting from every manifest a previous one can leave
covers sequential invocations, since each writes the store once; the
coverage values are the three sides of the tolerance plus the yarn 0.0.

The refinement mapping `PD` follows one invocation (`Observed`; the runs
are interchangeable): `run` is idle, running or done by `pc`; `targets` and
`scoped` are the positional targets and the absence of `--all-tests`;
`PlanState` gives a gated plan SUCCEEDED, a skipped one SKIPPED, the plan
being handled PREPARING, EXECUTING, CLEANING_UP or GATING by `pc`, and
FAILED once its exception has ended the run; `raised` is `pending`. Failures
of `main`'s own steps (services, reading or writing the manifest, SIGINT
outside a plan) map to `Abort`.

No fairness is assumed: the properties of TestDriver are safety properties.
The model has no hung subprocess (the code has no timeout; see hazards), so
every behaviour ends in the `Done` stutter, and deadlock checking is on.

### JsonMultiLoads (`JsonMultiLoads.tla`, `MC_JsonMultiLoads.tla`)

`json_multi_loads` is a pure function of its input, so it is an operator:
`Step(s, c)` is the body of the inner loop (json.py 41-64) on the record of
its locals `buffer`, `in_string`, `escaping`, `depth` plus the values
`yielded` so far; `Decode` applies it to every character in turn (the split
into lines by `readlines()` carries the state over, so it is invisible).
`json.loads` is abstracted to the buffer it is handed: the property compares
buffers with the text of the values, which is what decoding equal requires.
Characters are abstracted to the classes the loop distinguishes: the four
brackets, the quote, the backslash, whitespace and any other character.

The reference is the construction of the input: `values` is a sequence of at
most `MaxValues` values of `Values(MaxDepth)` (arrays of at most one element,
objects of at most one member, elements scalars, strings or nested values),
`spaces` optional whitespace before each, and `fragment` a proper prefix of a
value. The state is fixed after `Init`; TLC checks every initial state.

Runs (`MaxUnits = 1`, `MaxDepth = 1`, `MaxValues = 2`):

* In `text_scanners` (pass; `MC_Scanners.tla`): `YieldsEachValue` with
  string contents of ordinary characters (import paths, names,
  directories).
* `json_string_contents` (violation): strings may also hold a `]` or an
  escaped quote. TLC's first counterexample is the incomplete `["]`, which
  yields a value because the `]` inside the string closes the array; a
  complete `["]"]` is cut the same way, and `["\""]` reaches `json.loads` as
  `["""]`.

The bounds give two values back to back (the reset between values),
whitespace between them, nesting (a close that does not end the value), an
empty array and object, and every incomplete tail of a depth-0 value; longer
strings and deeper nesting repeat the same branches of `Step`.

### GoWorkspace (`GoWorkspace.tla`, `MC_GoWorkspace.tla`)

Discovery reads two kinds of file and keeps no state, so it is a set of
operators. A go.work line is a record of its kind (blank, comment, `go`,
`use (`, `)`, `use ./p`, a path) and the path it names; a go.mod line is its
kind (blank, comment, `module <ident>`, a `module` line that does not split
into two parts, `require`) and the identity it names. `ScanUseBlock` is the
loop of `_workspace_module_paths` (golang.py 219-232) with its
`in_use_statement` flag; `ModuleDefs` is the loop over one go.mod
(252-277); `CollectModules` is the loop over the listed paths (240-282). A
line that the code takes as a path but that is not one (`use ./p` inside the
block, say) names a directory without a go.mod, which raises.

The state is the two files: `work` (a go.work or `Absent`) and `gomod` (a
go.mod or `Missing` for each of two paths). `DiscoveryMatchesDescriptors`
says: a go.work of the spec's format whose listed go.mod files each declare
a module gives exactly those modules in order; anything else raises.

* In `text_scanners` (pass): `DiscoveryMatchesDescriptors` on every
  well-formed go.work with at most one prelude line, up to three lines in
  the block and one after it, or none; every assignment of go.mod files
  (13 forms or missing) to the two paths.
* `go_plan_workspace` (violation; `MC_GoPlan_workspace.cfg`): every go.work
  of up to three lines of any kind, with the Go test plan (GoTestPlan,
  instanced as `Plan` with every test passing) run on the modules discovery
  returns. `GoPlanFollowsSpec`: discovery either raises, or the go.work is
  well formed and the plan ends normally or with the `CommandException` or
  `TestException` the spec allows. TLC's first counterexample is the empty
  go.work: no use block, no error, no modules, and `fetch_coverage` raises
  `ZeroDivisionError`.

Two paths and up to three block lines give duplicates, order, and comments
and blank lines between paths; the go.mod forms hit every branch of the
module-line loop.

### LicenseCheck (`LicenseCheck.tla`, `MC_LicenseCheck.tla`)

Every function of the audit is a pure function of one file's lines, so the
module is operators over a file record (suffix, whether a path element is
ignored, content). A line is abstracted to its kind after `strip()`:
`exec` (`#!` or `<?xml`), `blank`, `sep` (the comment prefix alone),
`code`, and the header's own lines (`copyright`, `copyright_other` with
another year, `body`, `spdx`, `xml_open`, `xml_close`). `MatchHeader` is the
loop of `content_has_header` with its `matching_header` flag and line
number; `SkipBlank` the loop after the exec line; `insert_license_header`
the rewrite (first line and a blank line when the offset is positive, the
header, the rest); `SpdxCount` what `validate_license_header` counts;
`Audit` one iteration of `main`'s walk. The input is any file of the four
suffixes `.go`, `.svg`, `.md` and none, with or without an exec line, up to
`MaxFree = 2` free lines (blank, separator, code) before and after at most
one existing header.

* In `text_scanners` (pass, header years 2023 only):
  `AuditLeavesOneHeader` (a rewritten file holds exactly one SPDX line),
  `ContentPreserved` (only the header block is added, at the top or after
  the exec line, which stays first) and `AuditIdempotent` (a second audit
  changes nothing).
* `license_other_year` (violation; `MC_LicenseCheck_years.cfg`): existing
  headers may carry another year. `AuditLeavesOneHeader` fails on a `.go`
  file whose header has another year: its first line does not equal the
  2023 line, so matching never starts, no later line equals it either, and
  the file gets a second header and two SPDX lines.

Two free lines on each side give a header preceded by blanks, by a
separator (what a header damaged at the top looks like) and by code, and
files with no header at all.

### GoTestPlan (`GoTestPlan.tla`)

`RunTests` is the loop of `run_tests` (go test per module, profile named
after the module's name, `CommandException` on a failure); `FetchCoverage`
the loop of `fetch_coverage` (the profile's `total:` line or
`TestException`, then the sum divided by the module count). The input is
the module list, each directory's test result and the total its profile
reports.

* Composed with discovery in `go_plan_workspace` (above). No passing run
  states a property of it alone: the mean over modules of distinct names
  follows from the loop's shape, and with two modules of one name the
  shared profile (golang.py:300) is a hazard, not a run.

### GoBuild (`GoBuild.tla`)

A go list value is a record: object or array, package name, import path
as its path elements, and `GoFiles` as files of line kinds (`func_main`
for a line starting with `func main`), or `None`. `List` is the loop of
`GoModule.list` (golang.py 117-144): `.get` on an array raises
`AttributeError` before the `isinstance` check; a value without `GoFiles`
is skipped. `main_modules` keeps what `contains_main_definition` accepts;
`BuildRoots` is the double loop of `build` (414-425), stopping at the
first failing `go build`. The input is the go list output of each
workspace module and the set of import paths whose build fails.

* In `text_scanners` (pass; up to two workspace modules of up to two
  values each: package main without `GoFiles`, without or with a
  `func main` line, another package with one, an array):
  `ExecutablesBuilt`: the binaries built are a prefix of the spec-8
  executables in go.work and go list order, named after the last element
  of the import path, and build returns normally exactly when go list
  printed only objects and every go build succeeded, having then built
  all of them. The mutant `contains_main_anywhere` (no package name check)
  breaks it.

### GitVersion (`GitVersion.tla`)

`Latest` is the loop of `_get_latest_version_label` (git.py 38-51) over
the lines `git tag --list v*` prints, each a version, a blank line, or a
tag that is not a version (`Version.parse` raises); `git_version` starts
it from the default label; `context_version` is the branch of
`new_project_context` (project.py 266-277) on `VERSION`. `beagle.semver`
is not in the tree: the versions are a constant sequence in ascending
precedence, and `Version`'s comparison (`Greater`) is its order.

* In `text_scanners` (pass; the default `0.0.0`, tags `0.0.0-rc1` below
  it, `1.0.0` and `1.1.0` above it, up to three lines; `VERSION` unset or
  set to any of them or to a non-version): `LatestVersionLabel`: the
  version is `VERSION`'s when it is set, and otherwise the greatest of the
  default and the tags, in any order of the tags; it raises exactly when
  `VERSION` or a tag is not a version. The mutant `LatestAgainstDefault`
  (each tag compared with the default instead of the latest so far) breaks
  it on tags listed newest first.

### ProjectPaths (`ProjectPaths.tla`, `MC_ProjectPaths.tla`)

`format_path_part` is `_format_path_parts` for one part
(project.py 149-154): `lstrip("./")`, `lstrip("/")`, `rstrip("/")`, which
strip character sets, not prefixes (`LStrip`, `RStrip`); `project_path`
joins the result to the project root (`Join`, `os.path.join` for a
relative part). A path is a sequence over `.`, `/` and one letter;
`Resolve` is the directory the filesystem reaches through it (`.` and
empty components stay, `..` goes up). `rel` is every relative path of up
to four characters.

* `project_paths` (violation of `UsePathResolvesInWorkspace`):
  `workspace_modules` resolves each relative path of go.work's use block
  with `project_path` and reads the go.mod there; the property says that
  is the directory the path names under the workspace root. TLC's
  counterexample is `..`, which `project_path` turns into the root
  itself; `../a` becomes `a` under the root, and `.a` becomes `a`.

### ProcessRunner (`ProcessRunner.tla`)

One call of `run` (subprocess.py 63-118). Actors and their actions:

| Actor | Variables | Actions |
|---|---|---|
| child process | `written`, `child`, `rc` | `child_write` (blocks while the pipe is full), `child_exit` (closes the write end) |
| pipe | `pipe` (at most `PipeCap` lines) | — |
| reader thread (`_tee`) | `reader`, `capture` | `tee_line` (decode and write to every sink, or die on `UnicodeDecodeError`), `tee_eof` |
| calling thread | `main` | `start_output_thread`, `process_wait`, `output_thread_join` (with `run`'s status check: return the buffer or raise `CommandException`) |

`invalid` is the set of output lines that are not UTF-8. The capture buffer
stands for every sink: `_tee` writes each line to all of them in turn from
the same thread.

Properties: `CaptureComplete` (when `run` returns or raises, the buffer holds
every line in order) and `RunReturns` (`<>` returned or raised).

Fairness: weak fairness on every action. The child is a process and the
reader and caller are OS threads; each keeps running while it can. Deadlock
checking is off in these runs because a stuck call is exactly what
`RunReturns` reports, with a counterexample, rather than as a deadlock.

* In `build_driver` (pass; the `runner` part of `MC_BuildDriver.tla`): 10 lines through a 3-line
  pipe, status 0 or 1, no bad line: every interleaving of child, reader
  and caller. `TypeOK`, `CaptureComplete`, and `RunReturns` (stated for
  the behaviours that follow the runner).
* `process_runner_truncated` (violation of `CaptureComplete`): line 2 of 3
  is not UTF-8; the reader dies, the child exits 0, `run` returns `<<1>>`.
  With more output after the bad line than the pipe holds (one line of four
  through a one-line pipe), the same model violates `RunReturns`: the child
  blocks forever.

More lines than the pipe holds are needed for the blocked-writer case; 10
and 3 give every fill level of the pipe with the reader ahead or behind.

### FanOutJoin and CodeGen (`FanOutJoin.tla`, `CodeGen.tla`)

`FanOutJoin` is the contract of code generation (spec 4.4) with no pool and
no order: tasks `Start` at most once while the caller has not returned,
`Finish` with success or failure, and the caller may `Return` only when no
task runs, normally only if every task succeeded, otherwise raising a failed
task's error or its own.

`CodeGen` is the code. The calling thread's actions follow
`GolangWorkspaceBuildPlan.prepare` (golang.py 378-393) and `go_generate`
(157-191): `go_generate` (grep, `GoModule.list`, which may raise, and the
submission of one future per package needing generation, in any iteration
order of the set), `as_completed_next` (a finished future is yielded and
`result()` called; a failure raises), `modules_done`, and `pool_shutdown`
(the `with` block's exit: `shutdown(wait=True)`). The pool's threads take
tasks from a FIFO queue (`worker_start`, at most `Workers` at once) and end
them (`task_finish`: `run_logged` returns or raises). `new_threadpool` and
`as_completed` are imported from `beagle.subprocess`, whose package file is
not in the tree; they are modelled with `concurrent.futures` semantics.

The refinement mapping `FOJ` sends `needs` to the tasks, a queued task to
`idle`, a task a thread runs to `running`, and the caller's `returned` and
`raised` to the result. `ImplementsFanOutJoin` (`FOJ!Spec`) is checked as a
temporal property, and with it each package is generated at most once, no
task runs when `prepare` returns or raises, and a raised error belongs to a
failed task or to `go list`. `GenerationTerminates` (`FOJ!Terminates`)
holds under weak fairness of the calling thread, the pool threads and every
task; the last assumes every `go generate` process ends, which the code does
not enforce (no timeout, by design).

Every task's `run_logged` appends to the plan's one log file through its
own buffered writer: `task_write` is `_tee` writing the child's next line,
after which the writer may flush (when it does depends on line lengths, so
it is a free choice); a flush (`Flush`) appends the buffered lines at the
end of the file (mode `"a"`, so O_APPEND); `task_finish` leaves the `with`
block, whose `close()` flushes the rest on return and on
`CommandException` alike. The log is kept for the trace, not for a
property: with each task's own counters and the flush in `task_finish`,
its lines are in the log in order whatever the interleaving, and the unit
is a whole line, so a flush that ends mid-line (golang.py:178) is below
the model.

* In `build_driver` (pass; the `codegen` part of `MC_BuildDriver.tla`,
  with CodeGen's `pc` and `err` renamed `gpc` and `gerr`): workspace modules `r1` (packages `a`, `b`,
  `c`) and `r2` (`d`), two threads, any set of packages needing generation,
  any `go list` failing, any task failing, up to `MaxLines = 2` lines per
  task (two lines give one task's output split over two flushes with
  another task's chunk between them).

Three packages under two threads give a queued task while both threads are
busy, and a failure observed while another task still runs; the second
module shows that later modules are skipped after a failure.

### ProjectSetup (`ProjectSetup.tla`)

`setup` is the entry of `ProjectContext.setup` (project.py 204-215): the
three roots are ensured (`ensure_dir`) and `previous_artifacts` is listed.
`copy_previous(n)` is one iteration of its loop, in any order (os.listdir
gives none); `CopyOutcome` is the branch on `isdir(n)` with what
`copytree` and `copy` do to a file or a directory source and an existing
destination. The working directory's directories are the input
`cwdDirs`. Invocations repeat setup on the same work directory.

* `project_setup` (violation; `MC_ProjectSetup.cfg`): two entry names, two
  invocations, the CI working directory (no directory named like an
  artifact). `PreviousArtifactsRestored`: once setup is done with the
  entries it has returned and the artifact root holds each of them with
  its kind. TLC's counterexample: one directory entry, `IsADirectoryError`
  on the first invocation.

### ProjectRoot (`ProjectRoot.tla`)

`FindRoot` is the loop of `_find_project_root` (project.py 67-85) over a
path given as its directories from `/` to beagle's package directory, each
with its name and whether it holds go.work; the checkout holding beagle
has one, beagle's own directories none (as in the tree).

* `project_root` (violation; `MC_ProjectRoot.cfg`, up to two directories
  between `/` and the checkout, any holding go.work, the checkout named
  `bhce` or not, `--foss-only` or not). `ProjectRootIsCheckout`: the root
  is the checkout, or the enterprise repository when the checkout is its
  `bhce` directory. TLC's counterexample: a checkout not named `bhce`
  inside a directory with a go.work; the parent becomes the root.

### PlanDriver and BuildDriver (`PlanDriver.tla`, `BuildDriver.tla`, `MC_BuildDriver.tla`)

`PlanDriver` is the spec's contract for a driver of plans (4.5, 4.6), with
no code in it: invocations `Start` one after another with some targets and,
for tests, possibly scoped to changes; at the first unsettled plan the
driver either `Skip`s it (not named by a non-empty target list, or scoped
and unchanged) or lets it `Prepare`; a plan then may `Execute`, ends its
phase normally (only from EXECUTING) or by raising (`EndPhase`), and
`Finish`es: FAILED if a phase or cleanup raised, otherwise SUCCEEDED, or
GATING when a coverage gate follows (`Gating`), which `Gate` passes or
fails. A failure propagates (`Fail`: the invocation may end at once). The
invocation `End`s after a failure or once every plan is settled, and may
`Abort` between plans, never inside a plan's lifecycle. BuildDriver
instantiates it with `Gating = FALSE` and no scoping.

`BuildDriver` is the code of `beagle build`. Its variables:

| Variable | Code |
|---|---|
| `uiSrc` | the UI source in the repository, edited between invocations (`edit_ui`) |
| `artifact` | the artifact directory `bh-ui`: `Absent`, `Empty` (made by `ensure_dir`, nothing built) or the version it was built from and whether it is whole |
| `assets` | `cmd/api/src/api/static/assets` (keep files only: `Empty`) |
| `binary` | the UI the last bh binary embeds |
| `targets`, `codegen` | the positional targets and `--disable-generation` |
| `idx`, `pc`, `err` | the loop position in `plans.build_plans`, the step, the propagating exception |
| `runs`, `runSrc` | invocations so far; history: the UI source the invocation started on |

Actions: `start_build` (`main` and `setup`), `select` (the loop head of
`run_builds`: end, target filter, entry into `prepare`), `yarn_install`
and `yarn_build` (`YarnBuildPlan`: `ensure_dir`, then `yarn build` into it),
`sync_workspace`, `code_generation` (the outcome of the block CodeGen
models), `copy_ui_assets` (`CopyBloodHoundUIAssets.run`: no directory
raises; delete, then copy; an `OSError` in between leaves it emptied or
partly copied), `go_build`, `cleanup` (the `finally`; both cleanups are
no-ops, so cleanup never raises here), `propagate` (`main` catches it).
Every external command may fail.

The refinement mapping `PD` reads each plan's lifecycle state off `idx`
and `pc` (`PlanState`): plans before `idx` succeeded or were skipped, the
prepare steps are PREPARING, the two build steps EXECUTING, `cleanup`
CLEANING_UP, and `raise`/`done` with an error FAILED.

* `build_driver` (pass, together with the process runner above; deadlock
  checking off because `RunReturns` and `GenerationTerminates` report a
  stuck call or generation): three invocations, targets none, `bh` or `bh-ui`,
  one edit of the UI source. `ImplementsPlanDriver` (`PD!Spec`);
  `FreshUIWhenBuiltTogether`: an invocation building both plans that
  exits 0 leaves a binary embedding the whole UI of the source it started
  on.

Three invocations reach a failed yarn build followed by a bh-only build
(the empty or partial artifact directory is then copied and embedded), a
bh-only build on a fresh checkout (no artifact: raises), and an edit
between a UI build and a later full build. `Finished` stutters once
`MaxRuns` invocations have ended.

No fairness is assumed for the build driver: its properties are safety
properties. (A `for` loop over a finite list whose body always returns or
raises cannot stall; that the commands themselves return is the no-timeout
hazard of the process runner.)

## 4. Findings

* `_run_test_plan` (test.py:54): an exception from `cleanup()` replaces the
  exception of `prepare()`/`run_tests()`; the spec says the original wins.
* `main` (main.py:132): SIGINT gives exit status 0 with plans never run.
* The manifest has no concurrency control (project.py:230-253): overlapping
  invocations lose each other's updates and can lower or erase a baseline
  that no gate checked.

* `json_multi_loads` (json.py:53): brackets inside strings move the depth,
  so a value whose strings hold a bracket is cut short (json.loads raises) or
  never closed (every later module silently dropped).
* `json_multi_loads` (json.py:41): a backslash inside a string is not
  written, so an escaped quote or backslash corrupts the value.

* `_workspace_module_paths` (golang.py:219): a go.work without a use block,
  or with one that is never closed, is accepted; with no modules the Go
  test plan runs nothing and its `fetch_coverage` divides by zero.

* `fetch_coverage` (golang.py:368): with no modules the division raises
  `ZeroDivisionError`, which `main` reports as an unexpected error with a
  traceback and exit 1, not the spec's `TestException` (exit 2).

* `content_has_header` (license_check.py:380): a header whose first line
  carries another year is not recognised, so the audit adds a second
  header and `validate_license_header` then warns about two SPDX lines.

* `setup` (project.py:216): `os.path.isdir` is given the bare name of a
  previous artifact, so it looks in the working directory. In CI (working
  directory = work directory) a directory in `previous_artifacts` goes to
  `shutil.copy`, which raises `IsADirectoryError`; `main` does not catch
  it and the invocation ends before any plan runs (`project_setup`).

* `_find_project_root` (project.py:80): a go.work in the parent of a
  standalone checkout makes the parent the project root; the parent check
  is meant for the checkout embedded as the enterprise repository's `bhce`
  directory and does not look at the name (`project_root`).

* `_format_path_parts` (project.py:152): `lstrip("./")` strips every
  leading `.` and `/` character, so a use path `../m` (a module beside the
  workspace) is read as `m` under the root, and `.hidden` as `hidden`
  (`project_paths`).

* `_tee` (subprocess.py:37): a line that is not UTF-8 raises in the reader
  thread; `run` then returns a truncated capture with no error, or, with more
  output than the pipe holds, never returns.

Observations not turned into runs: a failed `yarn build` leaves the
artifact directory that `ensure_dir` created (yarn.py:94), and a later
`beagle build bh` passes the existence check of `CopyBloodHoundUIAssets`,
deletes the served assets and embeds none (reachable in BuildDriver; the
spec says nothing about asset contents).
`_gate_coverage` exits with `SystemExit(1)`, the same status as a failed command, where the spec asks for
a distinct status; its comment speaks of a "half-percent margin" while the
code uses 1.5 points (the spec says to keep 1.5).

## 5. Not modelled, and why

* Command lines, environment variables, paths and log formatting: I/O with no
  control decisions.
* CLI parsing and the `Filesystem` path helpers: sequential string and
  path handling, except `_format_path_parts` and `project_path`
  (ProjectPaths). `parse_known_args` turns unknown options into targets,
  modelled as a target naming no plan (`tz`) in the test part of
  `build_driver`.
* `Version.parse` and its order (beagle.semver is not in the tree): a
  constant order in GitVersion.
* `git_label_hash`, `git_checkout_hash`, `git_status`: return a
  command's output and change no state.
* The excluded utilities (API client, harness generator): code generators
  and HTTP calls with no control state.
* `is_path_ignored` (license_check.py:325) matches substrings of the whole
  path; it only decides which files are visited (`ignored` in the input).
* The text of go list's output: GoBuild starts from decoded values, and
  the decoding is JsonMultiLoads. Two executables whose import paths end
  alike write one artifact (golang.py:416); the spec does not require
  distinct artifacts, so no property states it (the hazard is listed).
* Two Go modules of one name share one coverage profile (golang.py:300):
  the second module's `go test` overwrites the first one's profile, and
  `fetch_coverage` counts it twice. No go.work is in the tree, so whether
  the workspace has such modules is not known here; the hazard is listed.
* Components planned for later sittings are listed in section 2 and marked
  `not_modelled` in `PROJECT.json` until their module exists.
