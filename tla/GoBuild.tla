------------------------------- MODULE GoBuild -------------------------------
(***************************************************************************)
(* GolangWorkspaceBuildPlan.build of golang.py: for each workspace module   *)
(* in go.work order, GoModule.main_modules lists the packages under it     *)
(* ("go list -json ./...", decoded by json_multi_loads), keeps those        *)
(* contains_main_definition accepts, and runs "go build -o <artifact>" on  *)
(* each, where the artifact is named after the last element of the       *)
(* package's import path.  A failed go build raises CommandException.     *)
(*                                                                         *)
(* A decoded go list value is a record: a JSON object ("dict") or array    *)
(* ("list"), the package name, the import path as its sequence of path     *)
(* elements, and GoFiles (None when the key is absent), each file being    *)
(* the kinds of its lines: "func_main" (starts with "func main"), "other". *)
(* The code is sequential: every loop is an operator, and the input is    *)
(* fixed in Init.                                                          *)
(***************************************************************************)
EXTENDS Naturals, Sequences, SequencesExt

CONSTANTS
    Values,     \* the values go list may print for one package
    MaxRoots,   \* the most workspace modules
    MaxPkgs,    \* the most packages under one workspace module
    None        \* GoFiles absent

-----------------------------------------------------------------------------
(* The code.                                                               *)

\* GoModule.artifact_name: module.split("/")[-1].
artifact_name(m) == Last(m.import)

\* Mutant of contains_main_definition: the package name is not checked.
contains_main_anywhere(m) ==
    \E f \in Range(m.files) : \E l \in Range(f) : l = "func_main"

\* GoModule.contains_main_definition: only a package named "main" is read,
\* file by file, for a line starting with "func main".
contains_main_definition(m) ==
    /\ m.name = "main"
    /\ \E f \in Range(m.files) : \E l \in Range(f) : l = "func_main"

\* The loop of GoModule.list: module_json.get("GoFiles") raises
\* AttributeError on a list before the isinstance check is reached; a
\* value without GoFiles is skipped; the rest become GoModules.
RECURSIVE List(_, _)
List(vs, modules) ==
    IF vs = <<>> THEN [raised |-> "none", modules |-> modules]
    ELSE LET v == Head(vs) IN
         IF v.kind = "list" THEN [raised |-> "AttributeError", modules |-> modules]
         ELSE IF v.files = None THEN List(Tail(vs), modules)
         ELSE List(Tail(vs), Append(modules, v))

\* GoModule.main_modules: list, then keep the executables.
main_modules(vs) ==
    LET l == List(vs, <<>>) IN
    [raised |-> l.raised,
     modules |-> SelectSeq(l.modules, LAMBDA m : contains_main_definition(m))]

\* The loops of build: each main module of each workspace module is built
\* in turn; the first go build that fails, or a main_modules that raises,
\* ends the plan.  built holds <<artifact, import path>> per binary.
RECURSIVE BuildRoots(_, _, _)
BuildRoots(lists, fails, built) ==
    IF lists = <<>> THEN [raised |-> "none", built |-> built]
    ELSE LET mm == main_modules(Head(lists))
             RECURSIVE BuildEach(_, _)
             BuildEach(ms, b) ==
                 IF ms = <<>> THEN BuildRoots(Tail(lists), fails, b)
                 ELSE IF Head(ms).import \in fails
                 THEN [raised |-> "CommandException", built |-> b]
                 ELSE BuildEach(Tail(ms),
                                Append(b, <<artifact_name(Head(ms)), Head(ms).import>>))
         IN  IF mm.raised # "none" THEN [raised |-> mm.raised, built |-> built]
             ELSE BuildEach(mm.modules, built)

-----------------------------------------------------------------------------
VARIABLES
    lists,   \* lists[k]: what go list prints under workspace module k
    fails    \* the import paths whose go build fails

\* The plan's build on this input.
BuildOutcome == BuildRoots(lists, fails, <<>>)

Init ==
    /\ lists \in UNION {[1..n -> SeqOf(Values, MaxPkgs)] : n \in 0..MaxRoots}
    /\ fails \in SUBSET {v.import : v \in Values}

\* The input is fixed; the run checks the build on every initial state.
Next == UNCHANGED <<lists, fails>>

Spec == Init /\ [][Next]_<<lists, fails>>

-----------------------------------------------------------------------------
(* Properties.                                                             *)

\* Spec 8: a module named main with a source file holding a line that
\* starts with "func main" is executable; no other module is.
Executable(v) ==
    /\ v.kind = "dict" /\ v.files # None /\ v.name = "main"
    /\ \E f \in Range(v.files) : "func_main" \in Range(f)

\* Every executable of the workspace, in go.work and go list order, as the
\* <<artifact, import path>> build would produce for it.
Executables ==
    FlattenSeq([k \in DOMAIN lists |->
        [j \in DOMAIN SelectSeq(lists[k], Executable) |->
            LET v == SelectSeq(lists[k], Executable)[j] IN <<Last(v.import), v.import>>]])

\* The Go build plan builds the workspace's executables (spec 4.3, 8) in
\* order, each to the artifact named after its import path: whatever it has
\* built when it stops is a prefix of them, and it returns normally exactly
\* when go list printed only objects and every go build succeeded, having
\* then built every one.
ExecutablesBuilt ==
    LET r == BuildOutcome
        ok == /\ \A k \in DOMAIN lists : \A j \in DOMAIN lists[k] :
                    lists[k][j].kind = "dict"
              /\ \A j \in DOMAIN Executables : Executables[j][2] \notin fails
    IN  /\ IsPrefix(r.built, Executables)
        /\ (r.raised = "none") = ok
        /\ r.raised = "none" => r.built = Executables
=============================================================================
