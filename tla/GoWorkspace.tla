----------------------------- MODULE GoWorkspace -----------------------------
(***************************************************************************)
(* Go workspace discovery of beagle/plan/golang.py: _workspace_module_paths *)
(* reads the use block of go.work, and workspace_modules reads the module *)
(* line of each listed module's go.mod.  Both are pure functions of the    *)
(* two files, so they are operators over sequences of lines.  A line is   *)
(* abstracted to its kind (what the stripped line starts or ends with) and *)
(* the path or module identity it names.                                  *)
(*                                                                         *)
(* The reference is the descriptor grammar of the spec: a use ( ... )     *)
(* block holding one relative path per non-blank, non-comment line, and a *)
(* go.mod whose first non-comment module line names the module.           *)
(***************************************************************************)
EXTENDS Naturals, Sequences, SequencesExt

CONSTANTS
    Paths,      \* the relative module paths a go.work can name
    Idents,     \* the module identities a go.mod can declare
    None,       \* the path or identity of a line that names none
    Absent,     \* no go.work at the project root
    Missing,    \* no go.mod in a listed directory
    Malformed,  \* the result of a go.mod whose module line is malformed
    Works,      \* the go.work files a run considers
    MaxBody     \* the most lines inside the use block of a generated go.work

\* go.work lines: blank, "// ...", "go 1.21", "use (", ")", "use ./p", "./p".
WorkLine(k) == [kind |-> k, path |-> None]
PathLine(p) == [kind |-> "path", path |-> p]
UseLine(p) == [kind |-> "use_single", path |-> p]

\* go.mod lines: blank, "// ...", "module <ident>", a module line that does
\* not split on spaces into two parts ("module" alone), "require ...".
ModLine(k) == [kind |-> k, ident |-> None]
ModuleLine(i) == [kind |-> "module", ident |-> i]

\* The result of workspace_modules: the modules, or GoWorkspaceException.
Failed == [error |-> TRUE, modules |-> <<>>]
Found(ms) == [error |-> FALSE, modules |-> ms]

-----------------------------------------------------------------------------
(* The code.                                                               *)

\* Mutant of ScanUseBlock: comment lines are not skipped.
RECURSIVE ScanUseBlockKeepsComments(_, _, _)
ScanUseBlockKeepsComments(ls, in_use_statement, module_paths) ==
    IF ls = <<>> THEN module_paths
    ELSE LET l == Head(ls) IN
         CASE l.kind = "blank" ->
                ScanUseBlockKeepsComments(Tail(ls), in_use_statement, module_paths)
           [] in_use_statement /\ l.kind = "close" -> module_paths
           [] in_use_statement ->
                ScanUseBlockKeepsComments(Tail(ls), TRUE, Append(module_paths, l))
           [] l.kind \in {"use_open", "use_single"} ->
                ScanUseBlockKeepsComments(Tail(ls), TRUE, module_paths)
           [] OTHER -> ScanUseBlockKeepsComments(Tail(ls), FALSE, module_paths)

\* The loop of _workspace_module_paths: blank and comment lines are skipped;
\* outside the block, a line starting with "use" opens it (the path of a
\* one-line "use ./p" is dropped); inside, a line ending with ")" ends the
\* scan and any other line is taken whole as a path.
RECURSIVE ScanUseBlock(_, _, _)
ScanUseBlock(ls, in_use_statement, module_paths) ==
    IF ls = <<>> THEN module_paths
    ELSE LET l == Head(ls) IN
         CASE l.kind \in {"blank", "comment"} ->
                ScanUseBlock(Tail(ls), in_use_statement, module_paths)
           [] in_use_statement /\ l.kind = "close" -> module_paths
           [] in_use_statement ->
                ScanUseBlock(Tail(ls), TRUE, Append(module_paths, l))
           [] l.kind \in {"use_open", "use_single"} ->
                ScanUseBlock(Tail(ls), TRUE, module_paths)
           [] OTHER -> ScanUseBlock(Tail(ls), FALSE, module_paths)

workspace_module_paths(work) == ScanUseBlock(work, FALSE, <<>>)

\* The loop over the lines of one go.mod: every module line is split on
\* spaces; one of two parts gives an identity, any other raises.  The
\* result is the identities, or Malformed.
RECURSIVE ModuleDefs(_)
ModuleDefs(ls) ==
    IF ls = <<>> THEN <<>>
    ELSE LET rest == ModuleDefs(Tail(ls)) IN
         CASE Head(ls).kind = "module_malformed" \/ rest = Malformed -> Malformed
           [] Head(ls).kind = "module" -> <<Head(ls).ident>> \o rest
           [] OTHER -> rest

\* The loop of workspace_modules over the listed paths: a listed line that
\* is not a plain path names a directory with no go.mod; a missing go.mod,
\* a malformed module line, or no module line raises GoWorkspaceException.
RECURSIVE CollectModules(_, _)
CollectModules(ps, gomod) ==
    IF ps = <<>> THEN Found(<<>>)
    ELSE LET l == Head(ps)
             defs == IF l.kind = "path" /\ gomod[l.path] # Missing
                     THEN ModuleDefs(gomod[l.path]) ELSE <<>>
             rest == CollectModules(Tail(ps), gomod)
         IN  IF defs \in {<<>>, Malformed} \/ rest.error THEN Failed
             ELSE Found([i \in DOMAIN defs |->
                            [path |-> l.path, module |-> defs[i]]]
                        \o rest.modules)

\* workspace_modules: no go.work raises; otherwise the modules of its paths.
workspace_modules(work, gomod) ==
    IF work = Absent THEN Failed
    ELSE CollectModules(workspace_module_paths(work), gomod)

-----------------------------------------------------------------------------
(* The reference: descriptors of the spec's grammar.                       *)

\* The lines allowed before the use block, inside it and after it.
PreludeLines == {WorkLine("blank"), WorkLine("comment"), WorkLine("go")}
BodyLines == {WorkLine("blank"), WorkLine("comment")} \cup {PathLine(p) : p \in Paths}
AfterLines == {WorkLine("blank"), WorkLine("comment")}

\* A go.work of the spec's format: some prelude, "use (", paths, blank and
\* comment lines, ")", and blank or comment lines.
WellFormedWork(w) ==
    \E i, j \in DOMAIN w :
        /\ i < j
        /\ w[i] = WorkLine("use_open") /\ w[j] = WorkLine("close")
        /\ \A k \in 1..(i - 1) : w[k] \in PreludeLines
        /\ \A k \in (i + 1)..(j - 1) : w[k] \in BodyLines
        /\ \A k \in (j + 1)..Len(w) : w[k] \in AfterLines

\* The paths the use block declares, in order.
DeclaredPaths(w) ==
    LET i == CHOOSE k \in DOMAIN w : w[k] = WorkLine("use_open")
        j == CHOOSE k \in DOMAIN w : w[k] = WorkLine("close")
        body == SubSeq(w, i + 1, j - 1)
    IN  [k \in 1..Len(SelectSeq(body, LAMBDA l : l.kind = "path")) |->
            SelectSeq(body, LAMBDA l : l.kind = "path")[k].path]

\* Well-formed go.work files of at most MaxBody lines in the block.
WellFormedWorks ==
    {pre \o <<WorkLine("use_open")>> \o body \o <<WorkLine("close")>> \o post :
        pre \in SeqOf(PreludeLines, 1), body \in SeqOf(BodyLines, MaxBody),
        post \in SeqOf(AfterLines, 1)}

\* Any go.work of at most three lines of any kind.
AnyWorks ==
    SeqOf({WorkLine(k) : k \in {"blank", "comment", "go", "use_open", "close"}}
          \cup {PathLine(p) : p \in Paths} \cup {UseLine(p) : p \in Paths}, 3)

\* go.mod files: an optional comment, at most one module line (possibly a
\* bare "module"), and an optional require line.
GoMods ==
    {pre \o mid \o post :
        pre \in {<<>>, <<ModLine("comment")>>},
        mid \in {<<>>, <<ModLine("module_malformed")>>}
                 \cup {<<ModuleLine(i)>> : i \in Idents},
        post \in {<<>>, <<ModLine("require")>>}}

\* The identity a go.mod with one module line declares.
DeclaredIdent(m) == ModuleDefs(m)[1]

VARIABLES
    work,    \* the go.work file, or Absent
    gomod    \* gomod[p]: the go.mod file in directory p, or Missing

vars == <<work, gomod>>

Init ==
    /\ work \in Works \cup {Absent}
    /\ gomod \in [Paths -> GoMods \cup {Missing}]

\* The files are fixed; the run checks discovery on every initial state.
Next == UNCHANGED vars

Spec == Init /\ [][Next]_vars

-----------------------------------------------------------------------------
(* Properties.                                                             *)

\* The spec of workspace_modules (section 4.3, section 8): a well-formed
\* go.work with N paths whose go.mod files each declare their module gives
\* exactly N modules, in order, each with the identity its go.mod declares;
\* anything else (no go.work, a malformed or absent use block, a missing
\* go.mod or one without a module line) raises GoWorkspaceException.
DiscoveryMatchesDescriptors ==
    LET out == workspace_modules(work, gomod) IN
    IF /\ work # Absent
       /\ WellFormedWork(work)
       /\ \A k \in DOMAIN DeclaredPaths(work) :
              gomod[DeclaredPaths(work)[k]] # Missing
              /\ ModuleDefs(gomod[DeclaredPaths(work)[k]]) \notin {<<>>, Malformed}
    THEN out = Found([k \in DOMAIN DeclaredPaths(work) |->
                        [path |-> DeclaredPaths(work)[k],
                         module |-> DeclaredIdent(gomod[DeclaredPaths(work)[k]])]])
    ELSE out.error
=============================================================================
