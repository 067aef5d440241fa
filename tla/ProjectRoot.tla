----------------------------- MODULE ProjectRoot -----------------------------
(***************************************************************************)
(* _find_project_root (beagle/project/project.py), called by               *)
(* new_project_context before main's try: starting at the directory of    *)
(* project.py it walks up the directory tree and returns the first        *)
(* directory holding go.work whose parent holds none (or any directory    *)
(* holding go.work with --foss-only), and raises WorkspaceException when  *)
(* it reaches the filesystem root.  The parent check is there for the     *)
(* BloodHound Community checkout embedded in the enterprise repository as *)
(* its bhce directory (BHCE_REPO_DIRECTORY), whose own go.work must not   *)
(* win.                                                                    *)
(*                                                                         *)
(* A path is the sequence of its directories from the filesystem root     *)
(* down to beagle's package directory, each with its name ("bhce" or      *)
(* another) and whether it holds go.work.  The last is beagle's package   *)
(* directory (no go.work, as in the tree), the one before it the checkout *)
(* holding beagle, whose go.work is the Community workspace.              *)
(***************************************************************************)
EXTENDS Naturals, Sequences, SequencesExt

CONSTANTS
    MaxAbove   \* the most directories between the filesystem root and the checkout

Dir(name, work) == [name |-> name, work |-> work]

\* The filesystem root never holds go.work; any directories above the
\* checkout; the checkout, named bhce or not; beagle's directory.
Paths ==
    {<<Dir("/", FALSE)>> \o above \o <<Dir(n, TRUE), Dir("beagle", FALSE)>> :
        above \in SeqOf({Dir("other", w) : w \in BOOLEAN}, MaxAbove),
        n \in {"bhce", "other"}}

-----------------------------------------------------------------------------
(* The code.                                                               *)

\* The loop of _find_project_root from path[k] upward: it stops at the
\* filesystem root (dirname of "/" is "/").
RECURSIVE FindRoot(_, _, _)
FindRoot(path, foss_only, k) ==
    IF k = 1 THEN "WorkspaceException"
    ELSE IF path[k].work /\ (foss_only \/ ~path[k - 1].work) THEN k
    ELSE FindRoot(path, foss_only, k - 1)

_find_project_root(path, foss_only) == FindRoot(path, foss_only, Len(path))

-----------------------------------------------------------------------------
VARIABLES path, foss_only

Init == path \in Paths /\ foss_only \in BOOLEAN

\* The input is fixed; the run checks the search on every initial state.
Next == UNCHANGED <<path, foss_only>>

Spec == Init /\ [][Next]_<<path, foss_only>>

-----------------------------------------------------------------------------
(* Properties.                                                             *)

\* The project root is the checkout holding beagle or, without --foss-only,
\* the enterprise repository when the checkout is its bhce directory: the
\* case the parent check in _find_project_root is written for, and the
\* layout test.py (repo_dir of plans under bhce) and _bhce_path expect.
ProjectRootIsCheckout ==
    LET checkout == Len(path) - 1
        embedded == path[checkout].name = "bhce" /\ path[checkout - 1].work
    IN  _find_project_root(path, foss_only) =
            IF ~foss_only /\ embedded THEN checkout - 1 ELSE checkout
=============================================================================
