---------------------------- MODULE ProjectPaths ----------------------------
(***************************************************************************)
(* Filesystem._format_path_parts and Filesystem.project_path               *)
(* (beagle/project/project.py): each part is cleaned with                  *)
(* lstrip("./").lstrip("/").rstrip("/") and joined to the project root by  *)
(* os.path.join.  workspace_modules hands project_path the relative paths  *)
(* of go.work's use block and reads the go.mod of the directory it         *)
(* returns.  str.lstrip and str.rstrip take a set of characters, not a    *)
(* prefix.                                                                 *)
(*                                                                         *)
(* A path is a string, a sequence of characters from a small alphabet      *)
(* (".", "/" and one letter), because what the code does to it is the     *)
(* question; the directory a path names is what the filesystem resolves   *)
(* it to, component by component.                                         *)
(***************************************************************************)
EXTENDS Naturals, Sequences, SequencesExt

CONSTANTS
    Chars,     \* the characters a path may hold
    MaxLen,    \* the longest relative path
    Project    \* the project root, an absolute path not ending in "/"

-----------------------------------------------------------------------------
(* The code.                                                               *)

\* str.lstrip(chars) and str.rstrip(chars): every leading (trailing)
\* character that is in chars goes.
RECURSIVE LStrip(_, _)
LStrip(s, chars) == IF s # <<>> /\ Head(s) \in chars THEN LStrip(Tail(s), chars) ELSE s

RECURSIVE RStrip(_, _)
RStrip(s, chars) == IF s # <<>> /\ Last(s) \in chars THEN RStrip(Front(s), chars) ELSE s

\* One part, as _format_path_parts cleans it.
format_path_part(p) == RStrip(LStrip(LStrip(p, {".", "/"}), {"/"}), {"/"})

\* os.path.join(root, part) for a part that does not start with "/".
Join(root, part) == root \o <<"/">> \o part

\* Filesystem.project_path with one part.
project_path(p) == Join(Project, format_path_part(p))

-----------------------------------------------------------------------------
(* Path resolution.                                                        *)

\* The components of a path: the strings between its "/" characters.
RECURSIVE Components(_, _, _)
Components(s, cur, acc) ==
    IF s = <<>> THEN Append(acc, cur)
    ELSE IF Head(s) = "/" THEN Components(Tail(s), <<>>, Append(acc, cur))
    ELSE Components(Tail(s), Append(cur, Head(s)), acc)

\* The directory the filesystem reaches through the components: an empty
\* component and "." stay, ".." goes up (not above the root), any other
\* enters a directory of that name.
RECURSIVE Walk(_, _)
Walk(cs, dir) ==
    IF cs = <<>> THEN dir
    ELSE CASE Head(cs) \in {<<>>, <<".">>} -> Walk(Tail(cs), dir)
           [] Head(cs) = <<".", ".">> ->
                Walk(Tail(cs), IF dir = <<>> THEN dir ELSE Front(dir))
           [] OTHER -> Walk(Tail(cs), Append(dir, Head(cs)))

Resolve(path) == Walk(Components(path, <<>>, <<>>), <<>>)

-----------------------------------------------------------------------------
VARIABLES rel   \* a relative path of go.work's use block

\* Relative paths: any string of Chars not starting with "/".
Init == rel \in {p \in SeqOf(Chars, MaxLen) : p = <<>> \/ Head(p) # "/"}

\* The input is fixed; the run checks every relative path.
Next == UNCHANGED rel

Spec == Init /\ [][Next]_rel

-----------------------------------------------------------------------------
(* Properties.                                                             *)

\* Spec 4.3 and 6: each relative path of the use block names a module
\* directory, relative to the workspace root, whose go.mod workspace_modules
\* must read; project_path, which workspace_modules resolves it with, names
\* that same directory.
UsePathResolvesInWorkspace ==
    Resolve(project_path(rel)) = Resolve(Join(Project, rel))
=============================================================================
