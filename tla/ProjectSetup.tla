---------------------------- MODULE ProjectSetup ----------------------------
(***************************************************************************)
(* ProjectContext.setup (beagle/project/project.py), run by main at the    *)
(* start of every invocation: ensure_dir on the cache, log and artifact    *)
(* roots, then, when the work directory holds previous_artifacts, each of  *)
(* its entries is copied into the artifact root: with shutil.copytree when *)
(* os.path.isdir(name) holds, with shutil.copy otherwise.  isdir is given *)
(* the bare entry name, so it looks in the current working directory (the *)
(* work directory itself in CI, the invoking shell's directory locally). *)
(* An OSError of setup is not caught by main: the invocation ends with a  *)
(* traceback and status 1.                                                *)
(*                                                                         *)
(* Invocations run one after another and share the work directory and the *)
(* artifact root; nothing in beagle removes previous_artifacts.  An entry *)
(* is abstracted to its kind, a regular file or a directory; os.listdir's *)
(* order is arbitrary.                                                     *)
(***************************************************************************)
EXTENDS Naturals

CONSTANTS
    Names,     \* the entry names previous_artifacts may hold
    MaxRuns,   \* the most invocations
    CwdChoices,  \* the sets of entry names that may be directories in the cwd
    None       \* no entry of that name; no exception

Kinds == {"file", "dir"}

VARIABLES
    prev,      \* prev[n]: the kind of previous_artifacts/n, or None
    hasPrev,   \* previous_artifacts exists
    cwdDirs,   \* the names that are directories in the working directory
    roots,     \* the roots that exist
    arts,      \* arts[n]: the kind of the artifact root's entry n, or None
    todo,      \* the entries of os.listdir not copied yet
    runs,      \* how many invocations have started
    pc,        \* "idle", "copy" (in the loop), "ran" (setup returned), "failed"
    exc        \* the exception setup raised, or None

vars == <<prev, hasPrev, cwdDirs, roots, arts, todo, runs, pc, exc>>

\* Whatever an earlier job left in previous_artifacts, and a working
\* directory of CwdChoices; the artifact root starts empty.
Init ==
    /\ hasPrev \in BOOLEAN
    /\ prev \in IF hasPrev THEN [Names -> Kinds \cup {None}] ELSE {[n \in Names |-> None]}
    /\ cwdDirs \in CwdChoices
    /\ roots = {}
    /\ arts = [n \in Names |-> None]
    /\ todo = {}
    /\ runs = 0
    /\ pc = "idle"
    /\ exc = None

-----------------------------------------------------------------------------
(* The code.                                                               *)

\* Filesystem.ensure_dir: makedirs unless the path exists.
ensure_dir(r) == roots \cup {r}

\* main enters setup: the three roots are ensured, then previous_artifacts
\* is listed when it exists.
setup ==
    /\ pc \in {"idle", "ran", "failed"}
    /\ runs < MaxRuns
    /\ runs' = runs + 1
    /\ roots' = ensure_dir("cache") \cup ensure_dir("logs") \cup ensure_dir("artifacts")
    /\ todo' = IF hasPrev THEN {n \in Names : prev[n] # None} ELSE {}
    /\ pc' = IF todo' = {} THEN "ran" ELSE "copy"
    /\ exc' = None
    /\ UNCHANGED <<prev, hasPrev, cwdDirs, arts>>

\* What copying entry n does: the exception it raises, or the new kind of
\* the artifact root's entry n.  copytree lists its source, which fails on
\* a file, and refuses an existing destination; copy opens its source,
\* which fails on a directory, overwrites a file, and puts the file inside
\* a directory of the destination's name.
CopyOutcome(n) ==
    IF n \in cwdDirs
    THEN CASE prev[n] = "file" -> [exc |-> "NotADirectoryError"]
           [] arts[n] # None -> [exc |-> "FileExistsError"]
           [] OTHER -> [exc |-> None, kind |-> "dir"]
    ELSE CASE prev[n] = "dir" -> [exc |-> "IsADirectoryError"]
           [] arts[n] = "dir" -> [exc |-> None, kind |-> "dir"]
           [] OTHER -> [exc |-> None, kind |-> "file"]

\* One iteration of the loop over os.listdir(previous_artifact_path()).
copy_previous(n) ==
    /\ pc = "copy"
    /\ n \in todo
    /\ LET o == CopyOutcome(n) IN
       IF o.exc # None
       THEN pc' = "failed" /\ exc' = o.exc /\ UNCHANGED <<arts, todo>>
       ELSE /\ arts' = [arts EXCEPT ![n] = o.kind]
            /\ todo' = todo \ {n}
            /\ pc' = IF todo' = {} THEN "ran" ELSE "copy"
            /\ UNCHANGED exc
    /\ UNCHANGED <<prev, hasPrev, cwdDirs, roots, runs>>

Next ==
    \/ setup
    \/ \E n \in Names : copy_previous(n)
    \/ (pc \in {"ran", "failed"} /\ runs = MaxRuns /\ UNCHANGED vars)

Spec == Init /\ [][Next]_vars

-----------------------------------------------------------------------------
(* Properties.                                                             *)

\* setup restores the previous artifacts: once it is done with them, it has
\* returned (main goes on to the action) and the artifact root holds every
\* entry of previous_artifacts, a directory as a directory and a file as a
\* file, on every invocation of a job or of a developer's checkout.
PreviousArtifactsRestored ==
    pc \in {"ran", "failed"} =>
        /\ pc = "ran"
        /\ \A n \in Names : hasPrev /\ prev[n] # None => arts[n] = prev[n]
=============================================================================
