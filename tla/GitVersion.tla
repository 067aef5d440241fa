----------------------------- MODULE GitVersion -----------------------------
(***************************************************************************)
(* The version of the project context: new_project_context                *)
(* (beagle/project/project.py) parses the VERSION environment variable,   *)
(* less a leading "v", when it is set, and otherwise calls git_version and *)
(* _get_latest_version_label (beagle/util/git.py): the output of          *)
(* "git tag --list v*" is read line by line; a blank line is skipped, any  *)
(* other has its leading "v" cut and goes to Version.parse, which raises   *)
(* on text that is not a version; the greatest version, starting from the *)
(* default label, is returned.                                            *)
(*                                                                         *)
(* Version is imported from beagle.semver, which is not in the tree: a    *)
(* version here is a member of the constant sequence Versions, listed in  *)
(* ascending precedence, and Version's comparison is the order of that    *)
(* sequence.  A line is a version's label, "blank", or "bad" (a tag       *)
(* starting with v that is not a version, such as vnext).                  *)
(***************************************************************************)
EXTENDS Naturals, Sequences, SequencesExt

CONSTANTS
    Versions,      \* the versions tags may carry, in ascending precedence
    MaxTags,       \* the most lines git tag prints
    DefaultLabel,  \* new_project_context's default_label, v0.0.0
    None           \* VERSION not set

\* Version.__gt__, by precedence.
Rank(v) == IndexFirstSubSeq(<<v>>, Versions)
Greater(v, w) == Rank(v) > Rank(w)

-----------------------------------------------------------------------------
(* The code.                                                               *)

\* Mutant of the loop: each tag is compared with the default rather than
\* with the latest so far.
RECURSIVE LatestAgainstDefault(_, _, _)
LatestAgainstDefault(lines, default_version, latest_version) ==
    IF lines = <<>> THEN [raised |-> FALSE, version |-> latest_version]
    ELSE LET l == Head(lines) IN
         IF l = "blank" THEN LatestAgainstDefault(Tail(lines), default_version, latest_version)
         ELSE IF l = "bad" THEN [raised |-> TRUE, version |-> latest_version]
         ELSE LatestAgainstDefault(Tail(lines), default_version,
                                   IF Greater(l, default_version) THEN l ELSE latest_version)

\* The loop of _get_latest_version_label: blank lines are skipped,
\* Version.parse raises on a line that is not a version, and a greater
\* version replaces the latest.
RECURSIVE Latest(_, _, _)
Latest(lines, default_version, latest_version) ==
    IF lines = <<>> THEN [raised |-> FALSE, version |-> latest_version]
    ELSE LET l == Head(lines) IN
         IF l = "blank" THEN Latest(Tail(lines), default_version, latest_version)
         ELSE IF l = "bad" THEN [raised |-> TRUE, version |-> latest_version]
         ELSE Latest(Tail(lines), default_version,
                     IF Greater(l, latest_version) THEN l ELSE latest_version)

\* _get_latest_version_label: the default label parsed, then the loop.
git_version(output, default_label) == Latest(output, default_label, default_label)

\* The version of new_project_context: VERSION, its leading "v" trimmed,
\* goes to Version.parse; without VERSION, git_version from "v0.0.0".
context_version(env_version, output) ==
    IF env_version = None THEN git_version(output, DefaultLabel)
    ELSE [raised |-> env_version.label = "bad", version |-> env_version.label]

-----------------------------------------------------------------------------
VARIABLES
    env,   \* VERSION: None, or a label with or without its leading "v"
    tags   \* the lines git tag prints

Init ==
    /\ env \in {None} \cup [prefixed : BOOLEAN, label : Range(Versions) \cup {"bad"}]
    /\ tags \in IF env = None THEN SeqOf(Range(Versions) \cup {"blank", "bad"}, MaxTags)
                              ELSE {<<>>}

\* The input is fixed; the run checks the scan on every initial state.
Next == UNCHANGED <<env, tags>>

Spec == Init /\ [][Next]_<<env, tags>>

-----------------------------------------------------------------------------
(* Properties.                                                             *)

\* The version new_project_context stamps on every build (and passes to
\* golang_ldflags) is VERSION's, with or without its "v", when VERSION is
\* set; otherwise the greatest of the default and every v* tag, whatever
\* order git lists the tags in.  It fails exactly when VERSION, or a v* tag,
\* is not a version, which then ends every beagle command before main's try.
LatestVersionLabel ==
    LET r == context_version(env, tags)
        found == {DefaultLabel} \cup (Range(tags) \ {"blank", "bad"})
    IN  IF env # None
        THEN r = [raised |-> env.label = "bad", version |-> env.label]
        ELSE /\ r.raised = ("bad" \in Range(tags))
             /\ ~r.raised => \A v \in found : ~Greater(v, r.version)
             /\ ~r.raised => r.version \in found
=============================================================================
