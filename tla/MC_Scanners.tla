---------------------------- MODULE MC_Scanners ----------------------------
(***************************************************************************)
(* The text scanners and pure loops of the tree, checked in one run: json_ *)
(* multi_loads (JsonMultiLoads), workspace_modules (GoWorkspace), the license  *)
(* header audit (LicenseCheck), the Go build plan's                       *)
(* module discovery and go build loop (GoBuild), and the version label   *)
(* scan of git tags (GitVersion).  Each is a function of   *)
(* a fixed input; an initial state gives one of them each of its inputs   *)
(* and the others an empty one (no JSON text, no go.work, a file without  *)
(* a suffix, no workspace module), on which their properties  *)
(* are decided at once.                                                    *)
(***************************************************************************)
EXTENDS Naturals, Sequences, SequencesExt

CONSTANTS p1, p2, m1, m2, None, Absent, Missing, Malformed

VARIABLES
    values, spaces, fragment,   \* JsonMultiLoads: the decoder's input
    work, gomod,                \* GoWorkspace: go.work and the go.mod files
    file,                       \* LicenseCheck: the audited file
    lists, fails,               \* GoBuild: go list's output and go build's results
    env, tags                   \* GitVersion: VERSION and git tag's output

vars == <<values, spaces, fragment, work, gomod, file, lists, fails, env, tags>>

\* Strings of ordinary characters, at most two top-level values of depth 1.
Json == INSTANCE JsonMultiLoads
            WITH StringUnits <- {<<"other">>}, MaxUnits <- 1, MaxDepth <- 1,
                 MaxValues <- 2

\* Two module directories and identities; go.work files of the spec's format.
GoForms == INSTANCE GoWorkspace
            WITH Paths <- {p1, p2}, Idents <- {m1, m2}, Works <- {}, MaxBody <- 3
Go == INSTANCE GoWorkspace
            WITH Paths <- {p1, p2}, Idents <- {m1, m2},
                 Works <- GoForms!WellFormedWorks, MaxBody <- 3

\* A comment-header suffix, an XML-header suffix, an extension without a
\* header, and no suffix; existing headers carry the year 2023.
Lic == INSTANCE LicenseCheck
            WITH FileSuffixes <- {".go", ".svg", ".md", ""}, Years <- {"copyright"},
                 MaxFree <- 2

\* go list values: objects of package main under one of two import paths
\* with distinct last elements, without GoFiles, with a file holding no
\* "func main" line, or with a second file holding one; objects of another
\* package holding a "func main" line; and an array.
GoFileSets == {None, <<<<"other">>>>, <<<<"other">>, <<"other", "func_main">>>>}
GoImports == {<<"m", "a">>, <<"m", "b">>}
GoValues == [kind : {"dict"}, name : {"main"}, import : GoImports, files : GoFileSets]
            \cup [kind : {"dict"}, name : {"lib"}, import : GoImports,
                  files : {<<<<"other">>, <<"other", "func_main">>>>}]
            \cup {[kind |-> "list", name |-> "lib", import |-> <<"m", "a">>, files |-> None]}
GoBld == INSTANCE GoBuild WITH Values <- GoValues, MaxRoots <- 2, MaxPkgs <- 2

\* Tags below, at and above the default label; up to three lines.
GitVer == INSTANCE GitVersion
            WITH Versions <- <<"0.0.0-rc1", "0.0.0", "1.0.0", "1.1.0">>, MaxTags <- 3,
                 DefaultLabel <- "0.0.0"

JsonIdle == values = <<>> /\ spaces = <<>> /\ fragment = <<>>
GoIdle == work = Absent /\ gomod = [p \in {p1, p2} |-> Missing]
LicIdle == file = [suffix |-> "", ignored |-> FALSE, content |-> <<>>]
BuildIdle == lists = <<>> /\ fails = {}
TagsIdle == env = None /\ tags = <<>>

Init ==
    \/ Json!Init /\ GoIdle /\ LicIdle /\ BuildIdle /\ TagsIdle
    \/ JsonIdle /\ Go!Init /\ LicIdle /\ BuildIdle /\ TagsIdle
    \/ JsonIdle /\ GoIdle /\ Lic!Init /\ BuildIdle /\ TagsIdle
    \/ JsonIdle /\ GoIdle /\ LicIdle /\ GoBld!Init /\ TagsIdle
    \/ JsonIdle /\ GoIdle /\ LicIdle /\ BuildIdle /\ GitVer!Init

Next == UNCHANGED vars

Spec == Init /\ [][Next]_vars

-----------------------------------------------------------------------------
\* json_multi_loads yields one buffer per complete top-level value, holding
\* that value's text, and nothing for an incomplete tail.
YieldsEachValue == Json!YieldsEachValue

\* workspace_modules returns the modules a well-formed go.work lists, with the
\* identities their go.mod files declare, and raises otherwise.
DiscoveryMatchesDescriptors == Go!DiscoveryMatchesDescriptors

\* The audit (main, check_file, insert_license_header) leaves every visited
\* file with a header suffix holding exactly one license header.
AuditLeavesOneHeader == Lic!AuditLeavesOneHeader

\* insert_license_header adds the header as one block at the top or after a
\* "#!"/"<?xml" line and keeps every other non-blank line in order.
ContentPreserved == Lic!ContentPreserved

\* A second audit of an audited file (a rerun of the check) leaves it
\* unchanged.
AuditIdempotent == Lic!AuditIdempotent

\* The Go build plan's build runs go build on exactly the workspace's
\* executables (package main with a "func main" line), in order, and
\* returns normally exactly when go list printed only objects and every
\* go build succeeded.
ExecutablesBuilt == GoBld!ExecutablesBuilt

\* The version label of every build is the greatest of v0.0.0 and the v*
\* tags, in whatever order git lists them, and its scan raises exactly when
\* a v* tag is not a version.
LatestVersionLabel == GitVer!LatestVersionLabel
=============================================================================
