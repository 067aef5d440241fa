---------------------------- MODULE LicenseCheck ----------------------------
(***************************************************************************)
(* The license header audit of license_check.py: main walks the tree and   *)
(* calls check_file on every file with a suffix outside the ignored paths; *)
(* check_file looks the header up by suffix, and insert_license_header     *)
(* leaves a file that content_has_header accepts alone and otherwise       *)
(* rewrites it with the header on top (after a "#!" or "<?xml" line).     *)
(* validate_license_header then warns unless the file holds exactly one   *)
(* SPDX line.  Each function is a pure function of the file's lines.      *)
(*                                                                         *)
(* A line is abstracted to its kind after strip(): "exec" (a line starting *)
(* with "#!" or "<?xml"), "blank", "sep" (the comment prefix alone, a     *)
(* blank line of the header), "code", and the kinds of the header's lines: *)
(* "copyright" (Copyright 2023 Specter Ops, Inc.), "copyright_other" (the  *)
(* same line with another year), "body", "spdx", "xml_open", "xml_close". *)
(***************************************************************************)
EXTENDS Naturals, Sequences, SequencesExt

CONSTANTS
    FileSuffixes,   \* the file suffixes a run considers ("" for none)
    Years,      \* the first lines an existing header may carry
    MaxFree     \* the most free lines before and after an existing header

\* LICENSE_HEADER: its first line, blank lines, the license text, SPDX.
LICENSE_HEADER == <<"copyright", "blank", "body", "blank", "spdx">>

\* generate_license_header(prefix): each blank line becomes the prefix
\* alone, every other line is prefixed.
CommentHeader == [i \in DOMAIN LICENSE_HEADER |->
                    IF LICENSE_HEADER[i] = "blank" THEN "sep" ELSE LICENSE_HEADER[i]]

XML_LICENSE_HEADER == <<"xml_open">> \o LICENSE_HEADER \o <<"xml_close">>

\* LICENSE_HEADERS_BY_EXTENSION, by the kind of header.
CommentSuffixes == {".go", ".mod", ".work", ".tsx", ".ts", ".js", ".jsx", ".cjs",
                    ".py", ".yaml", ".yml", ".sh", ".scss", ".Dockerfile", ".cue",
                    ".sql", ".toml"}
XmlSuffixes == {".svg", ".xml", ".html"}

HeaderFor(suffix) == IF suffix \in XmlSuffixes THEN XML_LICENSE_HEADER ELSE CommentHeader

\* What insert_license_header writes for the header: a generated comment
\* header ends with a newline, so write(header) and write("\n") leave a
\* blank line after it; the XML header has no trailing newline.
Written(suffix) ==
    IF suffix \in XmlSuffixes THEN XML_LICENSE_HEADER ELSE CommentHeader \o <<"blank">>

-----------------------------------------------------------------------------
(* The code.                                                               *)

\* _is_file_header: the line starts with one of FILE_HEADER_PREFIXES.
is_file_header(line) == line = "exec"

\* The loop of content_has_header: lines are compared with the header line
\* being matched; a full match, or a mismatch once matching has begun (a
\* "damaged" header, with a warning), accepts the file.
RECURSIVE MatchHeader(_, _, _, _)
MatchHeader(ls, header_lines, matching_header, header_lineno) ==
    IF ls = <<>> THEN FALSE
    ELSE IF Head(ls) = header_lines[header_lineno]
         THEN IF header_lineno + 1 > Len(header_lines) THEN TRUE
              ELSE MatchHeader(Tail(ls), header_lines, TRUE, header_lineno + 1)
         ELSE IF matching_header THEN TRUE
              ELSE MatchHeader(Tail(ls), header_lines, FALSE, header_lineno)

\* Mutant of content_has_header: the header is only looked for at the top
\* (the loop stops at the first line that does not match).
RECURSIVE MatchHeaderAtTop(_, _, _, _)
MatchHeaderAtTop(ls, header_lines, matching_header, header_lineno) ==
    IF ls = <<>> THEN FALSE
    ELSE IF Head(ls) = header_lines[header_lineno]
         THEN IF header_lineno + 1 > Len(header_lines) THEN TRUE
              ELSE MatchHeaderAtTop(Tail(ls), header_lines, TRUE, header_lineno + 1)
         ELSE matching_header

content_has_header_at_top(content_lines, header) ==
    MatchHeaderAtTop(content_lines, header, FALSE, 1)

content_has_header(content_lines, header) == MatchHeader(content_lines, header, FALSE, 1)

\* Mutant of SkipBlank: lines holding only the comment prefix are skipped too.
RECURSIVE SkipBlankAndSep(_, _)
SkipBlankAndSep(c, line_offset) ==
    IF line_offset < Len(c) /\ c[line_offset + 1] \in {"blank", "sep"}
    THEN SkipBlankAndSep(c, line_offset + 1) ELSE line_offset

\* The loop skipping leading blank lines after the exec header.
RECURSIVE SkipBlank(_, _)
SkipBlank(c, line_offset) ==
    IF line_offset < Len(c) /\ c[line_offset + 1] = "blank"
    THEN SkipBlank(c, line_offset + 1) ELSE line_offset

\* Mutant of insert_license_header: the content_has_header check is dropped.
insert_license_header_always(c, suffix) ==
    LET line_offset == SkipBlank(c, IF c # <<>> /\ is_file_header(c[1]) THEN 1 ELSE 0)
    IN  (IF line_offset > 0 THEN <<c[1], "blank">> ELSE <<>>)
        \o Written(suffix) \o SubSeq(c, line_offset + 1, Len(c))

\* insert_license_header: unchanged if the header is found; otherwise the
\* first line and a blank line when the offset is positive, the header,
\* and the lines from the offset on.
insert_license_header(c, suffix) ==
    IF content_has_header(c, HeaderFor(suffix)) THEN c
    ELSE LET line_offset == SkipBlank(c, IF c # <<>> /\ is_file_header(c[1]) THEN 1 ELSE 0)
         IN  (IF line_offset > 0 THEN <<c[1], "blank">> ELSE <<>>)
             \o Written(suffix) \o SubSeq(c, line_offset + 1, Len(c))

\* validate_license_header: the number of SPDX lines, which must be 1.
SpdxCount(c) == Len(SelectSeq(c, LAMBDA l : l = "spdx"))

\* check_file: only suffixes with a header are rewritten.
check_file(f) ==
    IF f.suffix \in CommentSuffixes \cup XmlSuffixes
    THEN insert_license_header(f.content, f.suffix) ELSE f.content

\* The loop body of main: files with no suffix or an ignored path element
\* are skipped.
Visited(f) == f.suffix # "" /\ ~f.ignored

Audit(f) == IF Visited(f) THEN check_file(f) ELSE f.content

-----------------------------------------------------------------------------
(* The inputs: files holding at most one existing header.                  *)

\* An existing header of the file's kind, whose first line is y.
ExistingHeader(suffix, y) ==
    [HeaderFor(suffix) EXCEPT ![IF suffix \in XmlSuffixes THEN 2 ELSE 1] = y]

Free == {"blank", "sep", "code"}

Contents(suffix) ==
    {e \o pre \o h \o post :
        e \in {<<>>, <<"exec">>},
        pre \in SeqOf(Free, MaxFree),
        h \in {<<>>} \cup {ExistingHeader(suffix, y) : y \in Years},
        post \in SeqOf(Free, MaxFree)}

Files == UNION {[suffix : {s}, ignored : BOOLEAN, content : Contents(s)] : s \in FileSuffixes}

VARIABLE file

Init == file \in Files

\* The file is fixed; the run checks the audit on every initial state.
Next == UNCHANGED file

Spec == Init /\ [][Next]_file

-----------------------------------------------------------------------------
(* Properties.                                                             *)

NonBlank(c) == SelectSeq(c, LAMBDA l : l # "blank")

\* The audit leaves every file it rewrites with exactly one license header:
\* validate_license_header, run right after insert_license_header, never
\* warns about a file that held at most one header before.
AuditLeavesOneHeader ==
    Visited(file) /\ file.suffix \in CommentSuffixes \cup XmlSuffixes
        => SpdxCount(Audit(file)) = 1

\* insert_license_header only adds the header, as one block, at the top or
\* right after a "#!"/"<?xml" line, which stays first; apart from blank
\* lines every line of the file is kept, in order.
ContentPreserved ==
    LET c == file.content
        n == NonBlank(c)
        o == Audit(file)
    IN  \/ o = c
        \/ \E i \in {0, 1} :
              /\ (i = 1) = (c # <<>> /\ c[1] = "exec")
              /\ NonBlank(o) = SubSeq(n, 1, i) \o NonBlank(HeaderFor(file.suffix))
                                \o SubSeq(n, i + 1, Len(n))

\* Auditing a file a second time changes nothing: the header written by
\* insert_license_header is the one content_has_header finds on the next
\* run of the check.
AuditIdempotent ==
    Audit([file EXCEPT !.content = Audit(file)]) = Audit(file)
=============================================================================
