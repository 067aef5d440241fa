-------------------------- MODULE MC_LicenseCheck --------------------------
EXTENDS LicenseCheck

\* A comment-header suffix, an XML-header suffix, an ignored extension, and
\* no suffix.
MC_Suffixes == {".go", ".svg", ".md", ""}

\* Existing headers of 2023 only, or also of another year.
MC_Years2023 == {"copyright"}
MC_YearsAny == {"copyright", "copyright_other"}
=============================================================================
