\* Relative paths of up to four characters over ".", "/" and one letter,
\* under the project root /w/p.
CONSTANTS
    Chars = {".", "/", "a"}
    MaxLen = 4
    Project <- MC_Project
SPECIFICATION Spec
INVARIANT UsePathResolvesInWorkspace
