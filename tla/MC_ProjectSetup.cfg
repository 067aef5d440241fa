\* Two entry names, two invocations.  In CI the working directory is the
\* work directory, which holds the roots and previous_artifacts and no
\* directory named like an artifact.
CONSTANTS
    Names = {a, b}
    MaxRuns = 2
    CwdChoices = {{}}
    None = None
SPECIFICATION Spec
INVARIANT PreviousArtifactsRestored
