\* One application and a second version of its resume.
SPECIFICATION Spec
CONSTANTS
    a1 = a1
    a2 = a2
    Applications = {a1}
    EmptyProfiles = {}
    FirstProfile = 0
    MaxProfile = 1
    MaxResume = 2
    SlowRouting = {}
    SlowRebuild = {}
INVARIANTS
    ScoresDemandedResume
\* An application that is closed stays as it is.
CHECK_DEADLOCK FALSE
