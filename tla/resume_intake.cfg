\* Two candidate records and three submissions: an upload that matches the
\* other candidate, or a resume with two later versions.
SPECIFICATION Spec
CONSTANTS
    c1 = c1
    c2 = c2
    Nobody = Nobody
    Candidates = {c1, c2}
    MaxSubmission = 3
    MaxArchived = 1
SYMMETRY MCSymmetry
INVARIANTS
    OfferedIsPossible
    ProcessingHasRun
    ReferencesAgree
\* A candidate may be archived and all submissions used up.
CHECK_DEADLOCK FALSE
