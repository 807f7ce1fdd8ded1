\* Four rules of which two policies are made; four projects, two claims and two
\* job units; a graph of twelve anchors and two units of feedback.
SPECIFICATION MCSpec
CONSTANTS
    None = None
    Unreadable = Unreadable
    Rules <- MCRules
    Semantic = {"semantic"}
    Sectional = {"degree", "semantic"}
    Invalid = {"broken"}
    Contents <- MCContents
    Resumes <- MCResumes
    MaxPolicy = 2
    MaxAttempts = 2
    Projects = {"p1", "p2", "p3", "p4"}
    WorkUnits = {"w1", "w2", "w3", "w4"}
    ProjectOf <- MCProjectOf
    Claims = {"c", "d"}
    StatementOf <- MCStatementOf
    Order <- MCOrder
    Indicators = {"i1", "i2", "i3", "i4"}
    FrameworkOf <- MCFrameworkOf
    JobUnits = {"u1", "u2"}
    UnitRole <- MCUnitRole
    Extractions <- MCExtractions
    Verdicts <- MCVerdicts
    Answers <- MCAnswers
    EducationScore = 7500
    Anchors <- MCAnchors
    Kind <- MCKind
    Field <- MCField
    ListPlace <- MCListPlace
    Ordinal <- MCOrdinal
    Described <- MCDescribed
    PreferredUnits <- MCPreferred
    NumUnits = 2
    Judgements = {"support", "not_support", "contradicted"}
    BaseScores <- MCBases
    MaxAsked = 2
INVARIANTS
    RejectionHasGrounds
    ConclusionMatchesRules
    ProofsAreIndependent
    TailIsSeparated
    MatrixIsComplete
    PathsCountOnce
    ChangesAreAccounted
    DirectionKept
\* Every assessment ends with its publication.
CHECK_DEADLOCK FALSE
