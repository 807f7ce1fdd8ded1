\* One application, perhaps of an older version with an empty profile; a new
\* profile, a new resume, a policy that comes and goes.  And a parallel batch of
\* two activities in a pool of two threads and a second process that may die; no
\* lease lapses while its executor lives.
SPECIFICATION MCSpec
CONSTANTS
    a1 = a1
    a2 = a2
    Applications = {a1}
    EmptyProfiles = {1}
    FirstProfile = 1
    MaxProfile = 2
    MaxResume = 2
    SlowRouting = {a1}
    SlowRebuild = {}
    w1 = w1
    w2 = w2
    e1 = e1
    e2 = e2
    e3 = e3
    NoWorker = NoWorker
    Workers = {w1, w2}
    Executors = {e1, e2, e3}
    NumActivities = 2
    Parallel = TRUE
    PolicyOf <- MCPolicies
    MaxAttempts = 2
    WorkerOf <- MCPool
    StepRetries = 1
    Crashable = {w2}
    Stalls = FALSE
INVARIANTS
    PublishedIsBacked
    StageHasRun
    FailureIsExplained
    OfferedStartAccepted
PROPERTIES
    ResultIsStable
    RunSettles
    NothingPublishedWhenOver
    ScreeningEnds
\* The run may have ended and every executor be idle or dead; an application that
\* is closed stays as it is.
CHECK_DEADLOCK FALSE
