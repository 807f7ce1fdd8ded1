\* One run, two single-threaded processes of which one may die: every queued
\* run ends, or stops to wait for a person.
SPECIFICATION FairSpec
CONSTANTS
    r1 = r1
    r2 = r2
    w1 = w1
    w2 = w2
    w3 = w3
    t1 = t1
    t2 = t2
    t3 = t3
    NoRun = NoRun
    NoWorker = NoWorker
    Runs = {r1}
    Workers = {w1, w2}
    Threads = {t1, t2}
    ProcessOf <- MCSingleThreaded
    SubjectOf <- MCOneSubject
    KindOf <- MCOwnKind
    Supports <- MCAllSupported
    NumSteps = 2
    MaxAttempts = 1
    MaxPolls = 1
    Stalls = FALSE
    Crashable = {w1}
    InputFaults = FALSE
    MaxTxFailures = 0
PROPERTIES
    QueuedRunSettles
\* The queue may be empty and every worker idle or dead.
CHECK_DEADLOCK FALSE
