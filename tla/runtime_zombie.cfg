\* One run, two threads of one process, leases that lapse under live threads.
SPECIFICATION Spec
CONSTANTS
    r1 = r1
    r2 = r2
    w1 = w1
    w2 = w2
    w3 = w3
    t1 = t1
    t2 = t2
    t3 = t3
    NoRun = NoRun
    NoWorker = NoWorker
    Runs = {r1}
    Workers = {w1, w2}
    Threads = {t1, t2}
    ProcessOf <- MCProcessOf
    SubjectOf <- MCOneSubject
    KindOf <- MCOwnKind
    Supports <- MCAllSupported
    NumSteps = 2
    MaxAttempts = 1
    MaxPolls = 1
    Stalls = TRUE
    Crashable = {}
    InputFaults = TRUE
    MaxTxFailures = 0
INVARIANTS
    RunAgreesWithSteps
    PublishedIffSucceeded
PROPERTIES
    EndedIsFinal
\* The queue may be empty and every worker idle or dead.
CHECK_DEADLOCK FALSE
