\* One run, leases lapse at will, but every process has a single thread.  One
\* process may die, a transaction may fail, and a third process is deployed
\* without the plan.
SPECIFICATION Spec
CONSTANTS
    r1 = r1
    r2 = r2
    w1 = w1
    w2 = w2
    w3 = w3
    t1 = t1
    t2 = t2
    t3 = t3
    NoRun = NoRun
    NoWorker = NoWorker
    Runs = {r1}
    Workers = {w1, w2, w3}
    Threads = {t1, t2, t3}
    ProcessOf <- MCSingleThreaded
    SubjectOf <- MCOneSubject
    KindOf <- MCOwnKind
    Supports <- MCRolling
    NumSteps = 2
    MaxAttempts = 2
    MaxPolls = 1
    Stalls = TRUE
    Crashable = {w1}
    InputFaults = FALSE
    MaxTxFailures = 1
INVARIANTS
    WithinBudget
PROPERTIES
    KeepsPromise
\* The queue may be empty and every worker idle or dead.
CHECK_DEADLOCK FALSE
