\* A description, two versions of a job and one candidate; a document with two
\* drafts about one position; a deletion sent twice and an upload with the same
\* key, while a worker publishes and c1 may lose its connection or its process.
SPECIFICATION MCSpec
CONSTANTS
    A = A
    n1 = n1
    d1 = d1
    d2 = d2
    Texts = {A}
    Candidates = {n1}
    MaxVersion = 2
    MaxRevision = 2
    MaxAgain = 2
    Documents = {d1}
    Lines = {1, 2}
    DocumentOf <- MCDocumentOf
    MaxJob = 2
    MaxImports = 2
    c1 = c1
    c2 = c2
    c3 = c3
    w1 = w1
    app = app
    run = run
    k1 = k1
    k2 = k2
    h1 = h1
    h2 = h2
    f1 = f1
    NoKey = NoKey
    NoFile = NoFile
    NoOne = NoOne
    Commands = {c1, c2, c3}
    Publications = {w1}
    Rows = {app, run}
    Keys = {k1}
    Hashes = {h1, h2}
    Files = {f1}
    KeyOf <- MCKeyOf
    HashOf <- MCHashOf
    LoaderRows <- MCLoaderRows
    HandlerRows <- MCHandlerRows
    FileOf <- MCFileOf
    Deletes = {c1, c2}
    Attachments = {f1}
    OldFiles = {f1}
    Unreliable = {c1}
INVARIANTS
    LostWorkIsFound
    RetryIsAccepted
    OncePerKey
    SuccessIsSaved
    ErrorMeansNotSaved
PROPERTIES
    RunsAnswerWaiters
    ImportSettles
    CommandsEnd
\* Versions, requisitions and requests are used up and nothing more is asked for.
CHECK_DEADLOCK FALSE
