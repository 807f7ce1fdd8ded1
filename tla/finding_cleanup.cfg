\* A deletion whose cleanup is still pending, and an upload of the same content.
SPECIFICATION UploadedLater
CONSTANTS
    c1 = c1
    c2 = c2
    c3 = c3
    w1 = w1
    app = app
    run = run
    k1 = k1
    k2 = k2
    h1 = h1
    h2 = h2
    f1 = f1
    NoKey = NoKey
    NoFile = NoFile
    NoOne = NoOne
    Commands = {c1, c3}
    Publications = {}
    Rows = {app, run}
    Keys = {k1, k2}
    Hashes = {h1, h2}
    Files = {f1}
    KeyOf <- MCOwnKeys
    HashOf <- MCHashOf
    LoaderRows <- MCLoaderRows
    HandlerRows <- MCHandlerRows
    FileOf <- MCFileOf
    Deletes = {c1}
    Attachments = {f1}
    OldFiles = {f1}
    Unreliable = {}
INVARIANT
    SavedFilesExist
CHECK_DEADLOCK FALSE
