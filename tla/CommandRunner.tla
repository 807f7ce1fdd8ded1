---------------------------- MODULE CommandRunner ----------------------------
(***************************************************************************)
(* The synchronous write commands of the HTTP interface, each in one       *)
(* database transaction: CommandRunner.execute with its row locks, the     *)
(* ledger of idempotency keys, the files a handler puts into the object    *)
(* store before it knows whether its transaction commits, and the          *)
(* compensations and callbacks around it.  Next to the commands run the    *)
(* publishing transactions of the workers, which take row locks too.       *)
(*                                                                         *)
(* PostgreSQL is modelled from how the code uses it: READ COMMITTED, row   *)
(* locks held to the end of the transaction, a unique index that makes an  *)
(* INSERT wait for an unfinished one with the same key, and a deadlock     *)
(* detector that ends one transaction of a cycle.                          *)
(***************************************************************************)
EXTENDS Sequences, FiniteSets, Naturals

CONSTANTS
    Commands,       \* HTTP requests, each with its own thread and session
    Publications,   \* transactions in which workers publish a step
    Rows,           \* rows of the business tables
    Keys,           \* pairs (user, idempotency key)
    NoKey,          \* the key of a request that is not idempotent
    Hashes,         \* fingerprints of action, resource and body
    Files,          \* contents of uploaded files; the object key is their hash
    NoFile,         \* the file of a command that neither uploads nor deletes one
    NoOne,          \* owner of a free row, holder of an unused key
    KeyOf,          \* command |-> its key or NoKey
    HashOf,         \* command |-> its fingerprint
    LoaderRows,     \* transaction |-> rows its resource loader locks, in order
    HandlerRows,    \* transaction |-> rows its handler locks, in order
    FileOf,         \* command |-> file it uploads, or whose document it deletes
    Deletes,        \* commands that delete a document for good
    Attachments,    \* files whose document is shared by those who upload them
    OldFiles,       \* files with a document before the first command
    Unreliable      \* commands whose connection or process may break

Transactions == Commands \cup Publications

ASSUME CommandAssumption ==
    /\ IsFiniteSet(Transactions)
    /\ Commands \cap Publications = {}
    /\ NoOne \notin Transactions
    /\ NoKey \notin Keys
    /\ NoFile \notin Files
    /\ KeyOf \in [Commands -> Keys \cup {NoKey}]
    /\ HashOf \in [Commands -> Hashes]
    /\ LoaderRows \in [Transactions -> Seq(Rows)]
    /\ HandlerRows \in [Transactions -> Seq(Rows)]
    /\ FileOf \in [Commands -> Files \cup {NoFile}]
    /\ Deletes \subseteq {q \in Commands : FileOf[q] # NoFile}
    /\ Attachments \subseteq Files /\ OldFiles \subseteq Files
    /\ Unreliable \subseteq Commands

VARIABLES
    phase,      \* transaction |-> where CommandRunner.execute stands
    todo,       \* transaction |-> rows it has still to lock in this phase
    owner,      \* row |-> the transaction that has locked it
    ledger,     \* key |-> the command whose response is stored under it
    saved,      \* the transactions that have committed
    reply,      \* command |-> what its client is told
    put,        \* commands that have put a file and registered its removal
    objects,    \* files in the object store
    documents,  \* file |-> pairs: who refers to a document of it, and who has
                \* created that document; NoOne stands for the time before
    uses,       \* command |-> the document, by its creator, that it creates,
                \* refers to, or removes because nobody else refers to it
    cleanup,    \* deleting commands whose file is still to be removed
    ackLost     \* commands that committed but were told otherwise

vars == <<phase, todo, owner, ledger, saved, reply, put, objects, documents,
          uses, cleanup, ackLost>>

Open == {"loading", "authorizing", "checking", "handling", "recording", "committing"}
Phases == Open \cup {"idle", "undoing", "after", "done", "dead"}

\* The answers that are not a response: none yet, a 4xx, a retryable 5xx.
NoReply == [kind |-> "none", of |-> NoOne]
Rejected == [kind |-> "rejected", of |-> NoOne]
Unsaved == [kind |-> "unsaved", of |-> NoOne]
\* The response of command r, by itself or replayed from the ledger.
Response(r) == [kind |-> "response", of |-> r]
Replies == {NoReply, Rejected, Unsaved} \cup {Response(r) : r \in Commands}

Owners == Commands \cup {NoOne}

TypeOK ==
    /\ phase \in [Transactions -> Phases]
    /\ todo \in [Transactions -> Seq(Rows)]
    /\ owner \in [Rows -> Transactions \cup {NoOne}]
    /\ ledger \in [Keys -> Commands \cup {NoOne}]
    /\ saved \subseteq Transactions
    /\ reply \in [Commands -> Replies]
    /\ put \subseteq Commands
    /\ objects \subseteq Files
    /\ documents \in [Files -> SUBSET (Owners \X Owners)]
    /\ uses \in [Commands -> SUBSET Owners]
    /\ cleanup \subseteq Deletes
    /\ ackLost \subseteq Unreliable

Init ==
    /\ phase = [t \in Transactions |-> "idle"]
    /\ todo = [t \in Transactions |-> << >>]
    /\ owner = [r \in Rows |-> NoOne]
    /\ ledger = [k \in Keys |-> NoOne]
    /\ saved = {}
    /\ reply = [q \in Commands |-> NoReply]
    /\ put = {}
    /\ objects = OldFiles
    /\ documents = [f \in Files |-> IF f \in OldFiles THEN {<<NoOne, NoOne>>} ELSE {}]
    /\ uses = [q \in Commands |-> {}]
    /\ cleanup = {}
    /\ ackLost = {}

(***************************************************************************)
(* Locks                                                                   *)
(***************************************************************************)
\* t wants the first row it has still to lock,
Wants(t) == IF phase[t] \in {"loading", "handling"} /\ todo[t] # << >>
            THEN {Head(todo[t])} ELSE {}

\* an INSERT of a key waits for an unfinished INSERT of the same key, and who
\* refers to a document waits for who removes it and the other way about.
SameKey(t, u) == /\ t \in Commands /\ u \in Commands
                 /\ KeyOf[t] # NoKey /\ KeyOf[t] = KeyOf[u]
SameDocument(t, u) == /\ t \in Commands /\ u \in Commands /\ FileOf[t] = FileOf[u]
                      /\ uses[t] \cap uses[u] # {}
                      /\ (t \in Deletes) # (u \in Deletes)
WaitsFor(t) ==
    {u \in Transactions \ {t} :
        \/ \E r \in Wants(t) : owner[r] = u
        \/ /\ phase[t] = "recording" /\ phase[u] = "committing"
           /\ SameKey(t, u) \/ SameDocument(t, u)}

Blocked(t) == WaitsFor(t) # {}

\* t is on a cycle of transactions that wait for each other.
InCycle(t) ==
    \E S \in SUBSET Transactions :
        /\ t \in S
        /\ \A u \in S : WaitsFor(u) \cap S # {}
        /\ \A u \in S : \E w \in S : u \in WaitsFor(w)

GoTo(t, p) == phase' = [phase EXCEPT ![t] = p]
Released(t) == [r \in Rows |-> IF owner[r] = t THEN NoOne ELSE owner[r]]

\* Variant: the locks of a failed transaction are kept.
RollBackKeepsLocks(t, answer) ==
    /\ GoTo(t, IF t \in Commands THEN "undoing" ELSE "done")
    /\ todo' = [todo EXCEPT ![t] = << >>]
    /\ reply' = IF t \in Commands THEN [reply EXCEPT ![t] = answer] ELSE reply
    /\ UNCHANGED <<owner, ledger, saved, put, objects, documents, uses, cleanup, ackLost>>

\* The rollback of _rollback_and_compensate; the compensations follow.
RollBack(t, answer) ==
    /\ GoTo(t, IF t \in Commands THEN "undoing" ELSE "done")
    /\ todo' = [todo EXCEPT ![t] = << >>]
    /\ owner' = Released(t)
    /\ reply' = IF t \in Commands THEN [reply EXCEPT ![t] = answer] ELSE reply
    /\ UNCHANGED <<ledger, saved, put, objects, documents, uses, cleanup, ackLost>>

LockNext(t) ==
    /\ todo[t] # << >>
    /\ ~ Blocked(t)
    /\ owner' = [owner EXCEPT ![Head(todo[t])] = t]
    /\ todo' = [todo EXCEPT ![t] = Tail(@)]
    /\ UNCHANGED <<phase, ledger, saved, reply, put, objects, documents, uses, cleanup, ackLost>>

(***************************************************************************)
(* A command                                                               *)
(***************************************************************************)
\* A request arrives; execute begins with the rows of its resource loader.
Send(q) ==
    /\ q \in Commands /\ phase[q] = "idle"
    /\ GoTo(q, "loading")
    /\ todo' = [todo EXCEPT ![q] = LoaderRows[q]]
    /\ UNCHANGED <<owner, ledger, saved, reply, put, objects, documents, uses, cleanup, ackLost>>

\* The loader locks its row.
LoadResource(q) == q \in Commands /\ phase[q] = "loading" /\ LockNext(q)

\* The resource is there and the user may act on it; only then is the ledger
\* consulted, and only for an idempotent command.
Authorize(q) ==
    /\ q \in Commands /\ phase[q] = "loading" /\ todo[q] = << >>
    /\ IF KeyOf[q] # NoKey
       THEN GoTo(q, "checking") /\ UNCHANGED todo
       ELSE GoTo(q, "handling") /\ todo' = [todo EXCEPT ![q] = HandlerRows[q]]
    /\ UNCHANGED <<owner, ledger, saved, reply, put, objects, documents, uses, cleanup, ackLost>>

\* The resource does not exist, or the user may not act on it.
Refuse(q) ==
    /\ q \in Commands /\ phase[q] = "loading" /\ todo[q] = << >>
    /\ RollBack(q, Rejected)

\* The command whose response is stored under q's key.
Holder(q) == IF KeyOf[q] = NoKey THEN NoOne ELSE ledger[KeyOf[q]]

\* Variant: the fingerprint is not compared.
ReplayAnything(q) ==
    /\ q \in Commands /\ phase[q] = "checking"
    /\ Holder(q) # NoOne
    /\ GoTo(q, "done")
    /\ owner' = Released(q)
    /\ reply' = [reply EXCEPT ![q] = Response(Holder(q))]
    /\ UNCHANGED <<todo, ledger, saved, put, objects, documents, uses, cleanup, ackLost>>

\* The stored response is returned and nothing is done.
Replay(q) ==
    /\ q \in Commands /\ phase[q] = "checking"
    /\ Holder(q) # NoOne
    /\ HashOf[Holder(q)] = HashOf[q]
    /\ GoTo(q, "done")
    /\ owner' = Released(q)
    /\ reply' = [reply EXCEPT ![q] = Response(Holder(q))]
    /\ UNCHANGED <<todo, ledger, saved, put, objects, documents, uses, cleanup, ackLost>>

\* The key has been used for another request.
Conflict(q) ==
    /\ q \in Commands /\ phase[q] = "checking"
    /\ Holder(q) # NoOne
    /\ HashOf[Holder(q)] # HashOf[q]
    /\ RollBack(q, Rejected)

Fresh(q) ==
    /\ q \in Commands /\ phase[q] = "checking"
    /\ Holder(q) = NoOne
    /\ GoTo(q, "handling")
    /\ todo' = [todo EXCEPT ![q] = HandlerRows[q]]
    /\ UNCHANGED <<owner, ledger, saved, reply, put, objects, documents, uses, cleanup, ackLost>>

\* The handler locks or updates another row.
HandlerLocks(q) == q \in Commands /\ phase[q] = "handling" /\ LockNext(q)

\* The handler rejects the command or fails, before it has put any file.
HandlerRaises(q) ==
    /\ q \in Commands /\ phase[q] = "handling"
    /\ ~ Blocked(q)
    /\ \E answer \in {Rejected, Unsaved} : RollBack(q, answer)

Uploads(q) == q \in Commands \ Deletes /\ FileOf[q] # NoFile

Creators(f) == {link[2] : link \in documents[f]}

\* An attachment is put if it has no document.  Another file may be put again
\* although it has one: for its candidate is archived, or its import is over.
MayPut(q) == Uploads(q) /\ (FileOf[q] \in Attachments => Creators(FileOf[q]) = {})

\* The handler fails after it has put the file and before the router has
\* registered the removal: the object stays behind.
HandlerRaisesAfterPut(q) ==
    /\ q \in Commands /\ phase[q] = "handling" /\ todo[q] = << >>
    /\ MayPut(q)
    /\ GoTo(q, "undoing")
    /\ owner' = Released(q)
    /\ reply' = [reply EXCEPT ![q] = Unsaved]
    /\ objects' = objects \cup {FileOf[q]}
    /\ UNCHANGED <<todo, ledger, saved, put, documents, uses, cleanup, ackLost>>

\* Nobody else refers to the document that a deletion is about.
OnlyOld(f) == documents[f] \subseteq {<<NoOne, NoOne>>}

\* What a handler that puts no file finds: the document of an attachment, which it
\* refers to; an import of the file that is still at work, which it leaves alone;
\* or, if it deletes, whether its document can go.
Found(q) ==
    IF ~ Uploads(q) THEN {IF q \in Deletes /\ OnlyOld(FileOf[q]) THEN {NoOne} ELSE {}}
    ELSE IF FileOf[q] \in Attachments THEN {{x} : x \in Creators(FileOf[q])}
    ELSE IF Creators(FileOf[q]) # {} THEN {{}} ELSE {}

\* The handler is through.  If it uploads a file it has put the object, whose key
\* is the hash of the content, and registered its removal.
Handled(q) ==
    /\ q \in Commands /\ phase[q] = "handling" /\ todo[q] = << >>
    /\ GoTo(q, "recording")
    /\ \/ /\ MayPut(q)
          /\ put' = put \cup {q} /\ objects' = objects \cup {FileOf[q]}
          /\ uses' = [uses EXCEPT ![q] = {q}]
       \/ /\ \E found \in Found(q) : uses' = [uses EXCEPT ![q] = found]
          /\ UNCHANGED <<put, objects>>
    /\ UNCHANGED <<todo, owner, ledger, saved, reply, documents, cleanup, ackLost>>

\* Variant: no unique index on (user, key).
RecordUnchecked(q) ==
    /\ q \in Commands /\ phase[q] = "recording"
    /\ GoTo(q, "committing")
    /\ UNCHANGED <<todo, owner, ledger, saved, reply, put, objects, documents, uses, cleanup, ackLost>>

\* Foreign keys: the document that is referred to is there, and that which is
\* removed is not referred to.
KeysHold(q) ==
    uses[q] \in {{}, {q}} \/ IF q \in Deletes THEN OnlyOld(FileOf[q])
                            ELSE uses[q] \subseteq Creators(FileOf[q])

\* The session is flushed: what the handler has made of the documents, the audit
\* event and the ledger entry are inserted.
Record(q) ==
    /\ q \in Commands /\ phase[q] = "recording"
    /\ ~ Blocked(q)
    /\ Holder(q) = NoOne /\ KeysHold(q)
    /\ GoTo(q, "committing")
    /\ UNCHANGED <<todo, owner, ledger, saved, reply, put, objects, documents, uses, cleanup, ackLost>>

\* IntegrityError: the unique index refuses a second entry under the key, or a
\* foreign key is broken.
RecordClashes(q) ==
    /\ q \in Commands /\ phase[q] = "recording"
    /\ ~ Blocked(q)
    /\ Holder(q) # NoOne \/ ~ KeysHold(q)
    /\ RollBack(q, Unsaved)

\* What the database does on commit: all changes become visible together.
Save(q) ==
    /\ saved' = saved \cup {q}
    /\ owner' = Released(q)
    /\ ledger' = IF KeyOf[q] = NoKey THEN ledger ELSE [ledger EXCEPT ![KeyOf[q]] = q]
    /\ documents' =
         IF FileOf[q] = NoFile THEN documents
         ELSE IF q \in Deletes THEN [documents EXCEPT ![FileOf[q]] = @ \ {<<NoOne, NoOne>>}]
         ELSE [documents EXCEPT ![FileOf[q]] = @ \cup {<<q, x>> : x \in uses[q]}]
    /\ cleanup' = IF q \in Deletes /\ uses[q] # {} /\ documents[FileOf[q]] # {}
                  THEN cleanup \cup {q} ELSE cleanup
    /\ UNCHANGED <<todo, put, objects, uses>>

Commit(q) ==
    /\ q \in Commands /\ phase[q] = "committing"
    /\ Save(q)
    /\ GoTo(q, "after")
    /\ reply' = [reply EXCEPT ![q] = Response(q)]
    /\ UNCHANGED ackLost

\* The commit fails and nothing is saved.
CommitFails(q) ==
    /\ q \in Unreliable /\ phase[q] = "committing"
    /\ RollBack(q, Unsaved)

\* The database commits but the connection breaks before it says so: commit()
\* raises all the same.
CommitUnacknowledged(q) ==
    /\ q \in Unreliable /\ phase[q] = "committing"
    /\ Save(q)
    /\ GoTo(q, "undoing")
    /\ reply' = [reply EXCEPT ![q] = Unsaved]
    /\ ackLost' = ackLost \cup {q}

\* The registered compensation removes the object by its key; a compensation
\* that fails is only logged.
Compensate(q) ==
    /\ q \in Commands /\ phase[q] = "undoing"
    /\ GoTo(q, "done")
    /\ \/ q \in put /\ objects' = objects \ {FileOf[q]}
       \/ UNCHANGED objects
    /\ UNCHANGED <<todo, owner, ledger, saved, reply, put, documents, uses, cleanup, ackLost>>

\* execute_object_cleanup removes the files of documents deleted for good.
RemoveFile(q) ==
    /\ q \in cleanup
    /\ objects' = objects \ {FileOf[q]}
    /\ cleanup' = cleanup \ {q}

\* Variant: a callback that fails is reported as a failure of the command.
AfterCommitRaises(q) ==
    /\ q \in Commands /\ phase[q] = "after"
    /\ GoTo(q, "done")
    /\ \/ RemoveFile(q) /\ UNCHANGED reply
       \/ reply' = [reply EXCEPT ![q] = Unsaved] /\ UNCHANGED <<objects, cleanup>>
    /\ UNCHANGED <<todo, owner, ledger, saved, put, documents, uses, ackLost>>

\* The callbacks after the commit: their failure is only logged.
AfterCommit(q) ==
    /\ q \in Commands /\ phase[q] = "after"
    /\ GoTo(q, "done")
    /\ RemoveFile(q) \/ UNCHANGED <<objects, cleanup>>
    /\ UNCHANGED <<todo, owner, ledger, saved, reply, put, documents, uses, ackLost>>

\* An administrator repeats a cleanup that is still pending.
RetryCleanup(q) ==
    /\ phase[q] \in {"done", "dead"}
    /\ RemoveFile(q)
    /\ UNCHANGED <<phase, todo, owner, ledger, saved, reply, put, documents, uses, ackLost>>

\* The API process dies: the database rolls back what was open, compensations
\* and callbacks do not run and the client gets no answer.
Crash(q) ==
    /\ q \in Unreliable /\ phase[q] \in Open \cup {"undoing", "after"}
    /\ GoTo(q, "dead")
    /\ todo' = [todo EXCEPT ![q] = << >>]
    /\ owner' = Released(q)
    /\ reply' = [reply EXCEPT ![q] = NoReply]
    /\ UNCHANGED <<ledger, saved, put, objects, documents, uses, cleanup, ackLost>>

(***************************************************************************)
(* A publication of a worker                                               *)
(***************************************************************************)
\* _finalize opens a transaction; its first row is the WorkflowRun.
Publish(w) ==
    /\ w \in Publications /\ phase[w] = "idle"
    /\ GoTo(w, "handling")
    /\ todo' = [todo EXCEPT ![w] = HandlerRows[w]]
    /\ UNCHANGED <<owner, ledger, saved, reply, put, objects, documents, uses, cleanup, ackLost>>

PublicationLocks(w) == w \in Publications /\ phase[w] = "handling" /\ LockNext(w)

PublicationCommits(w) ==
    /\ w \in Publications /\ phase[w] = "handling" /\ todo[w] = << >>
    /\ GoTo(w, "done")
    /\ saved' = saved \cup {w}
    /\ owner' = Released(w)
    /\ UNCHANGED <<todo, ledger, reply, put, objects, documents, uses, cleanup, ackLost>>

(***************************************************************************)
(* PostgreSQL ends a transaction that is part of a deadlock (40P01), which  *)
(* the command runner reports as a transient failure.                      *)
(***************************************************************************)
Deadlock(t) == InCycle(t) /\ RollBack(t, Unsaved)

Execute(q) ==
    \/ LoadResource(q) \/ Authorize(q) \/ Refuse(q)
    \/ Replay(q) \/ Conflict(q) \/ Fresh(q)
    \/ HandlerLocks(q) \/ HandlerRaises(q) \/ HandlerRaisesAfterPut(q)
    \/ Handled(q)
    \/ Record(q) \/ RecordClashes(q)
    \/ Commit(q) \/ CommitFails(q) \/ CommitUnacknowledged(q)
    \/ Compensate(q) \/ AfterCommit(q)

Finalize(w) == PublicationLocks(w) \/ PublicationCommits(w)

Next ==
    \/ \E q \in Commands : Send(q) \/ Execute(q) \/ RetryCleanup(q) \/ Crash(q)
    \/ \E w \in Publications : Publish(w) \/ Finalize(w)
    \/ \E t \in Transactions : Deadlock(t)

Spec == Init /\ [][Next]_vars

Step(t) == Execute(t) \/ Finalize(t) \/ Deadlock(t)

\* Threads go on, and the deadlock detector does its work.
Fairness == \A t \in Transactions : WF_vars(Step(t))

FairSpec == Spec /\ Fairness

(***************************************************************************)
(* Properties                                                              *)
(***************************************************************************)
\* Of all requests with one key, sent at the same time or again, at most one
\* takes effect: "网络重试只会复用已完成响应" (idempotency_guard.py).
OncePerKey == \A q1, q2 \in saved : SameKey(q1, q2) => q1 = q2

\* A success is reported only of a command that is saved, and to a request
\* that is that command or a repetition of it which itself changed nothing.
SuccessIsSaved ==
    \A q \in Commands : reply[q].kind = "response" =>
        /\ reply[q].of \in saved
        /\ reply[q].of # q =>
             /\ q \notin saved
             /\ SameKey(q, reply[q].of) /\ HashOf[q] = HashOf[reply[q].of]

\* An error means that the command was not saved (the docstring of
\* CommandRunner), unless the acknowledgement of the commit got lost.
ErrorMeansNotSaved ==
    \A q \in Commands \ ackLost :
        reply[q].kind \in {"rejected", "unsaved"} => q \notin saved

\* The file of every document is in the object store: to repeat a cleanup is safe,
\* "文件清理尚未完成，可安全重试。" (list_object_cleanup_tasks).
SavedFilesExist == \A f \in Files : documents[f] # {} => f \in objects

\* In the end no request that has come in is left unanswered, whatever the others
\* do: whoever waits for a row gets it, or is ended as part of a deadlock.
CommandsEnd ==
    <>[](\A q \in Commands : phase[q] \in {"idle", "done", "dead"})
=============================================================================
