------------------------- MODULE CommandRunnerProofs -------------------------
(***************************************************************************)
(* What holds of the command runner for any number of requests, workers,   *)
(* rows, keys and files: types, at most one effect per idempotency key, and *)
(* that clients are told the truth about what was saved.                   *)
(***************************************************************************)
EXTENDS CommandRunner, TLAPS, SequenceTheorems

USE CommandAssumption

(***************************************************************************)
(* Types                                                                   *)
(***************************************************************************)
\* A transaction goes on to another phase and leaves the others alone.
LEMMA GoToTyped ==
  ASSUME TypeOK, NEW t \in Transactions, NEW p \in Phases, GoTo(t, p)
  PROVE  phase' \in [Transactions -> Phases]
BY DEF TypeOK, GoTo

LEMMA ReleasedTyped ==
  ASSUME TypeOK, NEW t
  PROVE  Released(t) \in [Rows -> Transactions \cup {NoOne}]
BY DEF TypeOK, Released

LEMMA RollBackTyped ==
  ASSUME TypeOK, NEW t \in Transactions, NEW answer \in {Rejected, Unsaved},
         RollBack(t, answer)
  PROVE  TypeOK'
<1>1. phase' \in [Transactions -> Phases]
  BY DEF RollBack, GoTo, TypeOK, Phases
<1>2. owner' \in [Rows -> Transactions \cup {NoOne}]
  BY ReleasedTyped DEF RollBack
<1>3. todo' \in [Transactions -> Seq(Rows)]
  BY DEF RollBack, TypeOK
<1>4. reply' \in [Commands -> Replies]
  BY DEF RollBack, TypeOK, Replies
<1> QED
  BY <1>1, <1>2, <1>3, <1>4 DEF RollBack, TypeOK

LEMMA LockNextTyped ==
  ASSUME TypeOK, NEW t \in Transactions, LockNext(t)
  PROVE  TypeOK'
<1>1. todo[t] \in Seq(Rows) /\ todo[t] # << >>
  BY DEF TypeOK, LockNext
<1>2. Head(todo[t]) \in Rows /\ Tail(todo[t]) \in Seq(Rows)
  BY <1>1
<1>3. owner' \in [Rows -> Transactions \cup {NoOne}]
  BY <1>2 DEF TypeOK, LockNext
<1>4. todo' \in [Transactions -> Seq(Rows)]
  BY <1>2 DEF TypeOK, LockNext
<1> QED
  BY <1>3, <1>4 DEF TypeOK, LockNext

LEMMA SaveTyped ==
  ASSUME TypeOK, NEW q \in Commands, Save(q)
  PROVE  /\ saved' \subseteq Transactions
         /\ owner' \in [Rows -> Transactions \cup {NoOne}]
         /\ ledger' \in [Keys -> Commands \cup {NoOne}]
         /\ documents' \in [Files -> SUBSET (Owners \X Owners)]
         /\ cleanup' \subseteq Deletes
         /\ UNCHANGED <<todo, put, objects, uses>>
<1>1. saved' \subseteq Transactions
  BY DEF TypeOK, Save, Transactions
<1>2. owner' \in [Rows -> Transactions \cup {NoOne}]
  BY ReleasedTyped DEF Save
<1>3. ledger' \in [Keys -> Commands \cup {NoOne}]
  BY DEF TypeOK, Save
<1>4. documents' \in [Files -> SUBSET (Owners \X Owners)]
  <2>1. CASE FileOf[q] = NoFile
    BY <2>1 DEF TypeOK, Save
  <2>2. CASE FileOf[q] # NoFile /\ q \in Deletes
    BY <2>2 DEF TypeOK, Save
  <2>3. CASE FileOf[q] # NoFile /\ q \notin Deletes
    <3> DEFINE new == {<<q, x>> : x \in uses[q]}
    <3>1. FileOf[q] \in Files
      BY <2>3, CommandAssumption
    <3>2. new \subseteq Owners \X Owners
      BY DEF TypeOK, Owners
    <3>3. documents' = [documents EXCEPT ![FileOf[q]] = documents[FileOf[q]] \cup new]
      BY <2>3 DEF Save
    <3> HIDE DEF new
    <3>4. documents[FileOf[q]] \cup new \in SUBSET (Owners \X Owners)
      BY <3>1, <3>2 DEF TypeOK
    <3> QED
      BY <3>3, <3>4 DEF TypeOK
  <2> QED
    BY <2>1, <2>2, <2>3
<1>5. cleanup' \subseteq Deletes
  BY DEF TypeOK, Save
<1> QED
  BY <1>1, <1>2, <1>3, <1>4, <1>5 DEF Save

\* Removing a file keeps the types.
LEMMA RemoveFileTyped ==
  ASSUME TypeOK, NEW q, RemoveFile(q)
  PROVE  objects' \subseteq Files /\ cleanup' \subseteq Deletes
BY DEF TypeOK, RemoveFile

\* A handler finds documents of its file.
LEMMA FoundTyped ==
  ASSUME TypeOK, NEW q \in Commands, NEW found \in Found(q)
  PROVE  found \subseteq Owners
<1>1. CASE ~ Uploads(q)
  BY <1>1 DEF Found, Owners
<1>2. CASE Uploads(q) /\ FileOf[q] \in Attachments
  <2>1. PICK x \in Creators(FileOf[q]) : found = {x}
    BY <1>2 DEF Found
  <2>2. FileOf[q] \in Files
    BY <1>2, CommandAssumption
  <2>3. PICK link \in documents[FileOf[q]] : x = link[2]
    BY <2>1 DEF Creators
  <2>4. link \in Owners \X Owners
    BY <2>2, <2>3 DEF TypeOK
  <2> QED
    BY <2>1, <2>3, <2>4
<1>3. CASE Uploads(q) /\ FileOf[q] \notin Attachments
  BY <1>3 DEF Found
<1> QED
  BY <1>1, <1>2, <1>3

LEMMA ExecuteTyped ==
  ASSUME TypeOK, NEW q \in Commands, Execute(q)
  PROVE  TypeOK'
<1> q \in Transactions
  BY DEF Transactions
<1>1. CASE LoadResource(q) \/ HandlerLocks(q)
  BY <1>1, LockNextTyped DEF LoadResource, HandlerLocks
<1>2. CASE Authorize(q)
  <2>1. phase' \in [Transactions -> Phases]
    <3>1. PICK p \in Phases : phase' = [phase EXCEPT ![q] = p]
      BY <1>2 DEF Authorize, GoTo, Phases, Open
    <3> QED
      BY <3>1 DEF TypeOK
  <2>2. todo' \in [Transactions -> Seq(Rows)]
    BY <1>2 DEF Authorize, TypeOK
  <2> QED
    BY <1>2, <2>1, <2>2 DEF Authorize, TypeOK
<1>3. CASE Refuse(q) \/ Conflict(q) \/ HandlerRaises(q) \/ RecordClashes(q) \/ CommitFails(q)
  BY <1>3, RollBackTyped
     DEF Refuse, Conflict, HandlerRaises, RecordClashes, CommitFails
<1>4. CASE Replay(q)
  <2>1. Holder(q) \in Commands
    BY <1>4 DEF Replay, Holder, TypeOK
  <2>2. reply' \in [Commands -> Replies]
    BY <1>4, <2>1 DEF Replay, TypeOK, Replies
  <2>3. phase' \in [Transactions -> Phases]
    BY <1>4 DEF Replay, GoTo, TypeOK, Phases
  <2>4. owner' \in [Rows -> Transactions \cup {NoOne}]
    BY <1>4, ReleasedTyped DEF Replay
  <2> QED
    BY <1>4, <2>2, <2>3, <2>4 DEF Replay, TypeOK
<1>5. CASE Fresh(q)
  BY <1>5 DEF Fresh, GoTo, TypeOK, Phases, Open
<1>6. CASE HandlerRaisesAfterPut(q)
  <2>1. objects' \subseteq Files
    BY <1>6 DEF HandlerRaisesAfterPut, MayPut, Uploads, TypeOK
  <2>2. reply' \in [Commands -> Replies]
    BY <1>6 DEF HandlerRaisesAfterPut, TypeOK, Replies
  <2>3. phase' \in [Transactions -> Phases]
    BY <1>6 DEF HandlerRaisesAfterPut, GoTo, TypeOK, Phases
  <2>4. owner' \in [Rows -> Transactions \cup {NoOne}]
    BY <1>6, ReleasedTyped DEF HandlerRaisesAfterPut
  <2> QED
    BY <1>6, <2>1, <2>2, <2>3, <2>4 DEF HandlerRaisesAfterPut, TypeOK
<1>7. CASE Handled(q)
  <2>1. objects' \subseteq Files /\ put' \subseteq Commands
    BY <1>7 DEF Handled, MayPut, Uploads, TypeOK
  <2>2. phase' \in [Transactions -> Phases]
    BY <1>7 DEF Handled, GoTo, TypeOK, Phases, Open
  <2>3. uses' \in [Commands -> SUBSET Owners]
    <3>1. {q} \subseteq Owners
      BY DEF Owners
    <3>2. PICK used \in SUBSET Owners : uses' = [uses EXCEPT ![q] = used]
      BY <1>7, <3>1, FoundTyped DEF Handled
    <3> QED
      BY <3>2 DEF TypeOK
  <2> QED
    BY <1>7, <2>1, <2>2, <2>3 DEF Handled, TypeOK
<1>8. CASE Record(q)
  BY <1>8 DEF Record, GoTo, TypeOK, Phases, Open
<1>9. CASE Commit(q) \/ CommitUnacknowledged(q)
  <2>1. Save(q)
    BY <1>9 DEF Commit, CommitUnacknowledged
  <2>2. phase' \in [Transactions -> Phases]
    BY <1>9 DEF Commit, CommitUnacknowledged, GoTo, TypeOK, Phases
  <2>3. reply' \in [Commands -> Replies]
    BY <1>9 DEF Commit, CommitUnacknowledged, TypeOK, Replies
  <2>4. ackLost' \subseteq Unreliable
    BY <1>9 DEF Commit, CommitUnacknowledged, TypeOK
  <2>5. todo' = todo /\ put' = put /\ objects' = objects /\ uses' = uses
    BY <2>1, SaveTyped
  <2> QED
    BY <2>1, <2>2, <2>3, <2>4, <2>5, SaveTyped DEF TypeOK
<1>10. CASE Compensate(q)
  <2>1. objects' \subseteq Files
    BY <1>10 DEF Compensate, TypeOK
  <2> QED
    BY <1>10, <2>1 DEF Compensate, GoTo, TypeOK, Phases
<1>11. CASE AfterCommit(q)
  <2>1. objects' \subseteq Files /\ cleanup' \subseteq Deletes
    BY <1>11, RemoveFileTyped DEF AfterCommit, TypeOK
  <2> QED
    BY <1>11, <2>1 DEF AfterCommit, GoTo, TypeOK, Phases
<1> QED
  BY <1>1, <1>2, <1>3, <1>4, <1>5, <1>6, <1>7, <1>8, <1>9, <1>10, <1>11 DEF Execute

LEMMA NextTyped ==
  ASSUME TypeOK, Next
  PROVE  TypeOK'
<1>1. ASSUME NEW q \in Commands, Send(q)
      PROVE  TypeOK'
  BY <1>1 DEF Send, GoTo, TypeOK, Phases, Open, Transactions
<1>2. ASSUME NEW q \in Commands, Execute(q)
      PROVE  TypeOK'
  BY <1>2, ExecuteTyped
<1>3. ASSUME NEW q \in Commands, RetryCleanup(q)
      PROVE  TypeOK'
  BY <1>3, RemoveFileTyped DEF RetryCleanup, TypeOK
<1>4. ASSUME NEW q \in Commands, Crash(q)
      PROVE  TypeOK'
  <2>1. q \in Transactions
    BY DEF Transactions
  <2>2. owner' \in [Rows -> Transactions \cup {NoOne}]
    BY <1>4, ReleasedTyped DEF Crash
  <2>3. phase' \in [Transactions -> Phases] /\ reply' \in [Commands -> Replies]
    BY <1>4, <2>1 DEF Crash, GoTo, TypeOK, Phases, Replies
  <2>4. todo' \in [Transactions -> Seq(Rows)]
    BY <1>4, <2>1 DEF Crash, TypeOK
  <2> QED
    BY <1>4, <2>2, <2>3, <2>4 DEF Crash, TypeOK
<1>5. ASSUME NEW w \in Publications, Publish(w)
      PROVE  TypeOK'
  BY <1>5 DEF Publish, GoTo, TypeOK, Phases, Open, Transactions
<1>6. ASSUME NEW w \in Publications, Finalize(w)
      PROVE  TypeOK'
  <2>1. w \in Transactions
    BY DEF Transactions
  <2>2. CASE PublicationLocks(w)
    BY <2>1, <2>2, LockNextTyped DEF PublicationLocks
  <2>3. CASE PublicationCommits(w)
    <3>1. owner' \in [Rows -> Transactions \cup {NoOne}]
      BY <2>3, ReleasedTyped DEF PublicationCommits
    <3> QED
      BY <2>1, <2>3, <3>1 DEF PublicationCommits, GoTo, TypeOK, Phases
  <2> QED
    BY <1>6, <2>2, <2>3 DEF Finalize
<1>7. ASSUME NEW t \in Transactions, Deadlock(t)
      PROVE  TypeOK'
  BY <1>7, RollBackTyped DEF Deadlock
<1> QED
  BY <1>1, <1>2, <1>3, <1>4, <1>5, <1>6, <1>7 DEF Next

LEMMA InitTyped == Init => TypeOK
<1> SUFFICES ASSUME Init PROVE TypeOK
  OBVIOUS
<1>1. {<<NoOne, NoOne>>} \subseteq Owners \X Owners
  BY DEF Owners
<1>2. documents \in [Files -> SUBSET (Owners \X Owners)]
  BY <1>1 DEF Init
<1>3. objects \subseteq Files
  BY CommandAssumption DEF Init
<1> QED
  BY <1>2, <1>3 DEF Init, TypeOK, Phases, Replies

\* The type invariant of the command runner.
THEOREM CommandTypeCorrect == Spec => []TypeOK
<1>1. Init => TypeOK
  BY InitTyped
<1>2. TypeOK /\ [Next]_vars => TypeOK'
  <2> SUFFICES ASSUME TypeOK, [Next]_vars
               PROVE  TypeOK'
    OBVIOUS
  <2>1. CASE Next
    BY <2>1, NextTyped
  <2>2. CASE UNCHANGED vars
    BY <2>2 DEF vars, TypeOK
  <2> QED
    BY <2>1, <2>2
<1> QED
  BY <1>1, <1>2, PTL DEF Spec


(***************************************************************************)
(* The ledger and the answers                                              *)
(***************************************************************************)
\* What is stored under a key was saved, and whatever was saved with a key is
\* stored; a flushed entry is the only one under its key.
LedgerInv ==
    /\ \A k \in Keys : ledger[k] # NoOne =>
         ledger[k] \in saved /\ KeyOf[ledger[k]] = k
    /\ \A q \in Commands \cap saved : KeyOf[q] # NoKey => ledger[KeyOf[q]] = q
    /\ \A q \in Commands : phase[q] = "committing" /\ KeyOf[q] # NoKey =>
         /\ ledger[KeyOf[q]] = NoOne
         /\ \A u \in Commands :
              phase[u] = "committing" /\ SameKey(q, u) => u = q

\* The answer is the response of another command, which q repeats.
Repeats(q) ==
    \E r \in Commands \cap saved :
        /\ reply[q] = Response(r) /\ q \notin saved /\ r # q
        /\ SameKey(q, r) /\ HashOf[q] = HashOf[r]

Failed(q) == reply[q] \in {Rejected, Unsaved} /\ (q \in saved => q \in ackLost)

Succeeded(q) == reply[q] = Response(q) /\ q \in saved

\* What q has been told, by the phase it is in.
Told(q) ==
    /\ phase[q] \in Open \cup {"idle"} => reply[q] = NoReply /\ q \notin saved
    /\ phase[q] = "undoing" => Failed(q)
    /\ phase[q] = "after" => Succeeded(q)
    /\ phase[q] = "done" => Failed(q) \/ Succeeded(q) \/ Repeats(q)
    /\ phase[q] = "dead" => reply[q] = NoReply

IInv == TypeOK /\ LedgerInv /\ \A q \in Commands : Told(q)

\* Whoever waits is loading, handling or recording, and is not a saved command.
LEMMA WaitingIsOpen ==
  ASSUME NEW t \in Transactions, InCycle(t)
  PROVE  phase[t] \in {"loading", "handling", "recording"}
<1>1. WaitsFor(t) # {}
  BY DEF InCycle
<1> QED
  BY <1>1 DEF WaitsFor, Wants

\* The steps that leave the ledger, what is saved and all answers alone.
Quiet(t) ==
    /\ phase' = [phase EXCEPT ![t] = phase'[t]]
    /\ phase'[t] = "committing" => phase[t] = "committing"
    /\ t \in Commands =>
         \/ phase[t] \in Open \cup {"idle"} /\ phase'[t] \in Open
         \/ phase[t] \in {"undoing", "after"} /\ phase'[t] = "done"
         \/ phase'[t] = phase[t]
    /\ UNCHANGED <<ledger, saved, reply, ackLost>>

LEMMA QuietKeeps ==
  ASSUME IInv, TypeOK', NEW t \in Transactions, Quiet(t)
  PROVE  IInv'
<1>1. phase \in [Transactions -> Phases]
  BY DEF IInv, TypeOK
<1>2. \A q \in Commands : phase'[q] = "committing" => phase[q] = "committing"
  BY <1>1 DEF Quiet, Transactions
<1>3. LedgerInv'
  BY <1>2 DEF IInv, LedgerInv, Quiet, SameKey
<1>4. ASSUME NEW q \in Commands
      PROVE  Told(q)'
  <2> USE DEF IInv, Told, Failed, Succeeded, Repeats, SameKey
  <2>1. CASE q = t
    BY <1>1, <2>1 DEF Quiet, Open
  <2>2. CASE q # t
    BY <1>1, <2>2 DEF Quiet, Transactions
  <2> QED
    BY <2>1, <2>2
<1> QED
  BY <1>3, <1>4 DEF IInv

LEMMA RollBackKeeps ==
  ASSUME IInv, TypeOK', NEW t \in Transactions, NEW answer \in {Rejected, Unsaved},
         phase[t] \in Open,
         phase' = [phase EXCEPT ![t] = IF t \in Commands THEN "undoing" ELSE "done"],
         reply' = IF t \in Commands THEN [reply EXCEPT ![t] = answer] ELSE reply,
         UNCHANGED <<ledger, saved, ackLost>>
  PROVE  IInv'
<1>1. phase \in [Transactions -> Phases] /\ reply \in [Commands -> Replies]
  BY DEF IInv, TypeOK
<1>2. \A q \in Commands : phase'[q] = "committing" => phase[q] = "committing"
  BY <1>1 DEF Transactions
<1>3. LedgerInv'
  BY <1>2 DEF IInv, LedgerInv, SameKey
<1>4. ASSUME NEW q \in Commands
      PROVE  Told(q)'
  <2> USE DEF IInv, Told, Failed, Succeeded, Repeats, SameKey
  <2>1. CASE q = t
    BY <1>1, <2>1 DEF Open
  <2>2. CASE q # t
    BY <1>1, <2>2 DEF Transactions
  <2> QED
    BY <2>1, <2>2
<1> QED
  BY <1>3, <1>4 DEF IInv

LEMMA RecordKeeps ==
  ASSUME IInv, TypeOK', NEW q \in Commands, Record(q)
  PROVE  IInv'
<1>1. phase \in [Transactions -> Phases]
  BY DEF IInv, TypeOK
<1>2. q \in Transactions /\ phase' = [phase EXCEPT ![q] = "committing"]
  BY DEF Record, GoTo, Transactions
<1>3. \A u \in Commands \ {q} : ~ (phase[u] = "committing" /\ SameKey(q, u))
  BY DEF Record, Blocked, WaitsFor, Transactions
<1>4. \A u \in Commands \ {q} : ~ (phase[u] = "committing" /\ SameKey(u, q))
  BY <1>3 DEF SameKey
<1>5. KeyOf[q] # NoKey => ledger[KeyOf[q]] = NoOne
  BY DEF Record, Holder
<1>6. UNCHANGED <<ledger, saved, reply, ackLost>>
  BY DEF Record
<1>7. LedgerInv'
  <2>1. ASSUME NEW u \in Commands, phase'[u] = "committing", KeyOf[u] # NoKey
        PROVE  /\ ledger'[KeyOf[u]] = NoOne
               /\ \A v \in Commands :
                    phase'[v] = "committing" /\ SameKey(u, v) => v = u
    BY <1>1, <1>2, <1>3, <1>4, <1>5, <1>6, <2>1
       DEF IInv, LedgerInv, Transactions
  <2>2. /\ \A k \in Keys : ledger'[k] # NoOne =>
             ledger'[k] \in saved' /\ KeyOf[ledger'[k]] = k
        /\ \A u \in Commands \cap saved' :
             KeyOf[u] # NoKey => ledger'[KeyOf[u]] = u
    BY <1>6 DEF IInv, LedgerInv
  <2> QED
    BY <2>1, <2>2 DEF LedgerInv, SameKey
<1>8. ASSUME NEW u \in Commands
      PROVE  Told(u)'
  <2> USE DEF IInv, Told, Failed, Succeeded, Repeats, SameKey
  <2>1. CASE u = q
    BY <1>1, <1>2, <1>6, <2>1 DEF Open, Record
  <2>2. CASE u # q
    BY <1>1, <1>2, <1>6, <2>2 DEF Transactions
  <2> QED
    BY <2>1, <2>2
<1> QED
  BY <1>7, <1>8 DEF IInv

LEMMA ReplayKeeps ==
  ASSUME IInv, TypeOK', NEW q \in Commands, Replay(q)
  PROVE  IInv'
<1>1. phase \in [Transactions -> Phases] /\ reply \in [Commands -> Replies]
  BY DEF IInv, TypeOK
<1>2. /\ q \in Transactions /\ phase[q] = "checking"
      /\ phase' = [phase EXCEPT ![q] = "done"]
      /\ reply' = [reply EXCEPT ![q] = Response(Holder(q))]
      /\ UNCHANGED <<ledger, saved, ackLost>>
  BY DEF Replay, GoTo, Transactions
<1>3. LedgerInv'
  BY <1>1, <1>2 DEF IInv, LedgerInv, SameKey, Transactions
<1>4. /\ Holder(q) \in Commands \cap saved /\ q \notin saved
      /\ SameKey(q, Holder(q)) /\ HashOf[q] = HashOf[Holder(q)]
  <2>1. KeyOf[q] \in Keys /\ Holder(q) = ledger[KeyOf[q]] /\ Holder(q) # NoOne
    BY DEF Replay, Holder
  <2>2. Holder(q) \in Commands \cap saved /\ KeyOf[Holder(q)] = KeyOf[q]
    BY <2>1 DEF IInv, LedgerInv, TypeOK
  <2>3. q \notin saved
    BY <1>2 DEF IInv, Told, Open
  <2> QED
    BY <2>1, <2>2, <2>3 DEF Replay, SameKey
<1>5. ASSUME NEW u \in Commands
      PROVE  Told(u)'
  <2>1. CASE u = q
    <3>1. phase'[q] = "done" /\ reply'[q] = Response(Holder(q))
      BY <1>1, <1>2
    <3>2. Repeats(q)'
      BY <1>2, <1>4, <3>1 DEF Repeats, SameKey
    <3> QED
      BY <2>1, <3>1, <3>2 DEF Told, Open
  <2>2. CASE u # q
    BY <1>1, <1>2, <2>2
       DEF IInv, Told, Failed, Succeeded, Repeats, SameKey, Transactions
  <2> QED
    BY <2>1, <2>2
<1> QED
  BY <1>3, <1>5 DEF IInv

\* The database commits q: the only command with its key.
LEMMA SaveKeeps ==
  ASSUME IInv, TypeOK', NEW q \in Commands, Commit(q) \/ CommitUnacknowledged(q)
  PROVE  IInv'
<1>1. /\ phase \in [Transactions -> Phases] /\ reply \in [Commands -> Replies]
      /\ ledger \in [Keys -> Commands \cup {NoOne}]
  BY DEF IInv, TypeOK
<1>2. /\ q \in Transactions /\ phase[q] = "committing"
      /\ phase' = [phase EXCEPT ![q] = phase'[q]]
      /\ reply' = [reply EXCEPT ![q] = reply'[q]]
      /\ phase'[q] # "committing"
      /\ saved' = saved \cup {q}
      /\ ledger' = IF KeyOf[q] = NoKey THEN ledger ELSE [ledger EXCEPT ![KeyOf[q]] = q]
  BY <1>1 DEF Commit, CommitUnacknowledged, Save, GoTo, Transactions
<1>3. /\ \/ phase'[q] = "after" /\ reply'[q] = Response(q)
         \/ phase'[q] = "undoing" /\ reply'[q] = Unsaved /\ q \in ackLost'
      /\ ackLost \subseteq ackLost'
  BY <1>1, <1>2 DEF Commit, CommitUnacknowledged, Save, GoTo
<1>4. q \notin saved
  BY <1>2 DEF IInv, Told, Open
<1>5. LedgerInv'
  <2>1. ASSUME NEW k \in Keys, ledger'[k] # NoOne
        PROVE  ledger'[k] \in saved' /\ KeyOf[ledger'[k]] = k
    BY <1>1, <1>2, <2>1 DEF IInv, LedgerInv
  <2>2. ASSUME NEW u \in Commands \cap saved', KeyOf[u] # NoKey
        PROVE  ledger'[KeyOf[u]] = u
    <3>1. KeyOf[u] \in Keys /\ KeyOf[q] \in Keys \cup {NoKey}
      BY <2>2
    <3>2. CASE u = q
      BY <1>1, <1>2, <2>2, <3>1, <3>2
    <3>3. CASE u # q
      <4>1. ledger[KeyOf[u]] = u /\ u # NoOne
        BY <1>2, <2>2, <3>3 DEF IInv, LedgerInv, Transactions
      <4>2. KeyOf[q] # NoKey => ledger[KeyOf[q]] = NoOne
        BY <1>2 DEF IInv, LedgerInv
      <4> QED
        BY <1>1, <1>2, <2>2, <3>1, <4>1, <4>2
    <3> QED
      BY <3>2, <3>3
  <2>3. ASSUME NEW u \in Commands, phase'[u] = "committing", KeyOf[u] # NoKey
        PROVE  /\ ledger'[KeyOf[u]] = NoOne
               /\ \A v \in Commands :
                    phase'[v] = "committing" /\ SameKey(u, v) => v = u
    <3>1. \A v \in Commands : phase'[v] = "committing" => phase[v] = "committing" /\ v # q
      BY <1>1, <1>2 DEF Transactions
    <3>2. u # q /\ phase[u] = "committing" /\ KeyOf[u] \in Keys
      BY <2>3, <3>1
    <3>3. ledger[KeyOf[u]] = NoOne /\ ~ SameKey(u, q)
      BY <1>2, <2>3, <3>2 DEF IInv, LedgerInv
    <3>4. KeyOf[u] # KeyOf[q]
      BY <2>3, <3>3 DEF SameKey
    <3> QED
      BY <1>1, <1>2, <2>3, <3>1, <3>2, <3>3, <3>4 DEF IInv, LedgerInv
  <2> QED
    BY <2>1, <2>2, <2>3 DEF LedgerInv, SameKey
<1>6. ASSUME NEW u \in Commands
      PROVE  Told(u)'
  <2>1. CASE u = q
    BY <1>2, <1>3, <2>1 DEF Told, Failed, Succeeded, Open
  <2>2. CASE u # q
    BY <1>1, <1>2, <1>3, <2>2
       DEF IInv, Told, Failed, Succeeded, Repeats, SameKey, Transactions
  <2> QED
    BY <2>1, <2>2
<1> QED
  BY <1>5, <1>6 DEF IInv

LEMMA CrashKeeps ==
  ASSUME IInv, TypeOK', NEW q \in Commands, Crash(q)
  PROVE  IInv'
<1>1. phase \in [Transactions -> Phases] /\ reply \in [Commands -> Replies]
  BY DEF IInv, TypeOK
<1>2. /\ q \in Transactions
      /\ phase' = [phase EXCEPT ![q] = "dead"]
      /\ reply' = [reply EXCEPT ![q] = NoReply]
      /\ UNCHANGED <<ledger, saved, ackLost>>
  BY DEF Crash, GoTo, Transactions
<1>3. LedgerInv'
  BY <1>1, <1>2 DEF IInv, LedgerInv, SameKey, Transactions
<1>4. ASSUME NEW u \in Commands
      PROVE  Told(u)'
  BY <1>1, <1>2
     DEF IInv, Told, Failed, Succeeded, Repeats, SameKey, Transactions, Open
<1> QED
  BY <1>3, <1>4 DEF IInv

LEMMA PublicationKeeps ==
  ASSUME IInv, TypeOK', NEW w \in Publications, PublicationCommits(w)
  PROVE  IInv'
<1>1. phase \in [Transactions -> Phases]
  BY DEF IInv, TypeOK
<1>2. /\ w \in Transactions /\ w \notin Commands
      /\ phase' = [phase EXCEPT ![w] = "done"] /\ saved' = saved \cup {w}
      /\ UNCHANGED <<ledger, reply, ackLost>>
  BY DEF PublicationCommits, GoTo, Transactions
<1>3. LedgerInv'
  BY <1>1, <1>2 DEF IInv, LedgerInv, SameKey, Transactions
<1>4. ASSUME NEW u \in Commands
      PROVE  Told(u)'
  BY <1>1, <1>2
     DEF IInv, Told, Failed, Succeeded, Repeats, SameKey, Transactions
<1> QED
  BY <1>3, <1>4 DEF IInv

LEMMA NextKeeps ==
  ASSUME IInv, Next
  PROVE  IInv'
<1>0. TypeOK' /\ phase \in [Transactions -> Phases]
  BY NextTyped DEF IInv, TypeOK
<1>1. ASSUME NEW q \in Commands, Send(q) \/ Execute(q) \/ RetryCleanup(q) \/ Crash(q)
      PROVE  IInv'
  <2>0. q \in Transactions
    BY DEF Transactions
  <2>1. CASE Send(q) \/ LoadResource(q) \/ Authorize(q) \/ Fresh(q)
             \/ HandlerLocks(q) \/ Handled(q) \/ Compensate(q) \/ AfterCommit(q)
             \/ RetryCleanup(q)
    <3>1. Quiet(q)
      BY <1>0, <2>0, <2>1
         DEF Send, LoadResource, Authorize, Fresh, HandlerLocks, Handled, Compensate,
             AfterCommit, RetryCleanup, LockNext, GoTo, Quiet, Open
    <3> QED
      BY <1>0, <2>0, <3>1, QuietKeeps
  <2>2. CASE Refuse(q) \/ Conflict(q) \/ HandlerRaises(q) \/ RecordClashes(q)
             \/ CommitFails(q)
    <3>1. PICK answer \in {Rejected, Unsaved} : RollBack(q, answer) /\ phase[q] \in Open
      BY <2>2 DEF Refuse, Conflict, HandlerRaises, RecordClashes, CommitFails, Open
    <3> QED
      BY <1>0, <2>0, <3>1, RollBackKeeps DEF RollBack, GoTo
  <2>3. CASE HandlerRaisesAfterPut(q)
    BY <1>0, <2>0, <2>3, RollBackKeeps DEF HandlerRaisesAfterPut, GoTo, Open
  <2>4. CASE Record(q)
    BY <1>0, <2>4, RecordKeeps
  <2>5. CASE Replay(q)
    BY <1>0, <2>5, ReplayKeeps
  <2>6. CASE Commit(q) \/ CommitUnacknowledged(q)
    BY <1>0, <2>6, SaveKeeps
  <2>7. CASE Crash(q)
    BY <1>0, <2>7, CrashKeeps
  <2> QED
    BY <1>1, <2>1, <2>2, <2>3, <2>4, <2>5, <2>6, <2>7 DEF Execute
<1>2. ASSUME NEW w \in Publications, Publish(w) \/ Finalize(w)
      PROVE  IInv'
  <2>1. CASE Publish(w) \/ PublicationLocks(w)
    <3>1. Quiet(w) /\ w \in Transactions
      BY <1>0, <2>1 DEF Publish, PublicationLocks, LockNext, GoTo, Quiet, Transactions
    <3> QED
      BY <1>0, <3>1, QuietKeeps
  <2>2. CASE PublicationCommits(w)
    BY <1>0, <2>2, PublicationKeeps
  <2> QED
    BY <1>2, <2>1, <2>2 DEF Finalize
<1>3. ASSUME NEW t \in Transactions, Deadlock(t)
      PROVE  IInv'
  <2>1. phase[t] \in Open
    BY <1>3, WaitingIsOpen DEF Deadlock, Open
  <2> QED
    BY <1>0, <1>3, <2>1, RollBackKeeps DEF Deadlock, RollBack, GoTo
<1> QED
  BY <1>1, <1>2, <1>3 DEF Next

LEMMA IInvHolds == Spec => []IInv
<1>1. Init => IInv
  <2>1. Init => TypeOK
    BY InitTyped
  <2>2. Init => LedgerInv
    BY DEF Init, LedgerInv, Transactions
  <2>3. Init => \A q \in Commands : Told(q)
    BY DEF Init, Told, Open, Transactions
  <2> QED
    BY <2>1, <2>2, <2>3 DEF IInv
<1>2. IInv /\ [Next]_vars => IInv'
  <2> SUFFICES ASSUME IInv, [Next]_vars
               PROVE  IInv'
    OBVIOUS
  <2>1. CASE Next
    BY <2>1, NextKeeps
  <2>2. CASE UNCHANGED vars
    BY <2>2 DEF vars, IInv, TypeOK, LedgerInv, Told, Failed, Succeeded, Repeats, SameKey
  <2> QED
    BY <2>1, <2>2
<1> QED
  BY <1>1, <1>2, PTL DEF Spec

\* Of all requests with one idempotency key at most one takes effect, however
\* many are sent and in whatever order they run, wait, fail and die.
THEOREM AtMostOncePerKey == Spec => []OncePerKey
<1>1. IInv => OncePerKey
  BY DEF IInv, LedgerInv, OncePerKey, SameKey
<1> QED
  BY <1>1, IInvHolds, PTL

\* A success is reported only of what was saved, by this request or by the one
\* that it repeats.
THEOREM NoFalseSuccess == Spec => []SuccessIsSaved
<1>1. ASSUME IInv, NEW q \in Commands, reply[q].kind = "response"
      PROVE  /\ reply[q].of \in saved
             /\ reply[q].of # q =>
                  /\ q \notin saved
                  /\ SameKey(q, reply[q].of) /\ HashOf[q] = HashOf[reply[q].of]
  <2>1. phase[q] \in Phases /\ Told(q)
    BY <1>1 DEF IInv, TypeOK, Transactions
  <2>2. reply[q] # NoReply /\ reply[q] \notin {Rejected, Unsaved}
    BY <1>1 DEF NoReply, Rejected, Unsaved
  <2>3. Succeeded(q) \/ Repeats(q)
    BY <2>1, <2>2 DEF Told, Failed, Phases
  <2>4. \A r : Response(r).of = r
    BY DEF Response
  <2>5. CASE Succeeded(q)
    BY <2>4, <2>5 DEF Succeeded
  <2>6. CASE Repeats(q)
    BY <2>4, <2>6 DEF Repeats
  <2> QED
    BY <2>3, <2>5, <2>6
<1>2. IInv => SuccessIsSaved
  BY <1>1 DEF SuccessIsSaved
<1> QED
  BY <1>2, IInvHolds, PTL

\* An error is reported only of what was not saved, unless the database has
\* committed without being able to say so.
THEOREM NoFalseError == Spec => []ErrorMeansNotSaved
<1>1. ASSUME IInv, NEW q \in Commands \ ackLost, reply[q].kind \in {"rejected", "unsaved"}
      PROVE  q \notin saved
  <2>1. phase[q] \in Phases /\ Told(q)
    BY <1>1 DEF IInv, TypeOK, Transactions
  <2>2. reply[q] # NoReply
    BY <1>1 DEF NoReply
  <2>3. \A r : reply[q] # Response(r)
    BY <1>1 DEF Response
  <2>4. Failed(q) \/ q \notin saved
    BY <2>1, <2>2, <2>3 DEF Told, Succeeded, Repeats, Phases
  <2> QED
    BY <1>1, <2>4 DEF Failed
<1>2. IInv => ErrorMeansNotSaved
  BY <1>1 DEF ErrorMeansNotSaved
<1> QED
  BY <1>2, IInvHolds, PTL

=============================================================================
