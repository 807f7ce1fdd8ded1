------------------------------ MODULE JobImport ------------------------------
(***************************************************************************)
(* From spreadsheets of job requirements to jobs: the import of a          *)
(* document, the drafts that a person checks and confirms, and the jobs    *)
(* (requisitions) that come of them or are overwritten by them.            *)
(*                                                                         *)
(* All rows are about one position: same department, same title.  Fields   *)
(* and departments that a draft lacks are filled in before it is           *)
(* confirmed.  What a confirmed draft does to the versions of the job is   *)
(* in JobProfiles.  Runs are as in Screening: active until one of their    *)
(* steps ends them; a failed or a blocked one may be taken up again by an  *)
(* administrator, much later.                                              *)
(***************************************************************************)
EXTENDS Naturals, FiniteSets

CONSTANTS
    Documents,  \* uploaded files
    Lines,      \* the rows of all documents, each of which becomes a draft
    DocumentOf, \* row |-> its document
    MaxJob,     \* bound: requisitions of the position
    MaxImports  \* bound: runs that people ask for again

ASSUME JobImportAssumption ==
    /\ DocumentOf \in [Lines -> Documents] /\ IsFiniteSet(Lines)
    /\ MaxJob \in Nat \ {0} /\ MaxImports \in Nat

Jobs == 1 .. MaxJob

VARIABLES
    document,    \* document |-> its import
    draft,       \* row |-> its draft
    job,         \* number |-> requisition
    confirming,  \* document |-> the drafts that are being confirmed
    imports      \* runs that people have asked for again

importVars == <<document, draft, job, confirming, imports>>

(***************************************************************************)
(* State                                                                   *)
(***************************************************************************)
NoImport == [active |-> FALSE, step |-> "extract", republish |-> FALSE, resumed |-> FALSE]

\* republish: a run was queued only to publish the drafts again (retryMode).
\* failed: what an administrator finds of failed runs, by republish; blocked: the
\* step at which a blocked one waits.  publish: the recovery code says that the
\* publication failed.
NoDocument == [status |-> "none", publish |-> FALSE, extracted |-> FALSE, run |-> NoImport,
               failed |-> {}, blocked |-> "none"]

\* A draft that has been skipped or deleted is none any more.
NoDraft == [status |-> "none", choice |-> "none"]
NoJob == [status |-> "none", deleted |-> FALSE, staffed |-> FALSE]

\* job: the requisition to be overwritten, 0 for none; read: how it has been
\* read for that.
NotConfirming == [stage |-> "none", asked |-> {}, primary |-> {}, job |-> 0, read |-> NoJob]

Requisitions == [status : {"none", "setup_pending", "open", "closed"},
                 deleted : BOOLEAN, staffed : BOOLEAN]

ImportTypeOK ==
    /\ document \in [Documents ->
         [status : {"none", "queued", "processing", "review_required",
                    "partially_confirmed", "completed", "failed"},
          publish : BOOLEAN, extracted : BOOLEAN,
          run : [active : BOOLEAN, step : {"extract", "classify", "publish"},
                 republish : BOOLEAN, resumed : BOOLEAN],
          failed : SUBSET BOOLEAN, blocked : {"none", "extract", "classify"}]]
    /\ draft \in [Lines -> [status : {"none", "draft", "confirmed"},
                           choice : {"none", "create", "overwrite", "keep", "skip"}]]
    /\ job \in [Jobs -> Requisitions]
    /\ confirming \in [Documents ->
         [stage : {"none", "read", "looked"}, asked : SUBSET Lines, primary : SUBSET Lines,
          job : 0 .. MaxJob, read : Requisitions]]
    /\ imports \in 0 .. MaxImports

ImportInit ==
    /\ document = [d \in Documents |-> NoDocument]
    /\ draft = [r \in Lines |-> NoDraft]
    /\ job = [j \in Jobs |-> NoJob]
    /\ confirming = [d \in Documents |-> NotConfirming]
    /\ imports = 0

(***************************************************************************)
(* Helpers                                                                 *)
(***************************************************************************)
LinesOf(d) == {r \in Lines : DocumentOf[r] = d}
Pending(d, drafts) == {r \in LinesOf(d) : drafts[r].status = "draft"}
Confirmed(d, drafts) == {r \in LinesOf(d) : drafts[r].status = "confirmed"}

Existing == {j \in Jobs : job[j].status # "none" /\ ~ job[j].deleted}

\* _load_job_document locks the document until the command ends.
Locked(d) == confirming[d].stage # "none"

\* Only the import changes.
SetDocument(d, p) ==
    /\ document' = [document EXCEPT ![d] = p]
    /\ UNCHANGED <<draft, job, confirming, imports>>

\* A person asks for another run.
ImportAskedAgain(d, p) ==
    /\ imports < MaxImports /\ imports' = imports + 1
    /\ document' = [document EXCEPT ![d] = p]
    /\ UNCHANGED <<draft, job, confirming>>

Queued(p, republish) ==
    [p EXCEPT !.status = "queued", !.publish = FALSE,
              !.run = [NoImport EXCEPT !.active = TRUE, !.republish = republish]]

(***************************************************************************)
(* The import of a document                                                *)
(***************************************************************************)
\* upload_job_document: a file that is being worked on, or has drafts to be
\* confirmed, is used again; another upload of it makes a new document.
Upload(d) == document[d] = NoDocument /\ SetDocument(d, Queued(NoDocument, FALSE))

ImportAt(d, step) == document[d].run.active /\ document[d].run.step = step

\* extract_job_document; a run that was blocked is blocked again.
ImportExtracts(d) ==
    /\ ImportAt(d, "extract") /\ ~ document[d].run.resumed
    /\ SetDocument(d, [document[d] EXCEPT !.status = "processing", !.publish = FALSE,
                                          !.extracted = TRUE, !.run.step = "classify"])

\* classify_job_requirements
ImportClassifies(d) ==
    /\ ImportAt(d, "classify") /\ ~ document[d].run.resumed
    /\ SetDocument(d, [document[d] EXCEPT !.run.step = "publish"])

\* publish_job_drafts: drafts that are not confirmed are replaced.  The number
\* of a row is unique, so a confirmed draft makes the publication fail.
ImportPublishes(d) ==
    /\ ImportAt(d, "publish") /\ Confirmed(d, draft) = {} /\ ~ Locked(d)
    /\ draft' = [r \in Lines |-> IF r \in LinesOf(d) THEN [NoDraft EXCEPT !.status = "draft"]
                                ELSE draft[r]]
    /\ document' = [document EXCEPT ![d].status = "review_required", ![d].publish = FALSE,
                                    ![d].run = NoImport]
    /\ UNCHANGED <<job, confirming, imports>>

\* transition_job_document while the step is tried again later
ImportWaits(d) ==
    /\ document[d].run.active
    /\ SetDocument(d, [document[d] EXCEPT !.status = "queued", !.publish = FALSE])

\* Variant: the import is not told.
ImportStops(p, publish) == [p EXCEPT !.run = NoImport, !.failed = @ \cup {p.run.republish}]

\* transition_job_document
FailedImport(p, publish) ==
    [p EXCEPT !.status = "failed", !.publish = publish, !.run = NoImport,
              !.failed = @ \cup {p.run.republish}]
ImportFails(d) ==
    /\ document[d].run.active
    /\ \E publish \in BOOLEAN : SetDocument(d, FailedImport(document[d], publish))

\* handle_job_document_blocked
ImportIsBlocked(d) ==
    /\ document[d].run.active /\ document[d].run.step \in {"extract", "classify"}
    /\ document[d].run.step = "extract" => ~ document[d].run.republish
    /\ SetDocument(d, [document[d] EXCEPT !.status = "review_required", !.publish = FALSE,
                         !.run = NoImport, !.blocked = document[d].run.step])

\* retry: an active run is left alone.
CanRetryImport(d) ==
    /\ document[d].status \in {"failed", "review_required"} /\ ~ Locked(d)
    /\ document[d].status = "review_required" => Pending(d, draft) = {}
    /\ document[d].run.active \/ ~ document[d].publish \/ document[d].extracted
RetryImport(d) ==
    /\ CanRetryImport(d) /\ ~ document[d].run.active
    /\ ImportAskedAgain(d, Queued(document[d], document[d].publish))

\* submit_repair
RepairImport(d) ==
    /\ document[d].status \in {"failed", "review_required"} /\ ~ Locked(d)
    /\ ~ document[d].run.active
    /\ ImportAskedAgain(d, Queued(document[d], FALSE))

\* retry_workflow and _resume_blocked_workflow, whatever has become of the
\* import in the meantime
AdminRetriesImport(d) ==
    /\ ~ document[d].run.active
    /\ \E republish \in document[d].failed : ImportAskedAgain(d, Queued(document[d], republish))
AdminResumesImport(d) ==
    /\ ~ document[d].run.active /\ document[d].blocked # "none"
    /\ ImportAskedAgain(d, [document[d] EXCEPT !.blocked = "none",
           !.run = [NoImport EXCEPT !.active = TRUE, !.step = document[d].blocked,
                                    !.resumed = TRUE]])

(***************************************************************************)
(* Drafts                                                                  *)
(***************************************************************************)
\* _refresh_duplicate_state: choices that no longer fit are taken back.  isNew:
\* there is no requisition.
Refreshed(d, drafts, isNew) ==
    LET group == Pending(d, drafts)
        choices == IF Cardinality(group) > 1 THEN {"keep", "overwrite", "skip"}
                   ELSE {"overwrite", "skip"}
        choice(c) == IF Cardinality(group) = 1 /\ isNew THEN "create"
                     ELSE IF c \in choices THEN c ELSE "none"
    IN [r \in Lines |-> IF r \in group THEN [drafts[r] EXCEPT !.choice = choice(@)]
                       ELSE drafts[r]]

\* _validate_duplicate_resolutions: of several drafts one is published.
Resolved(d, drafts) ==
    LET group == Pending(d, drafts)
        chosen == IF Existing = {} THEN "keep" ELSE "overwrite"
        primary == {r \in group : drafts[r].choice = chosen}
    IN IF Cardinality(group) > 1
       THEN /\ Cardinality(primary) = 1
            /\ \A r \in group \ primary : drafts[r].choice = "skip"
       ELSE \A r \in group : drafts[r].choice # "none"

\* sync_drafts
Synced(d, drafts) ==
    IF Pending(d, drafts) = {} THEN [document[d] EXCEPT !.status = "completed", !.publish = FALSE]
    ELSE [document[d] EXCEPT !.status = IF Confirmed(d, drafts) = {} THEN "review_required"
                                        ELSE "partially_confirmed"]

InReview(d) == document[d].status \in {"review_required", "partially_confirmed"}

UpdateDraft(r, choice) ==
    LET d == DocumentOf[r]
    IN /\ InReview(d) /\ r \in Pending(d, draft) /\ ~ Locked(d)
       /\ draft' = Refreshed(d, [draft EXCEPT ![r].choice = choice], Existing = {})
       /\ UNCHANGED <<document, job, confirming, imports>>

DeleteDraft(r) ==
    LET d == DocumentOf[r]
        drafts == Refreshed(d, [draft EXCEPT ![r] = NoDraft], Existing = {})
    IN /\ InReview(d) /\ r \in Pending(d, draft) /\ ~ Locked(d)
       /\ draft' = drafts
       /\ document' = [document EXCEPT ![d] = Synced(d, drafts)]
       /\ UNCHANGED <<job, confirming, imports>>

\* Bound: there are numbers left for all requisitions that are being created.
RoomForJob ==
    Cardinality({j \in Jobs : job[j] = NoJob})
      > Cardinality({e \in Documents : Locked(e) /\ confirming[e].job = 0})

\* confirm_drafts, which no lock keeps from what other documents' confirmations
\* do: it looks up what there is,
ConfirmReads(d, asked) ==
    LET drafts == Refreshed(d, draft, Existing = {})
    IN /\ InReview(d) /\ ~ Locked(d) /\ (Existing = {} => RoomForJob)
       /\ asked # {} /\ asked \subseteq Pending(d, draft) /\ Resolved(d, drafts)
       /\ \E j \in Existing \cup {0} :
            /\ j = 0 <=> Existing = {}
            /\ confirming' = [confirming EXCEPT ![d] =
                 [NotConfirming EXCEPT !.stage = "read", !.asked = asked, !.job = j,
                    !.primary = {r \in asked : drafts[r].choice # "skip"}]]
       /\ UNCHANGED <<document, draft, job, imports>>

\* _get_or_create_position: who creates the position makes others wait.
PositionIsLocked(d) ==
    /\ \A j \in Jobs : job[j] = NoJob
    /\ \E e \in Documents \ {d} : confirming[e].stage = "looked"

Distributed == {j \in Existing : job[j].status \in {"open", "setup_pending"}}

\* looks again before it creates a requisition, with the position in hand, or
\* overwrites one, and is rolled back if it finds something else
\* (duplicate_resolution_required and duplicate_resolution_stale),
ConfirmLooks(d) ==
    LET c == confirming[d]
        refused == IF c.job = 0 THEN Distributed # {} ELSE job[c.job].deleted
    IN /\ c.stage = "read" /\ c.primary # {} /\ (c.job = 0 => ~ PositionIsLocked(d))
       /\ confirming' = [confirming EXCEPT ![d] =
            IF refused THEN NotConfirming
            ELSE [c EXCEPT !.stage = "looked", !.read = IF c.job = 0 THEN NoJob ELSE job[c.job]]]
       /\ UNCHANGED <<document, draft, job, imports>>

\* uq_jobs_one_open_per_position
OneOpen(jobs) == \A i, j \in Jobs : jobs[i].status = "open" /\ jobs[j].status = "open" => i = j

\* _update_requisition of a requisition that has been read: owners that are
\* missing are looked for, and a job that gets them opens.
Overwritten(j, read, found) ==
    [job EXCEPT ![j].staffed = @ \/ (~ read.staffed /\ found),
                ![j].status = IF ~ read.staffed /\ found THEN "open" ELSE @]

RequisitionCreated(found) ==
    LET free == {j \in Jobs : job[j] = NoJob /\ \A k \in 1 .. j - 1 : job[k] # NoJob}
    IN [j \in Jobs |-> IF j \in free
                       THEN [NoJob EXCEPT !.status = IF found THEN "open" ELSE "setup_pending",
                                          !.staffed = found]
                       ELSE job[j]]

\* _create_or_reuse_job: the insertion of a second open job fails, and one of
\* those that can be found by then is overwritten instead.
Outcomes(c, found) ==
    IF c.primary = {} THEN {job}
    ELSE IF c.job # 0 THEN {Overwritten(c.job, c.read, found)}
    ELSE IF OneOpen(RequisitionCreated(found)) \/ Distributed = {}
         THEN {RequisitionCreated(found)}
    ELSE {Overwritten(j, job[j], found) : j \in Distributed}

\* and commits, unless the index fails it.
ConfirmWrites(d) ==
    LET c == confirming[d]
        refreshed == Refreshed(d, draft, c.job = 0)
        drafts == [r \in Lines |->
                     IF r \notin c.asked THEN refreshed[r]
                     ELSE IF r \in c.primary THEN [NoDraft EXCEPT !.status = "confirmed"]
                     ELSE NoDraft]
    IN /\ c.stage = "looked" \/ (c.stage = "read" /\ c.primary = {})
       /\ confirming' = [confirming EXCEPT ![d] = NotConfirming]
       /\ \E found \in BOOLEAN : \E jobs \in Outcomes(c, found) :
            IF OneOpen(jobs)
            THEN /\ job' = jobs /\ draft' = drafts
                 /\ document' = [document EXCEPT ![d] = Synced(d, drafts)]
            ELSE UNCHANGED <<document, draft, job>>
       /\ UNCHANGED imports

(***************************************************************************)
(* Jobs                                                                    *)
(***************************************************************************)
\* The transitions that an administrator may ask for.
JobTransitions == {<<"setup_pending", "open">>, <<"open", "setup_pending">>,
                   <<"open", "closed">>, <<"closed", "open">>}

\* update_job: an open job without its owners goes back to its setup.
AdminUpdatesJob(j) ==
    /\ j \in Existing
    /\ \E staffed \in BOOLEAN, status \in {"setup_pending", "open", "closed"} :
         /\ \/ status = job[j].status
            \/ <<job[j].status, status>> \in JobTransitions /\ (status = "open" => staffed)
         /\ job' = [job EXCEPT ![j].staffed = staffed,
                       ![j].status = IF status = "open" /\ ~ staffed
                                     THEN "setup_pending" ELSE status]
         /\ OneOpen(job')
    /\ UNCHANGED <<document, draft, confirming, imports>>

\* soft_delete, if no application has reached its interviews
DeleteRequisition(j) ==
    /\ j \in Existing
    /\ job' = [job EXCEPT ![j].deleted = TRUE,
                          ![j].status = IF @ = "open" THEN "closed" ELSE @]
    /\ UNCHANGED <<document, draft, confirming, imports>>

(***************************************************************************)
(* The specification                                                       *)
(***************************************************************************)
ImportStep(d) ==
    \/ ImportExtracts(d) \/ ImportClassifies(d) \/ ImportPublishes(d)
    \/ ImportFails(d) \/ ImportIsBlocked(d)

ImportNext ==
    \/ \E d \in Documents :
         \/ Upload(d) \/ ImportStep(d) \/ ImportWaits(d) \/ RetryImport(d) \/ RepairImport(d)
         \/ AdminRetriesImport(d) \/ AdminResumesImport(d)
         \/ \E asked \in SUBSET LinesOf(d) : ConfirmReads(d, asked)
         \/ ConfirmLooks(d) \/ ConfirmWrites(d)
    \/ \E r \in Lines :
         \/ DeleteDraft(r)
         \/ \E choice \in {"overwrite", "keep", "skip"} : UpdateDraft(r, choice)
    \/ \E j \in Jobs : AdminUpdatesJob(j) \/ DeleteRequisition(j)

\* Workers take up every active run; a step is attempted a bounded number of
\* times, so it does not wait for ever; a transaction that has begun ends.
ImportFairness ==
    \A d \in Documents :
        WF_importVars(ImportStep(d)) /\ WF_importVars(ConfirmLooks(d) \/ ConfirmWrites(d))

ImportSpec == ImportInit /\ [][ImportNext]_importVars /\ ImportFairness

(***************************************************************************)
(* Properties                                                              *)
(***************************************************************************)
\* No confirmation creates a requisition of the position next to one that is open
\* or being set up: "setup_pending 不能按旧 closed 语义遗漏，否则会绕过重复检查并创建
\* 多个同部门同名的待配置岗位" (_create_or_reuse_job).
NoSecondRequisition ==
    [][\A j \in Jobs : job[j] = NoJob /\ job'[j] # NoJob => Distributed = {}]_importVars

\* An import that shows as queued or being processed is worked on until its
\* drafts wait for a person or it fails, also when an administrator takes up old
\* runs of it and drafts are confirmed meanwhile.
ImportSettles ==
    \A d \in Documents :
        (document[d].status \in {"queued", "processing"})
          ~> (document[d].status \notin {"queued", "processing"})
=============================================================================
