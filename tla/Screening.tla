------------------------------ MODULE Screening ------------------------------
(***************************************************************************)
(* From the routing of a candidate to a job to the first assessment        *)
(* version (V1): the application, its hard screening run, its scoring run  *)
(* and the job profile and resume they read.  Commands, routing, profile   *)
(* publication, resume rebuild and the workflows' publishing steps each    *)
(* change the application in a transaction of their own.                   *)
(*                                                                         *)
(* The applications are of one job version and of different candidates.    *)
(* Queue, leases and checkpoints are the subject of WorkflowRuntime: here  *)
(* a run is active until one of its steps ends it, and its steps are done  *)
(* once each and in order.  Of the runs of one kind the latest and the     *)
(* latest failed one are kept.                                             *)
(***************************************************************************)
EXTENDS ApplicationStates, Naturals

CONSTANTS
    Applications,   \* applications that routing may create for the job
    EmptyProfiles,  \* job profiles without capabilities, from older versions
                    \* of the program
    FirstProfile,   \* the profile of the job version at the start, or 0
    MaxProfile,     \* bound: the last job profile that is published
    MaxResume,      \* bound: the last version of a resume
    SlowRouting,    \* applications whose routing may read the active profile
                    \* before a publication and write after it
    SlowRebuild     \* applications whose resume may be rebuilt by a transaction
                    \* that has read them before they were deleted

ASSUME ScreeningAssumption ==
    /\ FirstProfile \in Nat /\ MaxProfile \in Nat /\ MaxResume \in Nat \ {0}
    /\ FirstProfile <= MaxProfile
    /\ EmptyProfiles \subseteq {FirstProfile} \ {0}
    /\ SlowRouting \subseteq Applications /\ SlowRebuild \subseteq Applications

VARIABLES
    app,            \* application |-> its row, its runs and its latest V1
    activeProfile,  \* the job version's active profile; 0 is none
    policyEnabled,  \* the latest hard screening policy is enabled and has rules
    jobOpen         \* the job is not deleted

vars == <<app, activeProfile, policyEnabled, jobOpen>>

(***************************************************************************)
(* Runs                                                                    *)
(***************************************************************************)
\* A run: its state, the step it is at, the resume that a scoring run has
\* frozen, and whether it only repairs the V1 of a later stage.  A run that is
\* blocked because its job profile has no capabilities is unprofiled.
Blocked == {"blocked", "unprofiled"}
Runs == [state : {"none", "active", "completed", "failed", "cancelled"} \cup Blocked,
         step : {"freeze", "compute", "publish"},
         resume : 0 .. MaxResume, repair : BOOLEAN]

NoRun == [state |-> "none", step |-> "freeze", resume |-> 0, repair |-> FALSE]
FreshRun == [NoRun EXCEPT !.state = "active"]
Over(state) == [NoRun EXCEPT !.state = state]

Active(run) == run.state = "active"
Ended(run, state) == [run EXCEPT !.state = state]

\* queue.retry: a new run with the input of the failed one,
Again(run) == [FreshRun EXCEPT !.repair = run.repair]
\* and with its checkpoints before the publishing step.
PublishAgain(run) == [run EXCEPT !.state = "active"]

\* Variant: runs go on when their application is deleted.
CancelNothing(run) == run

CancelRun(run) == IF Active(run) THEN Over("cancelled") ELSE run

(***************************************************************************)
(* Applications                                                            *)
(***************************************************************************)
\* Recovery codes by what they let a person do: run the hard screening again
\* or decide instead of it; mend the job profile, the profile or the resume, or
\* run the scoring again; start the first assessment after a failed release.
HardCodes == {"hard_rerun", "hard_review"}
ScoringCodes == {"profile", "source", "rerun"}
RecoveryCodes == {"none", "release"} \cup HardCodes \cup ScoringCodes

Absent == [status |-> "none", deleted |-> FALSE, recovery |-> "none",
           profile |-> 0, resume |-> 1, demanded |-> 0,
           hard |-> NoRun, hardFailed |-> NoRun,
           scoring |-> NoRun, scoringFailed |-> NoRun, version |-> 0]

TypeOK ==
    /\ app \in [Applications ->
         [status : Statuses \cup {"none"}, deleted : BOOLEAN,
          recovery : RecoveryCodes, profile : 0 .. MaxProfile,
          resume : 1 .. MaxResume, demanded : 0 .. MaxResume,
          hard : Runs, hardFailed : Runs, scoring : Runs, scoringFailed : Runs,
          version : 0 .. MaxResume]]
    /\ activeProfile \in 0 .. MaxProfile
    /\ policyEnabled \in BOOLEAN
    /\ jobOpen \in BOOLEAN

\* An application of an older version that is scored with an empty profile.
Legacy == [Absent EXCEPT !.status = "screening_running", !.profile = FirstProfile,
                         !.scoring = FreshRun]

Init ==
    /\ app \in [Applications ->
                  {Absent} \cup {p \in {Legacy} : FirstProfile \in EmptyProfiles}]
    /\ activeProfile = FirstProfile
    /\ policyEnabled \in BOOLEAN
    /\ jobOpen = TRUE

Exists(p) == p.status # "none" /\ ~ p.deleted

\* evaluate_job_profile_record: a profile that V1 can be scored with.
Ready(profile) == profile # 0 /\ profile \notin EmptyProfiles

Move(p, action) == [p EXCEPT !.status = After(@, action)]
Cleared(p) == [p EXCEPT !.recovery = "none"]
Set(a, p) == /\ app' = [app EXCEPT ![a] = p]
             /\ UNCHANGED <<activeProfile, policyEnabled, jobOpen>>

(***************************************************************************)
(* Queueing.  These operators return the application that a transaction    *)
(* writes; the Can operators say when the code goes that far without an    *)
(* error, which would abort the transaction.                               *)
(***************************************************************************)
\* enqueue_in_transaction: the unique index on active runs admits one run, and
\* an application that failed needs a profile to be scored with.
CanQueueScoring(p) ==
    /\ p.status \in {"submitted", "screening_failed"}
    /\ ~ Active(p.scoring)
    /\ p.status = "screening_failed" => Ready(p.profile) \/ Ready(activeProfile)

\* _rebind_repaired_job_profile
Rebound(p) ==
    IF p.status = "screening_failed" /\ ~ Ready(p.profile)
    THEN [p EXCEPT !.profile = activeProfile] ELSE p

\* Only publication has failed and the artifacts before it can still be read.
MayPublishAgain(failed, readable) ==
    failed.state = "failed" /\ failed.step = "publish" /\ readable

\* Variant: the status moves and no run is created.
QueueScoringWithoutRun(p, readable) ==
    Cleared(Move(Rebound(p), IF p.status = "screening_failed" THEN "retry_scoring" ELSE "run_scoring"))

\* enqueue_in_transaction; readable says whether the artifacts of the failed
\* run can still be read.
QueueScoring(p, readable) ==
    LET retry == p.status = "screening_failed"
        moved == Cleared(Move(Rebound(p), IF retry THEN "retry_scoring" ELSE "run_scoring"))
    IN [moved EXCEPT !.scoring =
          IF retry /\ MayPublishAgain(p.scoringFailed, readable)
          THEN PublishAgain(p.scoringFailed)
          ELSE FreshRun]

\* enqueue_for_application: an active run is used again.
CanQueueHard(p) == Active(p.hard) \/ p.status = "hard_screening_pending"
QueueHard(p) ==
    IF Active(p.hard) THEN p ELSE [Cleared(p) EXCEPT !.hard = FreshRun]

\* enqueue_initial_assessment: hard screening if the job has a policy, scoring
\* otherwise, and scoring for an application that is past hard screening.
SkipHard(p) ==
    IF p.status = "hard_screening_pending" THEN Move(p, "skip_hard_screening") ELSE p
HardFirst(p) == policyEnabled /\ p.status # "submitted"

CanAssess(p) == IF HardFirst(p) THEN CanQueueHard(p) ELSE CanQueueScoring(SkipHard(p))
Assess(p, readable) ==
    IF HardFirst(p) THEN QueueHard(p) ELSE QueueScoring(SkipHard(p), readable)

\* _bind_profile_and_enqueue
Bind(p, profile) == Move([p EXCEPT !.profile = profile], "job_profile_ready")
CanRelease(p, profile) == CanAssess(Bind(p, profile))
Release(p, profile, readable) == Cleared(Assess(Bind(p, profile), readable))

(***************************************************************************)
(* Routing and job profiles                                                *)
(***************************************************************************)
\* The active profile that a routing transaction reads; one that a publication
\* overtakes has read the profile before it.
Seen(a) == {activeProfile} \cup
           {q \in {activeProfile - 1} : a \in SlowRouting /\ activeProfile > FirstProfile}

\* create_application_from_routing: the application is bound to the profile
\* frozen for the routing or, if V1 cannot be scored with it, to the active one;
\* without either it waits.
Route(a) ==
    /\ jobOpen /\ app[a].status = "none"
    /\ \E seen \in Seen(a) : \E frozen \in 0 .. seen :
         LET profile == IF Ready(frozen) THEN frozen ELSE seen
             p == [app[a] EXCEPT !.status = "hard_screening_pending", !.profile = profile]
         IN IF Ready(profile) THEN CanAssess(p) /\ Set(a, Assess(p, TRUE))
            ELSE Set(a, [app[a] EXCEPT !.status = "waiting_job_profile"])

\* The applications that a new profile releases: those that wait for it and
\* those whose scoring failed for want of a profile with capabilities.
HeldByProfile(p) ==
    /\ Exists(p)
    /\ \/ p.status = "waiting_job_profile"
       \/ /\ p.status = "screening_failed"
          /\ p.recovery = "profile" \/ p.scoring.state = "unprofiled"

\* release_applications_waiting_for_job_profile for one application, in a
\* savepoint: either it is released or it keeps its status and gets a code.
ReleaseOutcomes(p, profile) ==
    LET bound == [p EXCEPT !.profile = profile]
        released == IF p.status = "waiting_job_profile"
                    THEN {Release(p, profile, r) : r \in {r \in BOOLEAN : CanRelease(p, profile)}}
                    ELSE {QueueScoring(bound, r) : r \in {r \in BOOLEAN : CanQueueScoring(bound)}}
    IN IF HeldByProfile(p) THEN {[p EXCEPT !.recovery = "release"]} \cup released ELSE {p}

\* mark_ready: a profile that can be scored with becomes the active one and
\* the applications that were held up are released, one by one.
PublishProfile ==
    /\ jobOpen /\ activeProfile < MaxProfile
    /\ activeProfile' = activeProfile + 1
    /\ LET outcomes == [a \in Applications |-> ReleaseOutcomes(app[a], activeProfile + 1)]
       IN app' \in {next \in [Applications -> UNION {outcomes[a] : a \in Applications}] :
                      \A a \in Applications : next[a] \in outcomes[a]}
    /\ UNCHANGED <<policyEnabled, jobOpen>>

\* save_policy: a person enables or disables the hard screening of the job.
SavePolicy ==
    /\ jobOpen
    /\ policyEnabled' = ~ policyEnabled
    /\ UNCHANGED <<app, activeProfile, jobOpen>>

(***************************************************************************)
(* The hard screening workflow                                             *)
(***************************************************************************)
\* freeze_hard_screen_sources: the input is frozen and the application marked
\* as running.
HardFreezes(a) ==
    LET p == app[a]
        q == IF p.status = "hard_screening_running" THEN p
             ELSE Cleared(Move(p, "run_hard_screening"))
    IN /\ Active(p.hard) /\ p.hard.step = "freeze"
       /\ p.status \in {"hard_screening_pending", "hard_screening_running"}
       /\ Set(a, [q EXCEPT !.hard.step = "compute"])

\* evaluate_hard_screening
HardEvaluates(a) ==
    /\ Active(app[a].hard) /\ app[a].hard.step = "compute"
    /\ Set(a, [app[a] EXCEPT !.hard.step = "publish"])

\* complete_workflow: result, status and, if it passed, the scoring run are
\* published together.
HardPublishes(a) ==
    LET p == app[a]
        done == [p EXCEPT !.hard = Over("completed")]
        passed == Cleared(Move(done, "complete_hard_screening_passed"))
    IN /\ Active(p.hard) /\ p.hard.step = "publish"
       /\ p.status = "hard_screening_running"
       /\ \/ CanQueueScoring(passed) /\ Set(a, QueueScoring(passed, TRUE))
          \/ Set(a, Cleared(Move(done, "complete_hard_screening_failed")))
          \/ \E code \in HardCodes :
               Set(a, [Move(done, "complete_hard_screening_review") EXCEPT !.recovery = code])

\* A step fails for good: the run ends and the application, if it is still in
\* hard screening, goes to a person.  record_processing_failure looks at the name
\* of the step and at the type of the error, and each of the codes that it derives
\* lets the hard screening be run again.
HardFails(a) ==
    LET p == app[a]
        run == Ended(p.hard, "failed")
        q == [p EXCEPT !.hard = run, !.hardFailed = run]
    IN /\ Active(p.hard)
       /\ IF p.status \in {"hard_screening_pending", "hard_screening_running"}
          THEN Set(a, [Move(q, "fail_hard_screening") EXCEPT !.recovery = "hard_rerun"])
          ELSE Set(a, q)

(***************************************************************************)
(* The scoring workflow                                                    *)
(***************************************************************************)
\* The statuses in which sources may be frozen.
Scorable(p) ==
    /\ ~ p.deleted
    /\ \/ p.status = "screening_running"
       \/ p.scoring.repair /\ p.status \in {"hr_second_review", "final_review"}

\* freeze_screening_sources
ScoringFreezes(a) ==
    LET p == app[a]
    IN /\ Active(p.scoring) /\ p.scoring.step = "freeze"
       /\ Scorable(p) /\ Ready(p.profile)
       /\ Set(a, [p EXCEPT !.scoring.step = "compute", !.scoring.resume = p.resume])

\* The scoring steps up to the presentation.
ScoringComputes(a) ==
    /\ Active(app[a].scoring) /\ app[a].scoring.step = "compute"
    /\ Set(a, [app[a] EXCEPT !.scoring.step = "publish"])

\* publish_screening: a V1 from the frozen sources; a repair leaves status and
\* recovery code as they are.
ScoringPublishes(a) ==
    LET p == app[a]
        done == [p EXCEPT !.scoring = Over("completed"),
                          !.version = p.scoring.resume]
    IN /\ Active(p.scoring) /\ p.scoring.step = "publish"
       /\ p.scoring.repair \/ p.status = "screening_running"
       /\ Set(a, IF p.scoring.repair THEN done ELSE Cleared(Move(done, "complete_scoring")))

\* Variant: record_screening_failure writes no recovery code.
NoScoringCode(step) == {"none"}

\* _screening_recovery_code of a failure: a source that does not fit says which
\* one it is, any other error has no code of its own.
ScoringCode(step) == IF step = "freeze" THEN ScoringCodes ELSE {"rerun"}

\* Variant: the application is not told.
GiveUpSilently(a, p, codes) == Set(a, p)

\* record_screening_failure, if the application is still being scored
GiveUp(a, p, codes) ==
    IF p.status = "screening_running"
    THEN \E code \in codes : Set(a, [Move(p, "fail_scoring") EXCEPT !.recovery = code])
    ELSE Set(a, p)

\* A step fails for good.
ScoringFails(a) ==
    LET run == Ended(app[a].scoring, "failed")
    IN /\ Active(app[a].scoring)
       /\ GiveUp(a, [app[a] EXCEPT !.scoring = run, !.scoringFailed = run],
                 ScoringCode(app[a].scoring.step))

\* A source is missing: the profile of the resume, or a job profile that V1 can
\* be scored with.
ScoringIsBlocked(a) ==
    LET p == app[a]
        state == IF p.profile = 0 THEN "blocked" ELSE "unprofiled"
    IN /\ Active(p.scoring) /\ p.scoring.step = "freeze" /\ Scorable(p)
       /\ \/ GiveUp(a, [p EXCEPT !.scoring = Ended(@, "blocked")], {"source"})
          \/ /\ ~ Ready(p.profile)
             /\ GiveUp(a, [p EXCEPT !.scoring = Ended(@, state)], {"profile"})

(***************************************************************************)
(* Commands                                                                *)
(***************************************************************************)
\* accept_scoring_request: a person asks for the scoring.  A resume of an older
\* structure is first parsed again, which will lead to RebuildResume.
RunScoring(a) ==
    /\ Exists(app[a])
    /\ \/ /\ CanQueueScoring(app[a])
          /\ \E readable \in BOOLEAN : Set(a, QueueScoring(app[a], readable))
       \/ /\ app[a].status = "screening_failed" /\ app[a].resume = 1
          /\ Ready(app[a].profile) \/ Ready(activeProfile)
          /\ Set(a, Rebound(app[a]))

\* Variant: an application is started again only after a release that failed.
OnlyReleased(p) == p.recovery = "release"

\* retry_initial_assessment_for_application: a person starts the first
\* assessment of an application that was left without one, with the active
\* profile.
Restartable(p) ==
    p.status \in {"waiting_job_profile", "hard_screening_pending", "screening_failed"}

CanRestart(p) ==
    LET bound == [p EXCEPT !.profile = activeProfile]
    IN /\ Exists(p) /\ Restartable(p) /\ Ready(activeProfile)
       /\ p.status = "waiting_job_profile" => CanRelease(p, activeProfile)
       /\ p.status = "hard_screening_pending" => CanAssess(bound)
       /\ p.status = "screening_failed" => CanQueueScoring(bound)

Restarted(p, readable) ==
    LET bound == [p EXCEPT !.profile = activeProfile]
    IN CASE p.status = "waiting_job_profile" -> Release(p, activeProfile, readable)
         [] p.status = "hard_screening_pending" -> Cleared(Assess(bound, readable))
         [] OTHER -> QueueScoring(bound, readable)

RetryInitial(a) ==
    CanRestart(app[a]) /\ \E r \in BOOLEAN : Set(a, Restarted(app[a], r))

\* retry_for_application: after a failure to publish the artifacts of the
\* failed run are published again, otherwise the hard screening is run again.
RetryHard(a) ==
    LET p == app[a]
        q == Move(p, "retry_hard_screening")
    IN /\ Exists(p) /\ p.status = "hard_screening_review"
       /\ p.recovery = "hard_rerun"
       /\ IF MayPublishAgain(p.hardFailed, TRUE)
          THEN /\ ~ Active(p.hard)
               /\ Set(a, [Cleared(q) EXCEPT !.hard = PublishAgain(p.hardFailed)])
          ELSE CanQueueHard(q) /\ Set(a, QueueHard(q))

\* review: a person decides instead of the hard screening.
ReviewHard(a) ==
    LET p == app[a]
        passed == Cleared(Move(p, "review_hard_screening_pass"))
    IN /\ Exists(p) /\ p.status = "hard_screening_review"
       /\ \/ CanQueueScoring(passed) /\ Set(a, QueueScoring(passed, TRUE))
          \/ Set(a, Cleared(Move(p, "review_hard_screening_reject")))

\* recover_job_profile: the application takes on the active profile, or its
\* own is compiled anew and its publication will start the scoring.
RecoverProfile(a) ==
    LET p == app[a]
        bound == [p EXCEPT !.profile = activeProfile]
    IN /\ Exists(p) /\ p.status = "screening_failed"
       /\ p.recovery \in {"profile", "source"}
       /\ \/ /\ Ready(activeProfile) /\ CanQueueScoring(bound)
             /\ \E r \in BOOLEAN : Set(a, QueueScoring(bound, r))
          \/ Set(a, [p EXCEPT !.profile = 0, !.recovery = "profile"])

\* accept_screening_rebuild: V1 is repaired for a later stage.
RebuildScreening(a) ==
    LET p == app[a]
    IN /\ Exists(p) /\ p.status \in {"hr_second_review", "final_review"}
       /\ ~ Active(p.scoring)
       /\ Set(a, [p EXCEPT !.scoring = [FreshRun EXCEPT !.repair = TRUE]])

\* retry_workflow for a failed run: the administrator moves the application
\* back and runs the workflow with the input of the failed run.
AdminRetryHard(a) ==
    LET p == app[a]
    IN /\ p.hardFailed.state = "failed" /\ ~ Active(p.hard)
       /\ Allowed(p.status, "retry_hard_screening")
       /\ Set(a, [Move(p, "retry_hard_screening") EXCEPT !.hard = Again(p.hardFailed)])

AdminRetryScoring(a) ==
    LET p == app[a]
    IN /\ p.scoringFailed.state = "failed" /\ ~ Active(p.scoring)
       /\ Set(a, [(IF p.status = "screening_failed" THEN Move(p, "retry_scoring") ELSE p)
                    EXCEPT !.scoring = Again(p.scoringFailed)])

\* _resume_blocked_workflow: a blocked run goes on with the step it is at.
AdminResume(a) ==
    LET p == app[a]
    IN p.scoring.state \in Blocked /\ Set(a, [p EXCEPT !.scoring.state = "active"])

(***************************************************************************)
(* Resumes, deletion, and the later stages                                 *)
(***************************************************************************)
\* apply_candidate_resume_rebuild: the application takes on the new version of
\* its candidate's resume, and if it is to be scored it is scored with it.
RebuildResume(a) ==
    LET p == app[a]
        q == [p EXCEPT !.resume = @ + 1]
    IN /\ p.status # "none" /\ (p.deleted => a \in SlowRebuild)
       /\ p.resume < MaxResume
       /\ IF q.status \in {"submitted", "screening_failed"}
          THEN /\ CanQueueScoring(q)
               /\ \E readable \in BOOLEAN :
                    Set(a, [QueueScoring(q, readable) EXCEPT !.demanded = q.resume])
          ELSE Set(a, q)

\* soft_delete, and archive for the candidate's applications
Delete(a) ==
    /\ Exists(app[a])
    /\ Set(a, [app[a] EXCEPT !.deleted = TRUE, !.hard = CancelRun(@),
                             !.scoring = CancelRun(@)])

\* soft_delete_jobs: refused once an application is in its interviews.
InInterviews == {m[1] : m \in InterviewMoves} \ {"department_review"}

DeleteJob ==
    /\ jobOpen
    /\ \A a \in Applications : Exists(app[a]) => app[a].status \notin InInterviews
    /\ jobOpen' = FALSE
    /\ app' = [a \in Applications |->
                 IF Exists(app[a]) /\ Allowed(app[a].status, "cancel_recruitment")
                 THEN [Move(app[a], "cancel_recruitment")
                         EXCEPT !.hard = CancelRun(@), !.scoring = CancelRun(@)]
                 ELSE app[a]]
    /\ UNCHANGED <<activeProfile, policyEnabled>>

\* Decisions and interviews; an application that is put on hold is left out,
\* no move leads on from there.
Interviewed(a) ==
    /\ Exists(app[a])
    /\ \E m \in InterviewMoves :
         /\ m[1] = app[a].status /\ m[3] \notin {m[1], "on_hold", "manual_review"}
         /\ Set(a, [app[a] EXCEPT !.status = m[3]])

(***************************************************************************)
(* The specification                                                       *)
(***************************************************************************)
HardStep(a) == HardFreezes(a) \/ HardEvaluates(a) \/ HardPublishes(a) \/ HardFails(a)

ScoringStep(a) ==
    ScoringFreezes(a) \/ ScoringComputes(a) \/ ScoringPublishes(a)
    \/ ScoringFails(a) \/ ScoringIsBlocked(a)

Command(a) ==
    \/ RunScoring(a) \/ RetryInitial(a) \/ RetryHard(a) \/ ReviewHard(a)
    \/ RecoverProfile(a) \/ RebuildScreening(a) \/ AdminRetryHard(a)
    \/ AdminRetryScoring(a) \/ AdminResume(a) \/ RebuildResume(a) \/ Delete(a) \/ Interviewed(a)

Next ==
    \/ PublishProfile \/ SavePolicy \/ DeleteJob
    \/ \E a \in Applications : Route(a) \/ HardStep(a) \/ ScoringStep(a) \/ Command(a)

Spec == Init /\ [][Next]_vars

\* The workers go on with an active run; nobody has to issue a command.
Fairness == \A a \in Applications : WF_vars(HardStep(a)) /\ WF_vars(ScoringStep(a))

FairSpec == Spec /\ Fairness

(***************************************************************************)
(* Properties                                                              *)
(***************************************************************************)
\* The status of an application that still takes part in the process matches
\* its runs: what waits for a worker has an active run, what is in hard
\* screening is not scored at the same time, and no application rests in a
\* status that only a transaction passes through.
StageHasRun ==
    \A a \in Applications : Exists(app[a]) =>
        /\ app[a].status \in {"hard_screening_pending", "hard_screening_running"}
             => Active(app[a].hard) /\ ~ Active(app[a].scoring)
        /\ app[a].status = "screening_running" => Active(app[a].scoring)
        /\ app[a].status # "submitted"

\* An application that hard screening or scoring has given up says why, and
\* with a code of that stage: the interface offers its actions by this code.
FailureIsExplained ==
    \A a \in Applications :
        /\ app[a].status = "hard_screening_review" => app[a].recovery \in HardCodes
        /\ app[a].status = "screening_failed" => app[a].recovery \in ScoringCodes \cup {"release"}

\* Whatever runs, retries and profile publications come together, no V1 is
\* published for an application that is deleted or cancelled, and for one that
\* is rejected only by a repair that was under way.
NothingPublishedWhenOver ==
    [][\A a \in Applications :
         \/ app[a].deleted
         \/ app[a].status = "closed_cancelled"
         \/ app[a].status = "closed_rejected" /\ ~ app[a].scoring.repair
         => app'[a].version = app[a].version]_vars

\* The list of applications offers a person to start the first assessment of an
\* application that waits beside a usable profile, because a publication did not
\* see it or failed to release it, and of one whose failed release has left its
\* code.  Whatever happened in between, the command accepts what is offered, if
\* no run of the application is at work.
StartOffered(p) ==
    /\ Exists(p)
    /\ \/ p.recovery = "release" /\ p.status \notin {"closed_cancelled", "closed_rejected"}
       \/ p.recovery = "none" /\ p.status = "waiting_job_profile" /\ Ready(activeProfile)

OfferedStartAccepted ==
    \A a \in Applications :
        StartOffered(app[a]) /\ ~ Active(app[a].hard) /\ ~ Active(app[a].scoring)
        => CanRestart(app[a])

\* A V1 is never older than the resume that it was last asked to be made from.
ScoresDemandedResume ==
    \A a \in Applications :
        app[a].status = "department_review" => app[a].version >= app[a].demanded

\* The screening of an application ends: as long as it is not deleted, hard
\* screening and scoring lead to a result or to a person, whatever failures,
\* blocks and retries come in between.
AtWork(p) ==
    ~ p.deleted /\ p.status \in {"hard_screening_pending", "hard_screening_running",
                                 "screening_running"}

ScreeningEnds ==
    \A a \in Applications : AtWork(app[a]) ~> ~ AtWork(app[a])
=============================================================================
