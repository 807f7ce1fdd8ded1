------------------------------ MODULE Interviews ------------------------------
(***************************************************************************)
(* From the first review of an application to the offer: the plan of the   *)
(* first interview, the two interview rounds and the assessment versions   *)
(* V2 and V3 that a workflow makes of the feedback of a round and of the   *)
(* version before it, V1 or V2.  People, an administrator and the workers  *)
(* act on the application at any time and in any order.                    *)
(*                                                                         *)
(* One application is modelled, applications share nothing here.  A run is *)
(* active until one of its steps ends it (queue, leases and checkpoints    *)
(* are the subject of WorkflowRuntime); of the planning runs and of the    *)
(* runs of a round the latest is kept, and of those of a round also the    *)
(* latest failed one that another has replaced.                            *)
(***************************************************************************)
EXTENDS ApplicationStates, Naturals, Sequences, FiniteSets

CONSTANTS
    MaxVersion,   \* bound: the last V1 that a repair publishes
    MaxRequests,  \* bound: how often people ask to score a round again
    MaxInterventions   \* bound: how often an administrator runs something again

ASSUME InterviewsAssumption ==
    /\ MaxVersion \in Nat \ {0}
    /\ MaxRequests \in Nat /\ MaxInterventions \in Nat

VARIABLES
    status,       \* of the application
    recovery,     \* its recovery code and what the code is about
    tasks,        \* the tasks that are to be done for it
    plan,         \* the latest plan of the first interview
    planning,     \* the latest planning run
    screening,    \* the latest V1, whether a run is repairing it, the V1 that a run
                  \* for V2 has found unusable, and whether the recovery code that
                  \* says so has given way to what happened in the second round
    round,        \* round |-> interview, runs and latest version
    asked         \* the number of requests and of interventions so far

vars == <<status, recovery, tasks, plan, planning, screening, round, asked>>

Rounds == {"first", "second"}

(***************************************************************************)
(* Runs, versions and recovery codes                                       *)
(***************************************************************************)
States == {"none", "active", "completed", "failed", "blocked"}
Steps == <<"freeze", "compute", "publish">>

\* A run of a round: the version before and the feedback it reads, the request
\* it answers, and whether an administrator has started it or one that it goes
\* back to.
NoRun == [state |-> "none", step |-> 1, source |-> 0, feedback |-> 0,
          request |-> 0, admin |-> FALSE]

Active(run) == run.state = "active"
Stopped(run) == run.state \in {"failed", "blocked"}

NoRecovery == [of |-> "none", kind |-> "none", since |-> 0, renew |-> FALSE]

\* clear_application_recovery_for_prefix
ClearedFor(r) == IF recovery.of = r THEN NoRecovery ELSE recovery

\* It asks for another V1.  An application has a single recovery code.
Renews == recovery.of = "first" /\ recovery.renew

NewRound == [interview |-> "none", run |-> NoRun, replaced |-> NoRun,
             feedback |-> 0,
             version |-> 0, basis |-> 0, published |-> {}]

TypeOK ==
    /\ status \in Statuses
    /\ recovery \in [of : {"none", "planning"} \cup Rounds,
                     kind : {"none", "assessment", "retry", "publish", "source"},
                     since : Nat, renew : BOOLEAN]
    /\ tasks \subseteq {"department_review", "confirm_first_guide", "review_for_second_interview",
                        "make_final_decision"} \cup Rounds
    /\ plan \in {"none", "draft", "confirmed"}
    /\ planning \in [state : States \ {"blocked"}, publishing : BOOLEAN, stoppedOnce : BOOLEAN]
    /\ screening \in [version : 1 .. MaxVersion, repairing : BOOLEAN,
                     condemned : 0 .. MaxVersion, forgotten : BOOLEAN]
    /\ asked \in [requests : 0 .. MaxRequests, interventions : 0 .. MaxInterventions]
    /\ \A r \in Rounds :
         /\ round[r].interview \in {"none", "created", "recording", "submitted", "scoring",
                                    "completed", "failed"}
         /\ {round[r].run, round[r].replaced} \subseteq
              [state : States, step : 1 .. Len(Steps), source : Nat,
               feedback : 0 .. MaxRequests + 1, request : 0 .. MaxRequests, admin : BOOLEAN]
         /\ round[r].feedback \in 0 .. MaxRequests + 1
         /\ round[r].version = Cardinality(round[r].published)

\* The first review, with its V1.
Init ==
    /\ status = "department_review"
    /\ recovery = NoRecovery
    /\ tasks = {"department_review"}
    /\ plan = "none"
    /\ planning = [state |-> "none", publishing |-> FALSE, stoppedOnce |-> FALSE]
    /\ screening = [version |-> 1, repairing |-> FALSE, condemned |-> 0,
                     forgotten |-> FALSE]
    /\ round = [r \in Rounds |-> NewRound]
    /\ asked = [requests |-> 0, interventions |-> 0]

\* is_application_closed
Closed == status \in {"offer_process", "closed_rejected", "closed_cancelled"}

Move(action) == Allowed(status, action) /\ status' = After(status, action)

NextRequest ==
    asked.requests < MaxRequests /\ asked' = [asked EXCEPT !.requests = @ + 1]
NextIntervention ==
    asked.interventions < MaxInterventions /\ asked' = [asked EXCEPT !.interventions = @ + 1]

\* The latest version of the stage before a round, and whether it is being made.
Latest(r) == IF r = "first" THEN screening.version ELSE round["first"].version
BeingMade(r) == IF r = "first" THEN screening.repairing ELSE Active(round["first"].run)

(***************************************************************************)
(* The plan of the first interview                                         *)
(***************************************************************************)
\* approve_first_interview with its planning run, in one transaction.
ApproveFirst ==
    /\ status = "department_review" /\ Move("approve_first_interview")
    /\ tasks' = (tasks \ {"department_review"}) \cup {"confirm_first_guide"}
    /\ round' = [round EXCEPT !["first"].interview = "created"]
    /\ planning' = [planning EXCEPT !.state = "active"]
    /\ recovery' = NoRecovery
    /\ UNCHANGED <<plan, screening, asked>>

\* run_first_interview_planning: a run that failed to publish publishes again,
\* and a run that is under way is left alone.
RequestPlanning ==
    /\ status = "first_interview_planning" /\ ~ Active(planning)
    /\ planning' = [planning EXCEPT !.state = "active",
                                    !.publishing = (recovery.kind = "publish")]
    /\ recovery' = NoRecovery
    /\ UNCHANGED <<status, tasks, plan, screening, round, asked>>

\* The steps up to the presentation.
PlanIsDrafted ==
    /\ Active(planning) /\ ~ planning.publishing
    /\ planning' = [planning EXCEPT !.publishing = TRUE]
    /\ UNCHANGED <<status, recovery, tasks, plan, screening, round, asked>>

\* Variant: the plan is published whatever the status of the application.
PlanIsPublishedAnyway ==
    /\ Active(planning) /\ planning.publishing
    /\ planning' = [planning EXCEPT !.state = "completed", !.publishing = FALSE]
    /\ plan' = "draft"
    /\ recovery' = NoRecovery
    /\ UNCHANGED <<status, tasks, screening, round, asked>>

\* publish: a new draft, which supersedes the draft before it.
PlanIsPublished ==
    /\ Active(planning) /\ planning.publishing
    /\ status = "first_interview_planning"
    /\ planning' = [planning EXCEPT !.state = "completed", !.publishing = FALSE]
    /\ plan' = "draft"
    /\ recovery' = NoRecovery
    /\ UNCHANGED <<status, tasks, screening, round, asked>>

\* transition_first_planning: the run fails or is blocked, which makes no
\* difference to what can be done; the code tells what stopped it.
PlanStops ==
    /\ Active(planning)
    /\ planning' = [state |-> "failed", publishing |-> FALSE, stoppedOnce |-> TRUE]
    /\ IF status # "first_interview_planning" THEN UNCHANGED recovery
       ELSE \E kind \in IF planning.publishing THEN {"publish"} ELSE {"retry", "assessment"} :
              recovery' = [NoRecovery EXCEPT !.of = "planning", !.kind = kind]
    /\ UNCHANGED <<status, tasks, plan, screening, round, asked>>

\* What confirming a plan and going on without one have in common.
StartsFirst ==
    /\ plan' = "confirmed"
    /\ tasks' = (tasks \ {"confirm_first_guide"}) \cup {"first"}
    /\ round' = [round EXCEPT !["first"].interview = "recording"]
    /\ recovery' = NoRecovery
    /\ UNCHANGED <<planning, screening, asked>>

\* confirm: a planning run that is under way goes on.
ConfirmPlan == plan = "draft" /\ Move("confirm_first_guide") /\ StartsFirst

\* continue_manually: some planning run has failed and the recovery code, if
\* there is one, offers this way out.
ContinueManually ==
    /\ planning.stoppedOnce
    /\ recovery.of \in {"none", "planning"} /\ recovery.kind # "assessment"
    /\ Move("continue_first_interview_manually")
    /\ StartsFirst

\* retry_workflow and _resume_blocked_workflow of a planning run; it starts
\* before the publication in both cases.
AdminRetriesPlanning ==
    /\ planning.stoppedOnce /\ ~ Active(planning)
    /\ NextIntervention
    /\ planning' = [planning EXCEPT !.state = "active"]
    /\ UNCHANGED <<status, recovery, tasks, plan, screening, round>>

(***************************************************************************)
(* Interviews and decisions                                                *)
(***************************************************************************)
\* finish_first_interview, finish_second_interview
Finish ==
    /\ \E action \in {"finish_first_interview", "finish_second_interview"} : Move(action)
    /\ UNCHANGED <<recovery, tasks, plan, planning, screening, round, asked>>

\* What a person decides with the feedback, or leaves open.
Submissions(r) ==
    IF r = "first"
    THEN {"complete_first_interview_pass", "complete_first_interview_reject", "submit_first_feedback"}
    ELSE {"complete_second_interview_pass", "complete_second_interview_reject", "submit_second_feedback"}

\* enqueue_in_transaction: decision, feedback and scoring run at once; whatever
\* the recovery code is about, it is cleared.
Submit(r) ==
    /\ ~ Active(round[r].run)
    /\ \E action \in Submissions(r) : Move(action)
    /\ tasks' = tasks \ {r}
    /\ round' = [round EXCEPT ![r].interview = "submitted", ![r].feedback = 1,
                              ![r].run = [NoRun EXCEPT !.state = "active", !.feedback = 1]]
    /\ recovery' = NoRecovery
    /\ screening' = [screening EXCEPT !.forgotten = @ \/ (r = "second" /\ Renews)]
    /\ UNCHANGED <<plan, planning, asked>>

\* approve_second_interview with require_ready_for_second_review
ApproveSecond ==
    /\ round["first"].run.state \notin {"active", "failed"}
    /\ round["first"].version > 0
    /\ Move("approve_second_interview")
    /\ tasks' = (tasks \ {"review_for_second_interview"}) \cup {"second"}
    /\ round' = [round EXCEPT !["second"].interview = "created"]
    /\ UNCHANGED <<recovery, plan, planning, screening, asked>>

\* department_decision, hr_decision and final_decision, the last with a V3 only.
\* Decisions that put an application aside are left out: no move leads on.
Decide ==
    /\ \E action \in {"reject", "offer"} : Move(action)
    /\ status = "final_review" => round["second"].version > 0
    /\ tasks' = {} /\ recovery' = NoRecovery
    /\ UNCHANGED <<plan, planning, screening, round, asked>>

(***************************************************************************)
(* The scoring workflow of a round                                         *)
(***************************************************************************)
\* A step of the run of round r, which is at the given step.
StepOf(r, step) == Active(round[r].run) /\ Steps[round[r].run.step] = step

\* freeze_sources with persist_frozen_sources: the latest version of the stage
\* before.  (The handler reads it before the transaction that stores it; a version
\* published in between counts as one published just after.)
Freeze(r) ==
    /\ StepOf(r, "freeze") /\ Latest(r) > 0
    /\ round' = [round EXCEPT ![r].run.step = 2, ![r].run.source = Latest(r),
                              ![r].interview = "scoring"]
    /\ UNCHANGED <<status, recovery, tasks, plan, planning, screening, asked>>

\* The steps from parsing the feedback to the presentation of the result.
Compute(r) ==
    /\ StepOf(r, "compute")
    /\ round' = [round EXCEPT ![r].run.step = 3]
    /\ UNCHANGED <<status, recovery, tasks, plan, planning, screening, asked>>

\* Variant: the task of the next decision is not made.
NextTaskForgotten(r) == {}

\* The task that a new version is for.
NextTask(r) ==
    {t \in {"review_for_second_interview"} : r = "first" /\ status = "hr_second_review"}
    \cup {t \in {"make_final_decision"} : r = "second" /\ status = "final_review"}

\* publish: one version for a request and what it was made from; a request
\* that has been published already is not published twice.  (The hash of the
\* sources and the ids of graph and contracts, which the code's key has too, are
\* those of this source and this feedback.)
Publish(r) ==
    LET run == round[r].run
        key == <<run.request, run.source, run.feedback>>
        done == [round[r] EXCEPT !.run = [run EXCEPT !.state = "completed", !.step = 1,
                                                     !.source = 0],
                                 !.interview = "completed"]
    IN /\ StepOf(r, "publish")
       /\ IF key \in round[r].published
          THEN round' = [round EXCEPT ![r] = done] /\ UNCHANGED tasks
          ELSE /\ round' = [round EXCEPT ![r] =
                              [done EXCEPT !.version = @ + 1, !.basis = run.feedback,
                                           !.published = @ \cup {key}]]
               /\ tasks' = tasks \cup NextTask(r)
       /\ recovery' = ClearedFor(r)
       /\ UNCHANGED <<status, plan, planning, screening, asked>>

\* _post_interview_recovery_code with the errors of each step: <<kind, renew>>,
\* where renew says that the version before has to be made anew.  Codes that ask
\* for other feedback, for the scoring or for the publication to be done again
\* differ in what the interface offers, not in what can be done.
FailureCodes(step) ==
    {<<"source", FALSE>>}
    \cup {c \in {<<"retry", FALSE>>} : step # "freeze"}
    \cup {c \in {<<"source", TRUE>>} : step = "compute"}
BlockedCodes(step) ==
    {<<"retry", FALSE>>} \cup {<<"source", b>> : b \in {d \in BOOLEAN : step = "freeze"}}

\* Variant: the interview of a failed run is shown as submitted.
StopsProjection(state) == "submitted"

\* What _transition_scoring makes of the interview.
Projection(state) == IF state = "blocked" THEN "submitted" ELSE "failed"

\* _transition_scoring: the run ends; unless the application is closed, its
\* recovery code says what to do, and which version there was at that time; a code
\* of the other round is replaced.
StopsWith(r, state, codes) ==
    LET read == IF round[r].run.source = 0 THEN Latest(r) ELSE round[r].run.source
    IN /\ IF Closed
          THEN /\ round' = [round EXCEPT ![r].run.state = state]
               /\ UNCHANGED <<recovery, screening>>
          ELSE \E c \in codes :
                 /\ round' = [round EXCEPT ![r].run.state = state,
                                           ![r].interview = Projection(state)]
                 /\ screening' = [screening EXCEPT
                      !.condemned = IF r = "first" /\ c[2] THEN read ELSE @,
                      !.forgotten = IF r = "first" THEN @ /\ ~ c[2] ELSE @ \/ Renews]
                 /\ recovery' = [of |-> r, kind |-> c[1], renew |-> c[2],
                                since |-> IF c[2] THEN Latest(r) ELSE 0]
       /\ UNCHANGED <<status, tasks, plan, planning, asked>>

Fails(r) ==
    /\ Active(round[r].run)
    /\ StopsWith(r, "failed", FailureCodes(Steps[round[r].run.step]))

\* A source or the feedback cannot be used as it is.
IsBlocked(r) ==
    /\ StepOf(r, "freeze") \/ StepOf(r, "compute")
    /\ StopsWith(r, "blocked", BlockedCodes(Steps[round[r].run.step]))

(***************************************************************************)
(* Scoring again                                                           *)
(***************************************************************************)
SourceRecovery(r) == recovery.of = r /\ recovery.kind = "source"

\* Variant: the new version is not waited for.
SourceRepairAssumed(r) == SourceRecovery(r) => ~ BeingMade(r)

\* _ensure_source_repair_ready
SourceRepairReady(r) ==
    SourceRecovery(r) =>
        /\ ~ BeingMade(r)
        /\ recovery.renew => Latest(r) # recovery.since

\* _copy_reusable_checkpoints: the step at which the new run starts.  It keeps
\* what a run that has failed or is blocked had done up to that step.
RestartSteps(r) ==
    IF Stopped(round[r].run) /\ ~ SourceRecovery(r)
    THEN 1 .. round[r].run.step ELSE {1}

\* Variant: a run with new feedback keeps the feedback of the run before it.
WithFeedbackKept(run, feedback) == [run EXCEPT !.step = 1, !.source = 0, !.admin = FALSE]

\* _persist_repaired_feedback: nothing of the run before is used again.
WithFeedback(run, feedback) ==
    [run EXCEPT !.step = 1, !.source = 0, !.feedback = feedback, !.admin = FALSE]

Restarted(run, step) ==
    [run EXCEPT !.step = step, !.source = IF step = 1 THEN 0 ELSE @]

\* The failed run of a round that is kept when another takes its place.
Replaced(r) ==
    IF round[r].run.state = "failed" THEN Restarted(round[r].run, 1) ELSE round[r].replaced

\* retry_post_first_scoring, edit_first_interview_feedback and those of the
\* second round: a run that is active is cancelled.
Recalculate(r) ==
    LET run == round[r].run
        kept == [round[r] EXCEPT !.replaced = Replaced(r), !.interview = "submitted"]
        again == [run EXCEPT !.state = "active", !.request = asked.requests + 1]
    IN /\ run.state # "none"
       /\ NextRequest
       /\ SourceRepairReady(r)
       /\ \/ round' = [round EXCEPT ![r] =
                         [kept EXCEPT !.feedback = @ + 1,
                                      !.run = WithFeedback(again, kept.feedback + 1)]]
          \/ \E step \in RestartSteps(r) :
               round' = [round EXCEPT ![r] = [kept EXCEPT !.run = Restarted(again, step)]]
       /\ recovery' = ClearedFor(r)
       /\ UNCHANGED <<status, tasks, plan, planning, screening>>

\* An administrator may score with a V1 that was found unusable.
Overruled(r) ==
    IF r = "first" THEN [screening EXCEPT !.condemned = 0, !.forgotten = FALSE] ELSE screening

\* retry_workflow: an administrator runs a failed run again, even one that has
\* been replaced, from its start and whatever the recovery code says.
AdminRetries(r) ==
    /\ ~ Active(round[r].run)
    /\ NextIntervention
    /\ \E run \in {round[r].run, round[r].replaced} :
         /\ run.state = "failed"
         /\ round' = [round EXCEPT ![r].run =
                        [Restarted(run, 1) EXCEPT !.state = "active", !.admin = TRUE],
                        ![r].replaced = Replaced(r), ![r].interview = "submitted"]
    /\ screening' = Overruled(r)
    /\ UNCHANGED <<status, recovery, tasks, plan, planning>>

\* _resume_blocked_workflow
AdminResumes(r) ==
    /\ round[r].run.state = "blocked"
    /\ NextIntervention
    /\ round' = [round EXCEPT ![r].run.state = "active", ![r].run.admin = TRUE]
    /\ screening' = Overruled(r)
    /\ UNCHANGED <<status, recovery, tasks, plan, planning>>

\* accept_screening_rebuild and the run that repairs V1 (module Screening)
RebuildScreening ==
    /\ status \in {"hr_second_review", "final_review"}
    /\ ~ screening.repairing /\ screening.version < MaxVersion
    /\ screening' = [screening EXCEPT !.repairing = TRUE]
    /\ UNCHANGED <<status, recovery, tasks, plan, planning, round, asked>>

RebuildEnds ==
    /\ screening.repairing
    /\ \E published \in 0 .. 1 :
         screening' = [screening EXCEPT !.repairing = FALSE, !.version = @ + published]
    /\ UNCHANGED <<status, recovery, tasks, plan, planning, round, asked>>

(***************************************************************************)
(* The specification                                                       *)
(***************************************************************************)
PlanningStep == PlanIsDrafted \/ PlanIsPublished \/ PlanStops
ScoringStep(r) == Freeze(r) \/ Compute(r) \/ Publish(r) \/ Fails(r) \/ IsBlocked(r)

Next ==
    \/ PlanningStep \/ ApproveFirst \/ RequestPlanning \/ ConfirmPlan \/ ContinueManually
    \/ AdminRetriesPlanning \/ Finish \/ ApproveSecond \/ Decide
    \/ RebuildScreening \/ RebuildEnds
    \/ \E r \in Rounds :
         ScoringStep(r) \/ Submit(r) \/ Recalculate(r) \/ AdminRetries(r) \/ AdminResumes(r)

Spec == Init /\ [][Next]_vars

(***************************************************************************)
(* Properties                                                              *)
(***************************************************************************)
\* An application that a workflow has given up says why and what can be done:
\* in the planning stage, and after the first interview until the second one
\* is submitted.
FailureIsExplained ==
    /\ status = "first_interview_planning" /\ Stopped(planning) /\ plan # "draft"
         => recovery.of = "planning"
    /\ Stopped(round["first"].run) /\ round["second"].run.state = "none" /\ ~ Closed
         => recovery.of = "first"

\* At every stage somebody has a task, or a run is under way that will make
\* one, or the application is shown as failed: no retry, repair or late
\* publication leaves an application that nobody is told about.
SomebodyIsTold ==
    /\ status = "first_interview_planning" => "confirm_first_guide" \in tasks
    /\ status \in {"first_interview_in_progress", "first_interview_evaluation"} => "first" \in tasks
    /\ status = "hr_second_review" =>
         \/ "review_for_second_interview" \in tasks
         \/ Active(round["first"].run) \/ recovery.of = "first"
    /\ status \in {"second_interview_in_progress", "second_interview_evaluation"} => "second" \in tasks
    /\ status = "final_review" =>
         \/ "make_final_decision" \in tasks
         \/ Active(round["second"].run) \/ Stopped(round["second"].run)

\* Once a V1 has been found unusable for V2, what people ask for never scores
\* with that V1 again as long as the application is open, however often they ask
\* and whatever is repaired meanwhile.  There are two ways around it: an
\* administrator may overrule the finding; and the second round may take the
\* recovery code that says so: its submission clears the code whatever the code
\* is about, the code of a failed run for V3 takes its place, and from then on the
\* first round may be scored with the unusable V1 again
\* (_ensure_source_repair_ready, enqueue_in_transaction).
RepairedSourceIsRead ==
    Active(round["first"].run) /\ round["first"].run.source # 0
    /\ ~ screening.forgotten /\ ~ Closed
        => round["first"].run.source > screening.condemned

\* The version that ends a run is of the latest feedback of the round, unless
\* the run goes back to one that an administrator has started.
ScoresLatestFeedback ==
    \A r \in Rounds :
        round[r].run.state = "completed" /\ ~ round[r].run.admin
            => round[r].basis = round[r].feedback

\* What is shown of an interview follows its run: an interview is not shown as
\* being scored when nothing scores it, nor as completed without a version.
InterviewFollowsRun ==
    \A r \in Rounds :
        /\ round[r].interview \in {"submitted", "scoring"} /\ ~ Closed
             => round[r].run.state \in {"active", "blocked"}
        /\ round[r].interview = "completed"
             => round[r].run.state = "completed" /\ round[r].version > 0

\* The plan that an interview is held with is not taken away by a planning run
\* that was still under way or that an administrator starts again.
ConfirmedPlanStays == [][plan = "confirmed" => plan' = "confirmed"]_vars
=============================================================================
