---------------------------- MODULE HardScreening ----------------------------
(***************************************************************************)
(* The hard screening of one application: the policies of its job, the     *)
(* evaluation of the rules of one of them, the result that is published,   *)
(* retries, and the person who decides when the rules do not.  (Screening  *)
(* has the application's whole way and leaves out what is judged.)         *)
(*                                                                         *)
(* Leases and checkpoints are left out, see WorkflowRuntime: a run goes    *)
(* through its steps once, and fails at any of them.                       *)
(***************************************************************************)
EXTENDS Naturals, Sequences, FiniteSets

CONSTANTS
    Rules,        \* the rules that policies are made of
    Semantic,     \* those that a model judges
    Sectional,    \* those that are judged on one section of the resume
    Invalid,      \* rules whose required value nothing can be compared with
    Contents,     \* sets of rules that a person may save as a policy
    Resumes,      \* what a resume says of the rules: [Rules -> Facts]
    Unreadable,   \* the resume without any text
    MaxPolicy,    \* bound: policies of the job
    MaxAttempts   \* max_attempts of the activity that evaluates

\* The section is not there; it is, but does not tell; it tells.
Facts == {"absent", "unclear", "met", "unmet"}

ASSUME HardScreeningConstants ==
    /\ IsFiniteSet(Rules) /\ Semantic \subseteq Rules /\ Sectional \subseteq Rules
    /\ Invalid \subseteq Rules \ Semantic
    /\ Contents \subseteq SUBSET Rules
    /\ Resumes \subseteq [Rules -> Facts]
    /\ Unreadable \notin Resumes
    /\ MaxPolicy \in Nat \ {0} /\ MaxAttempts \in Nat \ {0}

VARIABLES
    policies,  \* the versions of the job's policy: [enabled, rules]
    resume,    \* what the adopted resume says, or Unreadable
    app,       \* [status, hard, recovery, policy, demanded]
    run,       \* the latest run
    failed,    \* the latest run that failed
    results    \* policy |-> the result that was published for it

hardVars == <<policies, resume, app, run, failed, results>>

Outcome == {"passed", "failed", "manual_review"}
Reasons == {"none", "source_fact_missing", "policy_invalid", "model_result_invalid",
            "model_configuration_required", "model_temporarily_unavailable",
            "semantic_inconclusive", "human_override"}

Verdict == [status : Outcome, reason : Reasons]

\* What a model says of a rule, and whether its quote is in the resume.
Said == [status : Outcome, located : BOOLEAN]
Unsaid == [status |-> "manual_review", located |-> FALSE]

NoVerdicts == [r \in {} |-> [status |-> "passed", reason |-> "none"]]
NoRun == [state |-> "none", step |-> "freeze", policy |-> 0, attempts |-> 0,
          rules |-> {}, resume |-> Unreadable,
          said |-> [r \in {} |-> Unsaid], verdicts |-> NoVerdicts]

Partial(range) == UNION {[D -> range] : D \in SUBSET Rules}
Runs == [state : {"none", "active", "completed", "failed"},
         step : {"freeze", "evaluate", "publish"}, policy : Nat, attempts : 0..MaxAttempts,
         rules : SUBSET Rules, resume : Resumes \cup {Unreadable},
         said : Partial(Said), verdicts : Partial(Verdict)]

HardTypeOK ==
    /\ policies \in Seq([enabled : BOOLEAN, rules : SUBSET Rules])
    /\ resume \in Resumes \cup {Unreadable}
    /\ app \in [status : {"new", "hard_screening_pending", "hard_screening_running",
                          "hard_screening_review", "submitted", "closed_rejected"},
                hard : {"none", "pending", "running"} \cup Outcome,
                recovery : {"none", "resume_source", "policy", "retryable", "review",
                            "source_review", "publish_retryable"},
                policy : Nat, demanded : Nat]
    /\ run \in Runs /\ failed \in Runs
    /\ DOMAIN results \subseteq Nat
    /\ \A p \in DOMAIN results :
         results[p] \in [status : Outcome, verdicts : Partial(Verdict)]

\* The status that an evaluation as a whole leads to.
Overall(verdicts) ==
    IF \E r \in DOMAIN verdicts : verdicts[r].status = "failed" THEN "failed"
    ELSE IF \E r \in DOMAIN verdicts : verdicts[r].status = "manual_review" THEN "manual_review"
    ELSE "passed"

HardInit ==
    /\ policies \in {<<[enabled |-> e, rules |-> c]>> : e \in BOOLEAN, c \in Contents}
    /\ resume \in Resumes \cup {Unreadable}
    /\ app = [status |-> "new", hard |-> "none", recovery |-> "none",
              policy |-> 0, demanded |-> 0]
    /\ run = NoRun /\ failed = NoRun
    /\ results = [p \in {} |-> NoRun]

Latest == Len(policies)
Usable(p) == p # 0 /\ policies[p].enabled /\ policies[p].rules # {}

\* save_policy: a new version, unless nothing has changed.
SavePolicy ==
    /\ Latest < MaxPolicy
    /\ \E c \in Contents, e \in BOOLEAN :
         /\ policies[Latest] # [enabled |-> e, rules |-> c]
         /\ policies' = Append(policies, [enabled |-> e, rules |-> c])
    /\ UNCHANGED <<resume, app, run, failed, results>>

\* apply_candidate_resume_rebuild: the application adopts another resume and
\* nothing else happens as long as it is in hard screening.
RepairResume ==
    /\ app.status = "hard_screening_review"
    /\ resume' \in Resumes \ {resume}
    /\ UNCHANGED <<policies, app, run, failed, results>>

\* enqueue_initial_assessment and enqueue_for_application: the latest policy is
\* bound, or there is no hard screening.
Enqueue ==
    /\ app.status = "new"
    /\ IF Usable(Latest)
       THEN /\ app' = [app EXCEPT !.status = "hard_screening_pending", !.hard = "pending",
                                  !.policy = Latest, !.demanded = Latest]
            /\ run' = [NoRun EXCEPT !.state = "active", !.policy = Latest]
       ELSE app' = [app EXCEPT !.status = "submitted"] /\ UNCHANGED run
    /\ UNCHANGED <<policies, resume, failed, results>>

At(step) == run.state = "active" /\ run.step = step

(***************************************************************************)
(* The evaluation                                                          *)
(***************************************************************************)
\* Variant: what the resume does not tell counts against the candidate.
SilenceIsUnmet(fact) == fact # "met"
Unmet(fact) == fact = "unmet"

Manual(reason) == [status |-> "manual_review", reason |-> reason]
Decided(status) == [status |-> status, reason |-> "none"]

\* _evaluate_deterministic
Deterministic(r) ==
    LET fact == run.resume[r]
    IN  IF fact = "absent" /\ r \in Sectional THEN Manual("source_fact_missing")
        ELSE IF r \in Invalid THEN Manual("policy_invalid")
        ELSE IF Unmet(fact) THEN Decided("failed")
        ELSE IF fact = "met" THEN Decided("passed")
        ELSE Manual("source_fact_missing")

Quoted(said) == said.located

\* _evaluate_semantic, for what the model says of a rule
Judged(said) ==
    IF said.status = "manual_review" THEN Manual("semantic_inconclusive")
    ELSE IF Quoted(said) THEN Decided(said.status)
    ELSE Manual("model_result_invalid")

\* The rules that the model is asked about.
Asked == {r \in run.rules \cap Semantic : ~(r \in Sectional /\ run.resume[r] = "absent")}

\* The verdicts, given that of every rule that the model is asked about.
RuleVerdicts(asked) ==
    [r \in run.rules |-> IF r \notin Semantic THEN Deterministic(r)
                         ELSE IF r \in Asked THEN asked[r]
                         ELSE Manual("source_fact_missing")]

Evaluated(said, asked) ==
    /\ run' = [run EXCEPT !.step = "publish", !.said = said, !.verdicts = RuleVerdicts(asked)]
    /\ UNCHANGED <<policies, resume, app, failed, results>>

Nothing == [r \in {} |-> Unsaid]

\* evaluate_hard_screening: the model answers for every rule, does not answer
\* what it was asked, or there is no model.
Evaluate ==
    /\ At("evaluate")
    /\ \/ \E said \in [Asked -> Said] : Evaluated(said, [r \in Asked |-> Judged(said[r])])
       \/ \E reason \in {"model_result_invalid", "model_configuration_required"} :
            Asked # {} /\ Evaluated(Nothing, [r \in Asked |-> Manual(reason)])

\* The model cannot be reached: the activity is tried again, and after its last
\* attempt the other rules are judged without it, one by one, and semantic ones
\* not at all.
ModelFails ==
    /\ At("evaluate") /\ Asked # {}
    /\ IF run.attempts + 1 < MaxAttempts
       THEN /\ run' = [run EXCEPT !.attempts = @ + 1]
            /\ UNCHANGED <<policies, resume, app, failed, results>>
       ELSE /\ run' = [run EXCEPT
                 !.step = "publish", !.said = Nothing,
                 !.verdicts = [r \in run.rules |->
                     IF r \in Semantic THEN Manual("model_temporarily_unavailable")
                     ELSE Deterministic(r)]]
            /\ UNCHANGED <<policies, resume, app, failed, results>>

(***************************************************************************)
(* The steps of the workflow                                               *)
(***************************************************************************)
\* freeze_hard_screen_sources: build_workflow_input and mark_workflow_running.
\* A resume without text is no ground for anything.
Freeze ==
    /\ At("freeze") /\ resume # Unreadable
    /\ app.status \in {"hard_screening_pending", "hard_screening_running"}
    /\ run' = [run EXCEPT !.step = "evaluate", !.rules = policies[run.policy].rules,
                          !.resume = resume]
    /\ app' = IF app.status = "hard_screening_running" THEN app
              ELSE [app EXCEPT !.status = "hard_screening_running", !.hard = "running",
                               !.recovery = "none"]
    /\ UNCHANGED <<policies, resume, failed, results>>

\* The recovery code of a published result that a person has to review.
ReviewCode(verdicts) ==
    LET reasons == {verdicts[r].reason : r \in {q \in DOMAIN verdicts :
                                                 verdicts[q].status = "manual_review"}}
    IN  IF "source_fact_missing" \in reasons THEN "resume_source"
        ELSE IF "policy_invalid" \in reasons THEN "policy"
        ELSE IF reasons \cap {"model_temporarily_unavailable", "model_result_invalid"} # {}
             THEN "retryable"
        ELSE "review"

After(status) ==
    [passed |-> "submitted", failed |-> "closed_rejected",
     manual_review |-> "hard_screening_review"][status]

\* complete_workflow
PublishHard ==
    LET status == Overall(run.verdicts)
    IN  /\ At("publish") /\ app.status = "hard_screening_running"
        /\ run' = [run EXCEPT !.state = "completed"]
        /\ results' = [p \in DOMAIN results \cup {run.policy} |->
                      IF p # run.policy THEN results[p]
                      ELSE [status |-> status, verdicts |-> run.verdicts]]
        /\ app' = [app EXCEPT !.status = After(status), !.hard = status,
                     !.recovery = IF status = "manual_review" THEN ReviewCode(run.verdicts) ELSE "none"]
        /\ UNCHANGED <<policies, resume, failed>>

\* The recovery code of a step that is given up: record_processing_failure gets
\* the type of the error and not its text, so that it cannot tell which source the
\* freezing step has missed.
FailureCode ==
    IF run.step = "freeze" THEN "source_review"
    ELSE IF run.step = "publish" THEN "publish_retryable"
    ELSE "retryable"

\* record_processing_failure: the application goes to a person, it is not
\* rejected.
Fail ==
    /\ run.state = "active"
    /\ run' = [run EXCEPT !.state = "failed"]
    /\ failed' = run'
    /\ app' = [app EXCEPT !.status = "hard_screening_review", !.hard = "manual_review",
                          !.recovery = FailureCode]
    /\ UNCHANGED <<policies, resume, results>>

(***************************************************************************)
(* Retries and the review                                                  *)
(***************************************************************************)
RetryableCodes == {"retryable", "publish_retryable", "source_review", "policy"}

\* _enqueue_publish_only_retry: the latest run that failed did so when it was to
\* publish.
PublishOnly == failed.state = "failed" /\ failed.step = "publish"

\* retry_for_application: with the policy that is bound, which is never deleted.
Retry ==
    /\ app.status = "hard_screening_review" /\ app.recovery \in RetryableCodes
    /\ app' = [app EXCEPT !.status = "hard_screening_pending", !.hard = "pending",
                 !.recovery = "none",
                 !.demanded = IF app.recovery = "policy" /\ Usable(Latest) THEN Latest ELSE app.policy]
    /\ run' = IF PublishOnly THEN [failed EXCEPT !.state = "active"]
              ELSE [NoRun EXCEPT !.state = "active", !.policy = app.policy]
    /\ UNCHANGED <<policies, resume, failed, results>>

\* retry_workflow: an administrator runs the failed run again from the start.
AdminRetry ==
    /\ failed.state = "failed" /\ run.state # "active"
    /\ app.status = "hard_screening_review"
    /\ app' = [app EXCEPT !.status = "hard_screening_pending"]
    /\ run' = [NoRun EXCEPT !.state = "active", !.policy = failed.policy]
    /\ UNCHANGED <<policies, resume, failed, results>>

\* Variant: the published result keeps its questions.
ReviewedBySummary(row, status) == [row EXCEPT !.status = status]

\* The result after a review: the person's word for what nobody could tell.
Reviewed(row, status) ==
    [status |-> status,
     verdicts |-> [r \in DOMAIN row.verdicts |->
        IF row.verdicts[r].status = "manual_review"
        THEN [status |-> status, reason |-> "human_override"] ELSE row.verdicts[r]]]

\* review
Review ==
    /\ app.status = "hard_screening_review"
    /\ \E status \in {"passed", "failed"} :
         /\ app' = [app EXCEPT !.status = After(status), !.hard = status, !.recovery = "none"]
         /\ results' = [p \in DOMAIN results |->
                       IF p = app.policy THEN Reviewed(results[p], status) ELSE results[p]]
    /\ UNCHANGED <<policies, resume, run, failed>>

HardNext ==
    \/ SavePolicy \/ RepairResume \/ Enqueue
    \/ Freeze \/ Evaluate \/ ModelFails \/ PublishHard \/ Fail
    \/ Retry \/ AdminRetry \/ Review

HardSpec == HardInit /\ [][HardNext]_hardVars

-----------------------------------------------------------------------------

\* What there is to show for a run's verdict on a rule.
Shown(x, r) ==
    IF r \in Semantic
    THEN IF r \in DOMAIN x.said /\ x.said[r].located THEN x.said[r].status ELSE "nothing"
    ELSE IF r \in Invalid THEN "nothing"
    ELSE [met |-> "passed", unmet |-> "failed", absent |-> "nothing",
          unclear |-> "nothing"][x.resume[r]]

\* "What cannot be judged reliably is left to a person": no application is
\* rejected without a rule that the resume was shown to break, and none passes
\* without every rule shown to be met, whatever is missing in the resume,
\* unusable in the policy, made up by the model or lost with it
\* (evaluate_hard_screening and the fallback of HardScreeningActivityService).
RejectionHasGrounds ==
    run.state = "completed" =>
        /\ app.status = "closed_rejected" /\ Overall(run.verdicts) = "failed"
             => \E r \in run.rules : Shown(run, r) = "failed"
        /\ app.status = "submitted" /\ Overall(run.verdicts) = "passed"
             => \A r \in run.rules : Shown(run, r) = "passed"

\* The application and its published result tell one story, over retries that
\* fail after an earlier result was published and after a person's review:
\* who passed has no rule that failed or is still open, and who was rejected has
\* one that failed (complete_workflow and review).
ConclusionMatchesRules ==
    app.status \in {"closed_rejected", "submitted"} /\ app.policy \in DOMAIN results =>
        /\ results[app.policy].status = app.hard
        /\ Overall(results[app.policy].verdicts) = app.hard

\* "On a retry the latest enabled policy of the job is bound", after a person
\* has saved one because the rules could not be used (retry_for_application).
RepairedPolicyIsRead == run.state = "active" => run.policy = app.demanded

\* "The artifacts are used again and published": a publication that is repeated
\* finds the application in the status it publishes from
\* (_enqueue_publish_only_retry, complete_workflow).
RepeatedPublicationFits == At("publish") => app.status = "hard_screening_running"
=============================================================================
