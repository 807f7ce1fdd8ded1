# A formal model of the recruitment workflow system

This directory holds TLA+ specifications of the recruitment system in
`src/backend`, the TLC configurations that check them on small instances, and
proofs that the TLA+ proof system has checked.  Paths below are relative to
`src/backend/app` unless they begin with `src/`.

## 1. The system

The system is a FastAPI web application, a pool of worker processes, a
PostgreSQL database and an object store.  The web processes execute *commands*
(one HTTP write, one transaction) and put *workflow runs* in a queue, which is
a database table.  The workers take runs from the queue and carry them through
a fixed plan of steps; each step calls slow external services outside any
transaction and publishes its result in a short one.  Everything that has to
survive a crash is in the database, and nothing else coordinates the processes.

| Component | State | Operations | Interacts with |
|---|---|---|---|
| status contracts (`shared/workflows/status_contracts.py`) | three transition tables | `ensure_*_transition` | every write of a status |
| queue and worker pool (`workers/workflow_worker.py`, `infrastructure/workflow_runtime/{queue,lifecycle,runtime,runner}.py`) | `WorkflowRun`: status, lease, owner, `available_at` | enqueue, claim, take over, retire, heartbeat, record a failure | step runner; commands that cancel or resume |
| step runner (`infrastructure/workflow_runtime/{step_runner,checkpoint_repository}.py`) | `WorkflowStepCheckpoint`: status, attempts, polls, deadline | start, reuse, publish, defer, block, fail, complete | handlers and `persist_success` of the business modules |
| activity runner (`.../activity_runner.py`) | `WorkflowActivityCheckpoint` | run or reuse each call of a step, retry, degrade, block | step handlers; artifact store |
| artifacts and external calls (`.../artifact_store.py`, `external_activity.py`) | staged objects, `WorkflowArtifact` | stage outside, attach inside the transaction | object store |
| command runner (`infrastructure/command_runtime`) | idempotency ledger, compensations | lock, authorise, replay, handle, commit, compensate | all HTTP writes; object store |
| row locks (`infrastructure/database/locking.py`) | PostgreSQL row locks | lock in a fixed order | commands, worker |
| applications (`modules/applications`) | the state of an application, versions, tasks | lifecycle commands, documents | assessment, interviews |
| assessment (`modules/assessment`) | hard screening and scoring results | two workflows and their commands | applications |
| interviews (`modules/interviews`, `interview_guides`) | interviews, feedback, post-interview scores | three workflows, recalculation | applications, queue |
| candidates (`modules/candidates`) | submissions, candidates, profiles | intake, routing, rebuild, replacement, deletion | ingestion, queue |
| jobs (`modules/jobs`) | job descriptions, versions, profiles | compilation workflow, lifecycle | ingestion, candidates |
| document ingestion (`modules/document_ingestion`) | documents and their structured form | two import workflows | candidates, jobs |
| administration, auth, tasks, analytics, API, observability | accounts, sessions, read models | single requests | everything |
| `src/packages/recruitment_ai_core`, `src/importer`, `src/frontend` | none shared | scoring algorithms, bulk import, user interface | API only |

What is hard here, and what makes a component correct:

* **Worker pool.**  Processes die, leases lapse, a process that was given up
  comes back.  A run must be executed by one thread at a time, or at least
  published by one; two runs of one subject must not overlap; every queued run
  must settle.
* **Step runner.**  A crash may fall between any two transactions; results come
  after their deadline; retries, polls and resumptions have separate budgets.
  A step must be published once, in order, and recorded exactly when published.
* **Cancel and resume.**  Commands change a run while a thread executes it.  An
  ended run must stay as it is.
* **Activity runner.**  Retries inside a step, several activities in parallel
  threads, reuse of what has succeeded, degraded and blocked outcomes.
* **Command runner.**  Two requests with one idempotency key, a commit whose
  outcome is unknown, objects written outside the transaction.
* **Row locks.**  Worker and commands lock the same rows; the order matters.
* **Domain modules.**  Applications, submissions and job versions are moved by
  commands and workflows at once; versions are superseded while work on them
  is under way.

`PROJECT.json` lists these hazards with the line where each one bites and the
properties that cover it.

## 2. The plan

The order is by how much of the system relies on a part.

1. `WorkflowStatus`, `WorkflowRuntime`, `WorkflowPromise`: the part every
   workflow of the system relies on, and what it promises.  *Done, proved.*
2. `ActivityRunner`: a step with several activities, their checkpoints, budgets
   and outcomes under crashes and takeovers.  *Done, proved.*
3. `CommandRunner`: concurrent commands with idempotency keys and row locks
   next to publishing workers; commits that fail or whose outcome is unknown,
   compensations and callbacks.  *Done, proved.*
4. `ApplicationStates`, `Screening`: the application with its hard screening and
   V1, over runs that keep `WorkflowPromise`.  *Done, proved.*
5. `Interviews`: from the first review to the offer, V2 and V3.  *Done, proved.*
6. `ResumeIntake`: uploads, imports, routing, duplicates.  *Done, proved.*
7. `JobImport`, `JobProfiles`: requisitions, their descriptions and the profiles
   compiled of them.  *Done; the profiles proved, the imports model-checked.*
8. `HardScreening`, `ScoreRules`, `FirstScoring`, `TopologyScoring`: what the
   assessments of an application compute.  *Done, proved.*

The modules are used by one another as follows.

    WorkflowStatus <- WorkflowRuntime <- MCWorkflowRuntime, WorkflowRuntimeProofs
                      WorkflowRuntime  -> WorkflowPromise   (refinement)
    ActivityRunner <- MCActivityRunner, ActivityRunnerProofs
    ApplicationStates <- Screening <- MCScreening, ScreeningProofs
    MCScreening, MCActivityRunner <- MCApplications
    ApplicationStates <- Interviews <- MCInterviews, InterviewsProofs
    ResumeIntake <- MCResumeIntake, ResumeIntakeProofs
    CommandRunner  <- MCCommandRunner, CommandRunnerProofs
    JobProfiles <- JobsProofs
    JobImport <- MCJobImport
    JobProfiles, MCJobImport, MCCommandRunner <- MCJobs
    ScoreRules <- FirstScoring, TopologyScoring
    HardScreening, FirstScoring, TopologyScoring <- MCAssessment
    HardScreening, FirstScoring, TopologyScoring <- AssessmentProofs

The domain modules (4 to 7) assume of a run what `WorkflowPromise` says: its
steps are published in order, each once, and then it completes; or it ends in
another way.  This is what `Implementation` proves of the runtime.  A run is
therefore a record with a state and a step, and each of its publishing
transactions is an action.

Three of the MC modules put several models into one run: `MCApplications`
(screening and a batch of activities), `MCJobs` (profiles, imports and commands)
and `MCAssessment` (the three assessments).  Their variable `which` says which model
is looked at while the others rest; none reads a variable of another.

| Run | Module | Distinct states | Result |
|---|---|---|---|
| `runtime_zombie`, `runtime_fenced`, `runtime_live` | `MCWorkflowRuntime` | section 3 | pass |
| `applications_activities` | `MCApplications` | 423,216 | pass |
| `interviews` | `MCInterviews` | 2,102,970 | pass |
| `resume_intake` | `MCResumeIntake` | 2,372,927 | pass |
| `jobs_commands` | `MCJobs` | 179,610 | pass |
| `assessment` | `MCAssessment` | 1,362,916 | pass |
| `finding_stale_republish` | `MCScreening` | | violation, section 6 |
| `finding_cleanup` | `MCCommandRunner` | | violation, section 5 |
| `finding_two_requisitions` | `MCJobImport` | | violation, section 10 |
| `finding_hard_publish` | `MCAssessment` | | violation, section 11 |

The sections below say of each module how it corresponds to the code, what its
run shows with which bounds, and what is proved.  Definitions that begin with
`\* Variant:` in the modules are plausible mistakes; each is the body of a
mutant in `PROJECT.json`, which makes TLC report the property it is listed with.

## 3. The workflow runtime

### Modules

* `WorkflowStatus` has the vocabularies and transition tables.  `StepMayMove`
  includes the rule that a status may be rewritten by itself, on which the second and
  third of the limitations below depend.
* `WorkflowRuntime` is the detailed model.  Its variables are the columns of
  `WorkflowRun` (`status`, `owner`, `lease`, `due`) and of
  `WorkflowStepCheckpoint` (`step`, `attempts`, `polls`, `overdue`), a count of
  the committed `persist_success` calls (`published`), and what each thread of
  the pool knows (`pc`, `job`, `pos`, `outcome`, `beating`).
* `WorkflowPromise` is the abstract specification: a run publishes its steps one
  after the other, each once, and completes after the last.  `WorkflowRuntime`
  implements it through the mapping in `KeepsPromise`: a run that is pending or
  running is *active*, all other statuses stand for themselves, and the count is
  `published`.
* `MCWorkflowRuntime` gives the function-valued constants.
* `WorkflowRuntimeProofs` has the theorems.

### Actions and code

Every transaction of the code is one action, because each of them begins by
locking the `WorkflowRun` row (`require_owned_run`, `claim_next_workflow_run`,
`_record_failure`); what happens between transactions is a gap between actions.

| Action | Code |
|---|---|
| `Enqueue` | `WorkflowQueue.enqueue` and the unique index `uq_workflow_active_subject_type` |
| `Claim` | `claim_next_workflow_run`: eligibility, subject lock, `_active_same_subject_query`, `_mark_claimed`, start of the heartbeat |
| `Retire` | `_retire_one_unsupported_definition` |
| `Heartbeat`, `HeartbeatDies` | `_heartbeat`; an exception in it is caught nowhere |
| `Begin` | the read that opens `process_workflow_run` |
| `StartRaises`, `ReuseStep`, `StartStep` | `StepRunner.run` up to its first commit, `get_or_start` |
| `HandlerEnds` | the handler, the check of the attempt deadline after it, the classification of exceptions |
| `FinalizeLost`, `Publish`, `PublishRaises`, `DeferStep`, `FailStep`, `BlockStep`, `FinalizeRaises` | `_finalize` and `_defer` |
| `CompleteRun` | the end of `run_plan` |
| `DropFailure`, `RecordFailure`, `RecordFailureRaises` | `_record_failure` and `finalize_unhandled_failure` |
| `Stop` | the `finally` of `process_workflow_run` |
| `ResumeBlocked` | `_resume_blocked_workflow` |
| `Cancel` | `CandidateDeletionService._cancel_run`, `_cancel_active_run` of the recalculation |
| `CancelRunOnly` | the UPDATE in `soft_delete` |
| `Crash` | the death of a worker process and all its threads; a restart has a new worker_id |
| `TxFails` | a transaction that is rolled back: the database, or a transition handler that raises |
| `BecomeDue`, `LeaseRunsOut`, `LeaseLapses`, `PassDeadline`, `BreakInput` | time and the world |

Abstractions.  A timestamp is a flag that says whether it has passed
(`due`, `lease`, `overdue`), and one deadline stands for both the attempt
deadline and the total one, with the outcomes of either.  `attempts` stops at
`MaxAttempts + 1` and `published` at 2: nothing distinguishes larger values.
`WorkflowRun.attempt_count` is left out, since no registered workflow reads it;
so are the branches for workflows without steps, `invalidate_from` (no caller),
the order of the queue and its limit of twenty candidates.  `Enqueue` makes a run
without checkpoints; the services that retry a domain's work also make runs with
copies of succeeded ones (`scoring_request_commands.py`:418-439 and the like).  Such a
run starts like one that is taken over between two of its steps, which
`Claim` after a `Crash` does.  What depends on the copies is in the domain modules
(`reuse`, `republish`, the steps at which a run may begin).  A process that has
died does not come back: a restarted one draws a new `worker_id`.

### Runs

All constants are in the cfg files.  Two processes are enough for one to take
over from the other, two threads for a process to compete with itself, two
steps for a plan to have a before and an after.  Two runs that share a subject are
in no run: `SubjectLock` proves what there is to say of them.  One attempt and one poll are enough to reach the budgets;
`runtime_fenced` has two attempts so that a retry can succeed.

| Run | Setting | What it shows |
|---|---|---|
| `runtime_zombie` | one run, two threads of one process, leases lapse, input may break | types; run and checkpoints agree; published iff succeeded; an ended run is left alone |
| `runtime_fenced` | one run, three single-threaded processes, one dies, one is deployed without the plan, a transaction fails, leases lapse at will | each step is published once, in order: the abstract specification is implemented, by virtue of the ownership check; retries and polls keep to their budgets |
| `runtime_live` | one run, two processes, one dies, fair | every queued run settles |

Deadlock is not checked: a queue that is empty and workers that are idle are
where the system should end up.

**Fairness** (`Fairness` in `WorkflowRuntime`).  A thread that can take a step
takes it: handlers run under timeouts and transactions end.  Delays, leases and
deadlines run out.  Claims are strongly fair for each run, because the queue is
ordered by `available_at` and a run that is deferred goes to its end.  Nothing
is assumed of users, of crashes or of heartbeats.

### Known limitations

The model shows four behaviours that a reader of the code would not expect.
They are the reason for the assumptions of the theorems and for some of the
constants of the runs.

* The subject lock counts unexpired leases only, and a heartbeat renews a lease
  although it has expired.  Between the two, another run of the same subject can
  be claimed, and both then execute under live leases.
* All threads of a process have one `worker_id`, so `require_owned_run` cannot
  tell two of them apart.  After a lapse, a second thread of the same process
  claims the run and both publish the step; the table lets `succeeded` be
  rewritten by `succeeded`.
* If `input_factory` raises while the current checkpoint waits for a retry,
  recording the failure asks for an illegal move and is rolled back.  The run
  stays `running` until its lease expires and the same happens to the next owner.
* The recovery of a checkpoint left `running` by a crash counts an attempt
  without comparing it with the budget.

The first two need a lease to lapse while its executor lives (a paused process,
a database that is slow for as long as a lease).  Theorems `ExactlyOnce`,
`Implementation` and `SubjectLock` have exactly this as their assumption:
no lapse under a live heartbeat or, for the first two, worker_ids that differ.

### Proofs

`WorkflowRuntimeProofs` proves for all values of the constants allowed by
`ConstantsOK`:

| Theorem | Statement |
|---|---|
| `TypeCorrect` | `Spec => []TypeOK` |
| `LeaseCorrect` | `Spec => []LeaseFollowsStatus` |
| `PlanOrder` | `Spec => []StepsInOrder` |
| `RunStepAgreement` | `Spec => []RunAgreesWithSteps` |
| `PublicationRecorded` | `Spec => []PublishedIffSucceeded` |
| `Finality` | `Spec => EndedIsFinal` |
| `BudgetKept` | `Spec => []WithinBudget` |
| `SubjectLock` | if no lease lapses under a live heartbeat: `Spec => []SubjectExclusive` |
| `ExactlyOnce` | if no lease lapses under a live heartbeat, or no two threads share a worker_id: `Spec => []PublishedOnce` |
| `Implementation` | under the same condition: `Spec => KeepsPromise` |

The inductive invariant `IInv` has two parts beyond the type invariant.
`RowInv(r)` speaks of the rows alone: owner and lease follow the status, the
checkpoints form a prefix of succeeded steps, then at most one other, then
nothing, and the status of the run restricts what that one may be.
`Placed(t)` ties a thread to the rows: all steps before its position have
succeeded, and all steps have if it is about to complete, *whoever owns the run
by now*.  This is why the proof goes through although a thread may have lost its
run, or two threads own it: a step that has succeeded stays so, and what one of
them publishes only makes the other's knowledge more true.  None of the
listed properties is inductive alone; `StepsInOrder`, for instance, needs
`Placed` to know that a step is started after its predecessors.

`ExactlyOnce` adds `FenceInv`: at most one thread *holds* a run (owns it and is
at work on it), and a thread whose handler has begun while it owns the run finds
its checkpoint still `running`.  When no lease lapses under a live heartbeat,
one holder follows because a lease expires only after its holder has left; when
worker_ids are distinct, it follows from `owner` having one value.
`SubjectLock` has an invariant of its own: an unexpired lease of a
running run excludes every other of its subject, and an expired one stays
expired because nobody is left to renew it.

`Implementation` maps each action to a step of `WorkflowPromise` or to a
stutter, lemma by lemma (`PromiseMove`, `PromisePublish`, `PromiseComplete`).

`BudgetKept` needs no such condition.  `WithinBudget` is inductive beside `IInv`:
whoever writes `retry_wait` or `waiting_external` has compared the budget in the
same transaction, and nobody counts an attempt or a poll on such a step without
moving it on.

Only model-checked, being liveness under fairness and hence out of the prover's
reach: `QueuedRunSettles`.

## 4. The activity runner

A step whose handler calls slow services does so through `ActivityRunner`
(`infrastructure/workflow_runtime/activity_runner.py`): each call is an
*activity* with a checkpoint row, a retry budget and a policy for when that is
used up (`fail`, `fallback` to a degraded result, `block` for a person).  A step
that is executed again reuses the activities that have ended.

The module `ActivityRunner` has one run with one step left, whose handler runs
one batch and reports its status.  The rows are `status`, `owner` and `quality`
of the run and `ckpt`, `attempts`, `kind` and `waiting` of the activities; an
executor (a worker thread) remembers where each `_run_one` is (`act`) and what
it will return (`answer`).

| Action | Code |
|---|---|
| `Reuse`, `StillWaiting`, `Begin`, `BeginRaises` | the first transaction of `_run_one`; the exception may also come from reading the stored artifact or from a changed input |
| `HandlerReturns`, `HandlerRaises` | the handler and the staging of its payload, outside any transaction |
| `Persist`, `Resolve` (both `Store`), `PersistRaises`, `ResolveRaises` | `_persist_resolution`, called with the handler's payload or with the domain's way out |
| `RetryLater`, `TakeWayOut`, `NoWayOut`, `GiveUp`, `FailureRaises` | `_record_failure` |
| `Verdict`, `BatchEnded` | `run_many` |
| `EndStep`, `RetryStep`, `FailStep` | the handler's projection of the status (`_evaluate_handler` of hard screening is typical), the check of the attempt deadline and `_finalize` |
| `Claim`, `Resume`, `Cancel`, `Crash` | as in `WorkflowRuntime`, reduced to what a batch can notice |

Abstractions.  Claiming and `get_or_start` are one action.  A lease that lapses
is the constant `Stalls`: a running run may be claimed although its executor
lives.  `attempts` stops at `AttemptCap`, one more than the budget; the retries
of the step itself are bounded by `StepRetries`, and whether its other budgets
are used up is a free choice (`FailStep`).  A transaction may always fail
(`BeginRaises`, `PersistRaises`, `FailureRaises`).

| Run | Setting | What it shows |
|---|---|---|
| `applications_activities` | two parallel activities, one that blocks and one that falls back, two attempts each; a pool of two threads with one worker_id and a second process that dies; leases do not lapse; fair | a published step stands on stored, usable results and reports their quality; an ended activity is never replaced; the run ends or stops for a person |

The run looks at this model or at the one of section 6.

Two activities are enough for one to be ended while the other is under way, and
two executors of one process for both to be in the same batch.  **Fairness**:
executors go on, delays end, and a run that can be claimed again and again is
claimed.

**Known limitation.**  An activity that ends in a person's hands is stored as
`succeeded` with the outcome `blocked`.  When an administrator resumes the run
after the person has acted, the stored outcome is reused and the step blocks
again without having called anything.

### Proofs

`ActivityRunnerProofs` proves, for batches of any length and any pool:

| Theorem | Statement |
|---|---|
| `ActivityTypeCorrect` | `Spec => []TypeOK` |
| `BudgetKept` | `Spec => []RetryWithinBudget` |
| `PublicationBacked` | if `Fenced`: `Spec => []PublishedIsBacked` |
| `BlockExplained` | if `Fenced`: `Spec => []BlockedForAReason` |
| `ResultsStable` | if `Fenced`: `Spec => ResultIsStable` |

`Fenced` says that no lease lapses while its executor lives, or that executors
have worker_ids of their own; it is the condition of the runtime's theorems.

The first two rest on `TypeInv`: besides types, that an activity which is about
to be stored, or has been reported, has an answer that may be stored or
reported, and that a succeeded activity has an outcome.  `VerdictKnown` then
shows that the verdict of a batch is one the step handlers know, and what it
says of the answers it was made from; the first unusable answer exists because
the natural numbers are well-founded (`Least`).

The others rest on `BatchInv`.  It says that an executor that *holds* the run
(is in the batch and owns the run) is `Informed`: each activity it works on is
still `running`, and each result it has to report is the stored one.  This is not
inductive by itself, since another executor could write; `HolderUnique` excludes
that, from the worker_ids or, if leases do not lapse, from `NoStranger`:
nobody is in the batch of a run that waits, and whoever is in the batch of a
running run owns it, alone.  An executor that has lost the run is not informed of
anything, and need not be: every write and the end of the step ask for ownership.

Only model-checked: `RunSettles`, being liveness under fairness.

## 5. The command runner

Every HTTP write is a command: one transaction, with an idempotency key that
makes a repeated request return the first answer.  The module `CommandRunner`
has any number of requests and of publishing worker transactions.  `phase` says
where each is, `owner` and `todo` are the row locks taken and still to be taken,
`ledger` is the table of idempotency keys, `objects` and `documents` are what
the object store and the database hold of each file content, and `saved` and
`reply` are what has been committed and what the client was told.

| Action | Code |
|---|---|
| `Send` | the request arrives |
| `LoadResource`, `Authorize`, `Refuse` | the resource loader with its `lock_*` calls and `authorize` |
| `Replay`, `Conflict`, `Fresh` | `IdempotencyGuard` before the handler: the stored answer, another body under the same key, no record |
| `HandlerLocks`, `HandlerRaises`, `HandlerRaisesAfterPut`, `Handled` | the handler; an upload puts its object before the commit and registers the compensation |
| `Record`, `RecordClashes` | the INSERT into the ledger, which waits for an open transaction with the same key |
| `Save`, `Commit`, `CommitFails`, `CommitUnacknowledged` | `session.commit()`; the last is a commit whose acknowledgement is lost |
| `Compensate`, `RemoveFile`, `AfterCommit`, `RetryCleanup` | the compensations after a rollback, the clean-up of objects after the commit and its repetition by an administrator |
| `Publish`, `PublicationLocks`, `PublicationCommits` | the publishing transaction of a worker |
| `Deadlock` | PostgreSQL ends one transaction of a cycle |
| `Crash` | the web process dies |

PostgreSQL is modelled from how the code uses it: READ COMMITTED, row locks held
to the end, a unique index on which an INSERT waits, a deadlock detector.

A document is known by who created it (`documents`); `uses` is the one that a
command creates, refers to or removes.  Files are put again or not as the
handlers do it (`MayPut`, `Found`): an attachment of an application is shared by
those who upload the same content, and is deleted with the last reference; a
resume or a job description whose candidate is archived or whose import is over is
put again.  Foreign keys hold at the flush (`KeysHold`).

In the run `jobs_commands` this model has a deletion that is sent twice under one key, an
upload of the deleted content that reuses the key, and a worker that takes the two
rows in the opposite order.  This is the smallest instance in which a replay, a
conflict, a clash on the ledger and a cycle of waiting transactions all occur; one
request is `Unreliable` (it may crash or lose its connection).  It shows that each
key takes effect once, that clients are told the truth, an error of a request whose
acknowledgement is lost (`ackLost`) excepted, and, under `Fairness` (each thread
goes on; the detector does its work), that every request is answered.

**Finding** `finding_cleanup`.  The object of a document is named by the hash of its content,
and the clean-up task of a deleted application keeps that name.  If the clean-up
after the commit fails, the same file is uploaded again, and the administrator
repeats the clean-up, `execute_object_cleanup` (`operations_service.py`:607-641)
deletes the object without asking whether a document refers to it by then; the task
list calls the repetition safe (line 570).  `SavedFilesExist` is violated with two
requests that both hold their connection.

**Known limitation.**  The compensation of an upload removes the object by the same
name.  It takes the file of a saved document away when another document with the same content is
saved meanwhile, or when the commit did take place although an exception was
raised (`command_runner.py`:192-195).  `SavedFilesExist` fails in both ways too; no
document or comment promises otherwise, so the finding is about the clean-up only.

### Proofs

| Theorem | Statement |
|---|---|
| `CommandTypeCorrect` | `Spec => []TypeOK` |
| `AtMostOncePerKey` | `Spec => []OncePerKey` |
| `NoFalseSuccess` | `Spec => []SuccessIsSaved` |
| `NoFalseError` | `Spec => []ErrorMeansNotSaved` |

They hold for every set of requests, rows, keys and files and whichever requests are
unreliable.  `OncePerKey` needs to know who holds a key and what he has done:
`LedgerInv` says that a key in the ledger belongs to its holder, that a holder
who has been committed is saved, and that a request which is about to commit
holds its key.  `Told(q)` ties the phase of a request to the answer it has given
and to what it has saved.
Only model-checked: `CommandsEnd`.

## 6. Applications: from routing to the first assessment

`ApplicationStates` is the transition table of
`modules/applications/domain`: `Allowed(status, action)` and
`After(status, action)`.  `Screening` follows an application of one job version
from its creation to V1.  `app[a]` is its row with its hard-screening and scoring
runs and, of each kind, the latest failed run, because `queue.retry` may take
over the checkpoints of that one; `activeProfile`, `policyEnabled` and `jobOpen` are
what the runs and commands read of the job.

| Action | Code |
|---|---|
| `Route` | `create_from_candidate` |
| `PublishProfile`, `SavePolicy`, `DeleteJob` | `release_applications_waiting_for_job_profile`, the policy of a job version, the deletion of a job |
| `HardFreezes`, `HardEvaluates`, `HardPublishes`, `HardFails` | the hard-screening workflow and its failure projection |
| `ScoringFreezes`, `ScoringComputes`, `ScoringPublishes`, `ScoringFails`, `ScoringIsBlocked` | the scoring workflow |
| `RunScoring`, `RetryInitial`, `RetryHard`, `ReviewHard`, `RecoverProfile`, `RebuildScreening` | the commands of the first stage |
| `AdminRetryHard`, `AdminRetryScoring`, `AdminResume` | the operations of the administrator |
| `RebuildResume`, `Delete`, `Interviewed` | a new resume, deletion, and what `Interviews` does later |

An application is written by operators that return a row
(`QueueScoring`, `QueueHard`, `Release`, ...), each with a `Can...` that says
when the code goes that far without raising.  An exception aborts the whole
transaction, so a guard made of the `Can...` of all that is called is exact.

In the run `applications_activities` this model has one application (applications share
nothing but the job), a profile that is empty, from an older program version, and one
that is not, and two resumes: enough for each stale reading.  `SlowRouting` are the
applications whose routing may read the active profile before another transaction
publishes one and commit after it (`contracts.py`:159); the run has this for its
application.  `SlowRebuild` are those that may be deleted between the reading and the
commit of a rebuild; it is empty in the run.  Fairness: the workers go on.

The run shows that the status matches the runs, that a failure carries a code of its
stage, that a first assessment which the list offers to start is accepted
(`OfferedStartAccepted`), that nothing is published for an application that is over,
and that screening ends.  `OfferedStartAccepted` is about the applications that a
publication did not see: they wait beside a usable profile, nothing wakes them,
and a person is their only way out.  A code that a failed release has left offers
the start too, and goes on to do so while a run that an administrator took up is at
work; the command then refuses, and the property leaves these states out.

**Finding** `finding_stale_republish`.  When a resume is rebuilt, an application whose
scoring failed in the publishing step is queued through `retry_scoring`, which
copies the artifacts of the failed run; they were made from the old resume, and
their input hash does not contain it.  The old score is published although the
docstring of the rebuild says that the application is scored again.

Hard screening has no `blocked` end: its one activity falls back
(`hard_screening_activity_service.py`:113-116, `activity_runner.py`:423-429), so that the branches for
a blocked step (`hard_screening_workflow.py`:68-73, `hard_screening_service.py`:752) are not
reached.  A step that raises is recorded as `RuntimeError`
(`step_runner.py`:399-403, 524-533), which `hard_screening_service.py`:739-747 takes for none of its
own codes: the codes for a resume or a policy in need of repair come of
the reasons of a review only (lines 664-690), other than the comment at line 560 has it.

### Proofs

Every action but three writes the row of one application, so the invariant of
`ScreeningProofs` is one of rows.  `Sound(p)` is about a row alone: `RunsFit` (a
blocked scoring has frozen nothing, no scoring before hard screening is over, no
repair before the interviews), `StageFits` and `CodeFits` (the two properties
for one row).  A code of a failed release comes with a usable profile.  For
applications outside `SlowRebuild`, `Stopped` says that the scoring of a deleted one
does not come past its freezing step.  `Fits(a, p,
q)` is what a step that writes row q over p has to show: there is one lemma for
each action, and `Writes` and `WritesAll` put the rows together.

| Theorem | Statement |
|---|---|
| `Invariant` | `Spec => []IInv`, with `TypeOK` |
| `StagesHaveRuns` | `Spec => []StageHasRun` |
| `FailuresAreExplained` | `Spec => []FailureIsExplained` |
| `OfferedStartsAreAccepted` | `Spec => []OfferedStartAccepted` |
| `NothingComesTooLate` | if `SlowRebuild = {}`: `Spec => NothingPublishedWhenOver` |

The first four hold for every number of applications, profiles and resumes and
whatever overtakes what.  The condition of the last is needed: a rebuild that read
an application before it was deleted, and that commits afterwards, queues a run that
publishes a V1 for it, in the model as in the code.

**Known limitation.**  An application that is routed while a profile is published
waits for a release that has happened.  Only the offer above gets it going.

## 7. Interviews

`Interviews` follows one application from its first review to the offer.
`plan` and `planning` are the plan of the first interview and its run;
`screening` is the latest V1 and whether a run is repairing it; `round[r]` has
the interview, the scoring run and the version of each of the two rounds;
`tasks` are the open tasks, `recovery` what the application shows of a failure.

| Action | Code |
|---|---|
| `ApproveFirst`, `RequestPlanning`, `ConfirmPlan`, `ContinueManually` | `interviews/commands` for the first plan |
| `PlanIsDrafted`, `PlanIsPublished`, `PlanStops` | the planning workflow |
| `Finish`, `Submit(r)`, `ApproveSecond`, `Decide` | ending an interview, feedback, decisions |
| `Freeze(r)`, `Compute(r)`, `Publish(r)`, `Fails(r)`, `IsBlocked(r)` | the post-interview scoring workflow |
| `Recalculate(r)` | `PostInterviewRecalculation`, which starts from the step that failed or from the beginning if feedback or source have changed |
| `AdminRetriesPlanning`, `AdminRetries(r)`, `AdminResumes(r)` | what an administrator runs again |
| `RebuildScreening`, `RebuildEnds` | the repair of V1 as the source of V2 |

Bounds (`MaxVersion` 2, `MaxRequests` 1, `MaxInterventions` 2): a V1 can be
repaired once, so that a source may be old or new; a person asks once and an
administrator acts twice, the shortest sequences in which a late run meets a
later one.  The run `interviews` shows that somebody is always told, that a
recalculation reads the latest feedback and no source found unusable,
that what is shown of an interview follows its run, and that a confirmed plan
stays.

`RepairedSourceIsRead` says when the source may be read that was found
unusable.  `screening.condemned` is the last V1 of which a run for V2 said
so, `screening.forgotten` that the second round has taken the recovery code with
this request away: `Submit("second")` clears the one recovery code of the
application whatever it is about (`interview_workflow_request_commands.py`:194),
and a failure of V3 writes its own over it (`transitions.py`:132).  After that
`_ensure_source_repair_ready` finds nothing to wait for, and
`Recalculate("first")` reads the unusable V1 again.  The other way is an
administrator who runs the failed run again (`AdminRetries`, which resets
`condemned`).  In all other states, those of the second round included, the property
holds.  Closed applications are left out because nothing is scored for them.

Abstractions.  `Freeze` merges what the handler reads
(`post_interview_runtime.py`:335) with the commit of its step (366): a command that
commits in between counts as one that comes after the step.  The key under which
a version is published has hashes of its source and feedback besides the request
(`post_interview_assessment_publisher.py`:56-74); both are functions of what the model's key has.

### Proofs

None of the properties is inductive.  `IInv` in `InterviewsProofs` is the
conjunction of

* `Typed`, and `Stages`: which rounds nothing has happened in yet at each status,
  and that a confirmed plan belongs to a status behind the planning;
* `SomebodyIsTold`, with `VersionsAreTold`: a version of a round has made the task of
  the decision that follows it;
* `RoundFits(r)`: an interview follows its run, versions are counted;
* `FeedbackFits(r)`: a run that no administrator has started is of the latest
  feedback, and its request has no version while it is under way.  Without
  the second half the step that publishes could publish a request twice;
* `SourcesFit`: as long as it is not forgotten, a V1 that was found unusable is
  behind the latest one, unless the recovery code of the first round asks for a
  newer; and a run that is under way, or that may go on where it stopped, has not
  read it.  What is forgotten is forgotten in the second round, and no code asks
  for a newer V1 then.  This connects the recovery code, the record of the V1 and
  the run that was stopped, which three different actions write;
* `FailureIsExplained`: a run that stops leaves a code.

The proof goes by kinds of step (`PlanningKeeps`, `ScreeningKeeps`, `StageKeeps`,
`RunKeeps`): each says which variables a kind changes and what it has to show
of them, so that an action proves only that.

| Theorem | Statement |
|---|---|
| `InterviewsTypeCorrect` | `Spec => []TypeOK` |
| `SomebodyIsAlwaysTold` | `Spec => []SomebodyIsTold` |
| `FailuresAreExplained` | `Spec => []FailureIsExplained` (no run lists it) |
| `UnusableSourceIsLeft` | `Spec => []RepairedSourceIsRead` |
| `LatestFeedbackIsScored` | `Spec => []ScoresLatestFeedback` |
| `InterviewIsShownAsItIs` | `Spec => []InterviewFollowsRun` |
| `PlanIsKept` | `Spec => ConfirmedPlanStays` |

They hold for every number of repairs, requests and interventions.

**Known limitations.**

* The second round makes the application forget that a V1 was found unusable
  for the first (`screening.forgotten`, above).
* The failure of V3 is forgotten when V2 is made again as its source and fails:
  `interviews/workflows/transitions.py`:132 overwrites the recovery code, against the
  docstring at `application_recovery.py`:245.  `FailureIsExplained` is therefore about
  the first round, and `SomebodyIsTold` has the form it has because of this.

## 8. Resumes: from the upload to the application

`ResumeIntake` has the rows of submissions, candidates and applications to one
job.  A submission carries its import run and its routing run.

| Action | Code |
|---|---|
| `Upload`, `Replace`, `Reparse`, `Correct`, `Republish` | the ways to a new submission (`document_upload_service`, `intake_service`, `replacement_service`, `rebuild_service`) |
| `ImportParses` ... `ImportPublishes`, `ImportRepublishes`, `ImportFails`, `ImportIsBlocked` | the resume import workflow with its identity match |
| `RoutingMatches`, `RoutingPublishes`, `RoutingIsRetried`, `RoutingFails`, `RoutingIsBlocked` | the routing workflow; before each repetition of a step `handle_candidate_routing_transition` writes over the outcome |
| `RetryRouting`, `AdminRetriesRouting`, `SelectJobs` | retries and manual selection |
| `Discard`, `Adopt` | the decision about a duplicate |
| `Archive` | `CandidateDeletionService` |

`Offered` is what the read model offers (`resume_recovery_plan`,
`_available_action_codes`), `Possible` what the commands accept.

The run `resume_intake` has two candidates and three submissions: an upload that
matches the other candidate, or one resume with two later versions that
overtake it.  One candidate may be archived.  Candidates are symmetric.

### Proofs

| Theorem | Statement |
|---|---|
| `IntakeTypeCorrect` | `Spec => []TypeOK` |
| `ProcessingIsWorkedOn` | `Spec => []ProcessingHasRun` |
| `ReferencesStayAgreed` | `Spec => []ReferencesAgree` |
| `OffersCanBeTaken` | `Spec => []OfferedIsPossible` |

The invariant is `TypeOK /\ Rows /\ Owners /\ Links /\ ReferencesAgree /\
ProcessingHasRun`.  `Rows` is about one submission: an import at work shows as
such, what has a routing run is published, what is under identity review is a
first upload.  `Owners` says that owners exist and that a candidate has at most one fresh
upload (its first, unpublished), without which discarding one could take a
profile away.  `Links` says that a profile that is being routed belongs to the
candidate and is published.  The proof goes by kinds of step rather than by
action: `RowMoves` and `RowStarts` (one submission changes), `ProfileMoves`
(pointers move on), `Discarded`, `Adopted`, `Archived`.
`OffersCanBeTaken` adds `Tells`: the statuses of a
submission from which the list makes its offers determine what a command will
find (`Told`), and who is matched, or owns a completed submission, has a profile
(`Known`).

**Known limitations.**

* An archived candidate can get an application again: the manual selection
  (`intake_service.py`:972), a reparse and an adoption do not ask whether it is
  archived.
* An ambiguous duplicate can only be discarded: `merge_into_candidate` and
  `create_new_candidate` always answer 409 (`intake_service.py`:328), which is
  why `OfferedIsPossible` leaves `resolve` out.
* An older import or routing that ends late takes the pointers of the candidate
  back to its own submission; `ReferencesAgree` holds, being the latest does not.
* A reparse, replacement or correction of a submission under duplicate review
  goes round the decision about its identity; replacing a duplicate does not
  look again at the recruitment that has begun since.
* Selecting jobs for a submission under structure review completes it without a profile.
* A manual selection is overwritten by a routing that fails later.
* An administrator who resumes an import or routing blocked in an activity gets
  it blocked again (section 4); in the model this is a stutter.

## 9. Job profiles

`JobProfiles` has the versions of one job's description.  A version has the run
that compiles its profile, in three steps (freeze, compile, ready), what an administrator finds of
earlier runs (`failed`, `blocked`), the last revision that was compiled and the
one that was asked for.  `routing` and `application` are candidates who are matched
with the newest version.

| Action | Code |
|---|---|
| `Edit`, `Import` | `freeze_version` of `job_profile_service` from an edit of the job or a confirmed draft: a known text finds its version again |
| `RetryProfile`, `RegenerateProfile`, `ImportAgain`, `RecoverProfileOf` | the beginning of `request_profile_run`, `_update_requisition` and `recover_job_profile`: the version is read |
| `FindsRun` | `WorkflowQueue.active_run`: the active run is found, or none, without a lock |
| `CommandEnds` | the commit of such a command: columns that have changed are written, a new run is inserted or clashes with the unique index |
| `ProfileFreezes`, `ProfileCompiles`, `ProfileIsBlocked`, `ProfileBecomesReady`, `ProfileFails` | the job profile workflow; the last but one releases the waiting applications |
| `AdminRetriesProfile`, `AdminResumesProfile` | `operations_service` |
| `RoutingFreezes`, `RoutingReads`, `RoutingCommits` | matching a candidate, which reads and writes in different transactions |
| `RetryAssessment`, `DeleteJob` | the retry of a failed release, the deletion |

A command that wants another run takes three steps, since it locks neither
the version nor the run (`queue.py`:122-139, `job_profile_service.py`:117-137,
334-348): runs may begin, end and be taken up between them.  `JobLocked` is the lock on the
job that commands of the router hold from the beginning and a confirmation once it
has written; a recovery that is asked for by an application takes none.  A
command that marks a version for a run which has ended by then makes it
`overtaken`.  The transactions of the workers are single steps: each reads the
version and writes it in one short projection.  The model does not show a
projection that is itself overtaken between its read and its write.

In the run `jobs_commands` this model has two versions of one text (one from an
import, one from an edit), two revisions, two runs that people ask for again and one
candidate: the smallest instance in which a command of one asker finds the run of another,
a retry uses a revision again, and two runs were taken up for one version.  Fairness:
runs of the versions go on.  It shows

* `LostWorkIsFound`: a version that shows as being worked on and has no run has a
  profile, or an administrator finds a run of it to take up.  Such versions do
  occur, see below;
* `RetryIsAccepted`: where a version failed or waits for a person, and no command
  was overtaken, the retry that the list offers is accepted;
* `RunsAnswerWaiters`: a run leads to an answer for the candidate who waits for its
  version: the assessment begins, or there is a profile beside which the
  application can be started by a person (section 6), or the version shows that
  it has failed or needs a person.

### Proofs

In `JobsProofs`, `NoWorkIsLost` (`ProfileSpec => []LostWorkIsFound`),
`OfferedRetryAccepted` (`ProfileSpec => []RetryIsAccepted`) and `ProfilesTypeCorrect`
are proved for any number of texts, versions, candidates and repetitions.
`Sound(p)` is the invariant of a version.  `Counted` and `Backed` hold of every one: a
version without an active run that shows as worked on has left a run or a profile
behind.  `Shown` (queued means a run is active), `Repairable` (a code that offers a
retry names a revision that exists) and `Followed` (a run that may get to the last step
compiles the revision that the version refers to) hold of those that are not
`overtaken`.  `Prepared(c)` is what a command carries from one step to the next: the run
that it will create.  Each action changes one version or one command, so the proof has one
lemma per kind of change.  `RunsAnswerWaiters` is only model-checked, being liveness.

**Known limitations.**

* A command that finds an active run, and commits after that run has failed, leaves the
  version `queued` without a run.  Nobody works on it until an administrator takes up the run that
  failed or another import asks for it: the list offers no retry, and an application that waits
  for the version gets no answer.  This is why `RunsAnswerWaiters` speaks of versions with a run.
  A retry that is offered for such a version later may be refused.
* `regenerate` of a ready profile always raises `ValueError`, and so does the retry that
  the list offers for a version that is ready and whose profile is not
  (`management_read_models.py`:656-663); `RetryIsAccepted` is about the stored
  statuses only.  The retry of the last step alone is never offered.
* An administrator's retry of a run whose version has failed always fails in the
  first step and overwrites the code that offered a cheaper retry; on a version
  that is ready or under review the failure cannot be recorded and the run
  starts over until its budget is used up.
* After A, B, A the old version of A is used again, while routing, list and retry
  take the newest by number: the job is matched by B.
* An application that waits for an older version that has failed stays
  (`applications/contracts.py`:348).
* An application that is created while the profile is being published waits for
  a release that has happened (section 6).
* Overwriting a job with the same text and new hard-screening rules changes the
  frozen description and does not compile the profile again; the hash of an edit
  (of the payload) differs from the hash of an import (of the text).

## 10. Job import

`JobImport` has documents, their drafts (one for each row of a spreadsheet) and the requisitions of
one position.  `confirming` is a confirmation under way: it has read the existing
requisitions, has looked for one to use again, and has not yet written.

| Action | Code |
|---|---|
| `Upload`, `ImportExtracts`, `ImportClassifies`, `ImportPublishes`, `ImportWaits`, `ImportFails`, `ImportIsBlocked` | the job document import workflow |
| `RetryImport`, `RepairImport`, `AdminRetriesImport`, `AdminResumesImport` | retries |
| `UpdateDraft`, `DeleteDraft` | checking the drafts; `Refreshed`, `Resolved` and `Synced` are the refreshing of duplicates and of the status that every change ends with |
| `ConfirmReads`, `ConfirmLooks`, `ConfirmWrites` | `confirm`: what there is of the position, the second look of `_create_or_reuse_job` or `_update_requisition`, the writing and the commit |
| `AdminUpdatesJob`, `DeleteJob` | the lifecycle of a requisition |

In the run `jobs_commands` this model has one document of two rows about the
position, which may be a new requisition, a duplicate within the document or one of
a requisition that is there.  It shows that an import does not stay at work for ever
(`ImportSettles`), over retries, repairs, an administrator's runs and confirmations;
it assumes that runs go on and confirmations commit.  It is only model-checked.

**Finding** `finding_two_requisitions`.  `_create_or_reuse_job` looks for a requisition of the
position that is open or being set up, without a lock, and creates one if there is
none.  The comment (`job_document_service.py`:497-499) says that this keeps several
requisitions of one title and department from being created; the index
`uq_jobs_one_open_per_position` only refuses a second open one.  With two documents whose
drafts are confirmed at the same time, and a position that is there from a requisition
since deleted, both confirmations create one (`NoSecondRequisition`).  If the
position is new as well, its unique key makes the second wait for the first, whose
requisition it then finds (`PositionIsLocked`).

**Known limitations.**

* An application can be created for a job that is deleted between the reading
  and the commit.
* `confirm` without an explicit choice raises 409 once a draft has been skipped.
* Failures of the publishing step carry a code with which a retry is refused
  (`job_extraction_artifact_missing`).
* An import that an administrator resumes after its drafts were confirmed goes
  back to `review_required`; a repair or retry during the review makes the pending
  drafts unreachable.
* Changing the title of a job leaves its `position_id`, so that a duplicate by
  title is not found.

## 11. What the assessments compute

`Screening` and `Interviews` have the runs of the assessments and let a step end in any way.
Four modules have what those steps do.  `HardScreening` is hard screening alone, with the
policies of a job, what a resume says of each rule and what a model says of it.
`FirstScoring` computes V1 from what a model says of projects and of pairs of a
capability and a piece of evidence.  `TopologyScoring` is a round after an
interview: it judges the units of the feedback against the anchors of a frozen
graph and passes the changes up.  `ScoreRules` has the formulas that the last two
share.  Scores are integers of 1/10000, rounded down at each operation, where the
code has floating point and rounds at the end.  Where the code sorts scores and takes
from the front, `ScoreRules` has the highest one (`Top`, `Best`) and all but that
one (`Others`): of equal scores any may come first, which no result depends on.

Two proofs of a capability overlap if they share a unit of work or, being claims, are
of one statement of the resume (`Footprint`, `StatementOf`).  The anchors of a round
have two orders: the place in the lists of the result they are read from (`ListPlace`), which
decides between several candidates for one link, and the ordinal of the stored node,
which follows the ids (`Ordinal`).  A claim is linked to pairs of its kind of evidence only
(`ClaimLinks`).  `Recommended` and `Level` are what the score alone says: a critical gap or
a failed hard screening lowers the recommendation at presentation, which is left out.
A policy is bound to an application once, in the code and in the model (see the
limitations), so that no result is ever reviewed under another one.  `TailIsSeparated` says
how wide a gap below the projects that stay must be; if several are wide enough, it
does not say at which of them the tail begins.

| Action | Code |
|---|---|
| `SavePolicy`, `RepairResume`, `Enqueue` | `save_policy`, `apply_candidate_resume_rebuild`, `enqueue_initial_assessment` |
| `Freeze`, `Evaluate`, `ModelFails`, `PublishHard`, `Fail` | the three steps of hard screening, the fallback of `HardScreeningActivityService` after the last attempt, `record_processing_failure` |
| `Retry`, `AdminRetry`, `Review` | `retry_for_application` with `_enqueue_publish_only_retry`, the administrator's retry, `review` |
| `ExtractCapabilities`, `AssessProject`, `SkipProject`, `ProjectExhausted`, `AssembleExperience`, `ScorePairs`, `AssembleJob`, `PublishFirst` | the steps of the scoring workflow; each project and each batch of pairs is an activity that answers in part, fully or not at all |
| `Load`, `Parse`, `Ask`, `Repair`, `AskRaises`, `NextSide`, `EndEvaluation` | loading the graph, parsing the feedback, the requests of `evaluate_anchor_batch` and the coverage check |
| `Select`, `Score`, `PublishRound` | `select_non_overlapping_anchors`, `apply_updates_and_aggregate`, `persist_successor` |

The run `assessment` looks at one of the three at a time (`which` in `MCAssessment`).  Hard
screening has a rule for a degree, one for a word, one that a model
judges and one from an older policy whose value nothing can be compared with, in two
policies, with resumes that tell, do not tell or leave a section out.  The first
scoring has four projects (one with two units of work and one with none), two claims of
one statement and a required and a preferred unit of the job.  The round has twelve anchors: two
frameworks, a project, a claim with its pair and both units of the job, in an
order in which children come before their parents, with two units of feedback, so
that two units may meet on one path.  These are the smallest instances in which a
tail of projects can be separated, proofs of one capability can overlap, and an
anchor can be hidden by one two levels above.

The run shows that nobody is rejected without a rule shown to be broken and nobody
passes without every rule shown to be met (`RejectionHasGrounds`), that the
application and its published result agree over retries and reviews
(`ConclusionMatchesRules`), that work is counted once in a capability
(`ProofsAreIndependent`), that only a separate tail of fully assessed projects is
removed (`TailIsSeparated`), that nothing is scored before every judgement is there
(`MatrixIsComplete`), that feedback counts once on a path (`PathsCountOnce`), and
that a score changes by no more than its feedback accounts for and in its
direction (`ChangesAreAccounted`, `DirectionKept`).

**Finding** `finding_hard_publish`.  When the publishing step of hard screening has failed, the retry
copies the checkpoints of the two steps before it.  `mark_workflow_running`, which the first
one calls, does not run again, so that the application is still
`hard_screening_pending` when `complete_workflow` demands
`hard_screening_running` (`hard_screening_service.py`:463, 620): this retry, and each
further one, fails.

### Proofs

`AssessmentProofs` proves, for all rules, policies, resumes, projects, capabilities,
anchors, units of feedback, answers of the models and numbers of attempts:

| Theorem | Statement |
|---|---|
| `HardTypeCorrect` | `HardSpec => []HardTypeOK` |
| `RejectionAlwaysHasGrounds` | `HardSpec => []RejectionHasGrounds` |
| `ConclusionAlwaysMatches` | `HardSpec => []ConclusionMatchesRules` |
| `FirstTypeCorrect` | `FirstSpec => []FirstTyped` |
| `TailAlwaysSeparated` | `FirstSpec => []TailIsSeparated` |
| `ProofsAlwaysIndependent` | `FirstSpec => []ProofsAreIndependent` |
| `RoundTypeCorrect` | `RoundSpec => []TypeOK` |
| `PathsCountOnceAlways` | `RoundSpec => []PathsCountOnce` |
| `MatrixIsAlwaysComplete` | `RoundSpec => []MatrixIsComplete` |
| `ChangesAlwaysAccounted` | `RoundSpec => []ChangesAreAccounted` |
| `DirectionAlwaysKept` | `RoundSpec => []DirectionKept` |

`HardInv` is the type invariant with `Sound` (the verdicts of the latest run and of the one
that failed rest on what there is to show) and `Agreed` (one policy is bound to the
application for good; a run is active exactly while the application waits for it; a
result that is still open is one that nobody could conclude).  `Agreed` is what
`ConclusionMatchesRules` needs: a review answers the questions of the bound policy's
result, and there is such a result only if it left questions.

`PathsCountOnce` rests on the order in which the selection takes the anchors.  An edge leads to
a higher rank (`EdgesRise`), so that whatever is above an ancestor is an ancestor
(`AncestorsOfAncestors`) and has fewer of them (`FewerAbove`): what has been taken
is never below what is still to come (`InOrder`).  A selection in any other
order would not have the property.

`TailIsSeparated` and `ProofsAreIndependent` are each made true by one step, and
nothing that they speak of changes afterwards.  `FirstTyped` is what that step needs of the
state: the types, and that a project has the units of its assessment exactly
when it was assessed.  The rest is about what the step computes.  There is a widest
gap (`FirstInOrder`: gaps are numbers on the scale, so that `CHOOSE` has something to choose), the
projects above it are those that stay, and whoever is below it is as far below each of
them as the gap is wide.  The three proofs are taken greedily, so that what is
left out overlaps one that was taken and is no better, or comes after three.

The rounds need `ScoresInv`: `Inv`, which says what is selected, the types of judgements and
base scores, and the two properties themselves.  What the scoring step computes is
`Changes`, a function that is defined by recursion over the graph.  As edges lead to a
higher rank, and there are four ranks, the equation of `Changes` has one solution
(`ChangesAre`), and whatever holds of an anchor when it holds of its children holds
of every one: the proofs take a counterexample of the lowest rank.  In the same way, what is
said of sums and means of scores takes a smallest set for which it fails.  With these:

* a fall is at most `MaxFall` where feedback is, and the mean over children is no
  lower than the lowest of them.  Whatever a child is charged to its parent is charged
  to, so that the account of a node covers that of each child, and the node's own
  feedback is charged to no child: else a unit would count twice on a path,
  which `PathsCountOnce` excludes (`AllInAccount`);
* praise makes every `Direct` a rise, hence every mean and every change one
  (`PraiseLifts`, `BlameLowers`), and the weights of the total and the thresholds
  of the recommendation grow with the scores (`AssessmentGrows`).

`RoundTypeCorrect` also bounds the calls of an activity: `CallsLeft`, which says that an
activity has calls left for as long as its round goes on, is what makes it inductive.

These theorems assume what `FirstScoringConstants` and `TopologyConstants` say: finitely many
indicators and anchors, ids of different kinds that differ, answers of the models
of the right types, and base scores on the scale.

**Known limitations.**

* A comment at `hard_screening_service.py`:425 says that a retry binds the latest enabled
  policy; the line before it does so only when the bound row is gone, which never
  happens.  `RepairedPolicyIsRead` states it and does not hold: a person who
  repairs a policy and retries (`ScreeningReviewScreen.tsx`:136 offers both in one) has the
  old one evaluated again.
* If the model answers for no project, an experience score of 0 is
  published like any other.
* A resume that is repaired during a review with the code `resume_source` cannot be
  screened again: that code allows no retry.

## 12. What is only model-checked

Liveness under fairness is out of the prover's reach: `QueuedRunSettles`,
`RunSettles`, `CommandsEnd`, `ScreeningEnds`, `RunsAnswerWaiters`,
`ImportSettles`.  Every other property of a passing run is a theorem.  The theorems with
a condition, which the run's instance satisfies, are `ExactlyOnce`, `Implementation` and
`SubjectLock` (section 3), `PublicationBacked`, `BlockExplained` and `ResultsStable`
(section 4), and `NothingComesTooLate` (section 6).  The properties that the code
does not have are in runs of their own, which are expected to find them violated:
`ScoresDemandedResume`, `SavedFilesExist`, `NoSecondRequisition` and
`RepeatedPublicationFits`.

## 13. Not modelled

`components` in `PROJECT.json` says of every part what is left out.  In short:

* The prompts of the models, the parsing and normalisation of their answers, and the
  structuring of resumes and job descriptions: what they lead to is an arbitrary
  member of a set.
* Accounts, organisation, sessions and permissions; they are single
  synchronous requests, and the other parts do not depend on their order.
* Read models (except where the actions they offer are compared with the
  commands), tasks, analytics, documents of applications, interview guides.
* The user interface and the bulk importer, which use the public API only.
* Migrations, configuration, logging and metrics.
