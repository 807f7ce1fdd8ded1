--------------------------- MODULE ActivityRunner ---------------------------
(***************************************************************************)
(* The activities of a step: external calls that are recorded, retried,    *)
(* degraded and reused one by one, so that a step that is executed again   *)
(* repeats only what has not succeeded yet                                 *)
(* (app/infrastructure/workflow_runtime/activity_runner.py).               *)
(*                                                                         *)
(* The model is of one run that has one step left, whose handler runs one  *)
(* batch of activities and reports the batch's status, as the handlers of  *)
(* the business workflows do.  An executor is a worker thread; what it     *)
(* does outside the batch (claiming, leases, the end of the step) is taken *)
(* from WorkflowRuntime and reduced to what a batch can notice of it.      *)
(***************************************************************************)
EXTENDS Naturals, WorkflowStatus

CONSTANTS
    NumActivities,  \* length of the batch
    Parallel,       \* run_many(parallel=...)
    PolicyOf,       \* [Activities -> exhaustion policy]
    MaxAttempts,    \* ActivityPolicy.max_attempts
    Executors,      \* worker threads
    Workers,        \* worker_ids
    NoWorker,       \* lease_owner IS NULL
    WorkerOf,       \* [Executors -> Workers]
    StepRetries,    \* how often the step itself may be retried
    Crashable,      \* the processes that may die
    Stalls          \* may a lease lapse although its executor lives?

Activities == 1..NumActivities
Policies == {"fail", "fallback", "block"}

ASSUME ActivityConstantsOK ==
    /\ NumActivities \in Nat \ {0}
    /\ Parallel \in BOOLEAN
    /\ PolicyOf \in [Activities -> Policies]
    /\ MaxAttempts \in Nat \ {0}
    /\ StepRetries \in Nat
    /\ WorkerOf \in [Executors -> Workers]
    /\ NoWorker \notin Workers
    /\ Crashable \subseteq Workers
    /\ Stalls \in BOOLEAN

VARIABLES
    status,    \* of the run; "completed" once the step is published
    owner,     \* lease_owner of the run
    quality,   \* what the step reported of the batch when it was published
    retries,   \* how often the step itself has been retried
    ckpt,      \* [Activities -> checkpoint status], "absent": no row
    attempts,  \* [Activities -> attempt_count]
    kind,      \* [Activities -> outcome_kind]
    waiting,   \* [Activities -> next_attempt_at > now]
    at,        \* [Executors -> "idle", "batch" (inside run_many), "dead"]
    act,       \* [Executors -> [Activities -> where _run_one is]]
    answer     \* [Executors -> [Activities -> status of its ActivityBatchResult]]

runVars      == <<status, owner, quality, retries>>
ckptVars     == <<ckpt, attempts, kind, waiting>>
executorVars == <<at, act, answer>>
activityVars         == <<runVars, ckptVars, executorVars>>

Usable  == {"completed", "degraded"}
Kinds   == Usable \cup {"blocked"}
Answers == Kinds \cup {"retry_wait", "failed"}
\* Where _run_one can be: outside the handler, every place is the gap before
\* one transaction.  "raised": an exception has left _run_one.
Places  == {"todo", "handler", "persist", "failing_retryable", "failing_final",
            "failing_degradable", "resolve", "give_up", "done", "raised"}
Todo    == [a \in Activities |-> "todo"]
NoAnswer == [a \in Activities |-> "none"]

\* The counter of attempts stops here: nothing tells larger values apart.
AttemptCap == MaxAttempts + 1

ActivityTypeOK ==
    /\ status \in RunStatus
    /\ owner \in Workers \cup {NoWorker}
    /\ quality \in Usable \cup {"none"}
    /\ retries \in 0..StepRetries
    /\ ckpt \in [Activities -> ActivityStatus \cup {"absent"}]
    /\ attempts \in [Activities -> 0 .. AttemptCap]
    /\ kind \in [Activities -> Kinds \cup {"none"}]
    /\ waiting \in [Activities -> BOOLEAN]
    /\ at \in [Executors -> {"idle", "batch", "dead"}]
    /\ act \in [Executors -> [Activities -> Places]]
    /\ answer \in [Executors -> [Activities -> Answers \cup {"none"}]]

-----------------------------------------------------------------------------

\* _require_owned_run passes.
Owned(e) == status = "running" /\ owner = WorkerOf[e]

Place(e, a, place) == act' = [act EXCEPT ![e][a] = place]

\* _run_one returns a result with this status.
Answer(e, a, result) ==
    /\ Place(e, a, "done")
    /\ answer' = [answer EXCEPT ![e][a] = result]

\* Everything an executor remembers of a batch is gone.
Forget(e) ==
    /\ act' = [act EXCEPT ![e] = Todo]
    /\ answer' = [answer EXCEPT ![e] = NoAnswer]

\* One after the other, unless the batch is parallel.
MayBegin(e, a) ==
    /\ at[e] = "batch" /\ act[e][a] = "todo"
    /\ Parallel \/ \A b \in Activities : b < a => act[e][b] = "done"

-----------------------------------------------------------------------------
(* Around the batch: claims, takeovers, crashes, people. *)

\* Mutant: a running run is claimed whatever its lease.
ClaimAnyLease(e) ==
    /\ at[e] = "idle" /\ status \in {"pending", "running"}
    /\ status' = "running"
    /\ owner' = WorkerOf[e]
    /\ at' = [at EXCEPT ![e] = "batch"]
    /\ Forget(e)
    /\ UNCHANGED <<quality, retries, ckptVars>>

\* The run is claimed, or taken over from an executor whose lease has run out,
\* and the step's handler enters run_many.
Claim(e) ==
    /\ at[e] = "idle"
    /\ \/ status = "pending"
       \/ /\ status = "running"
          /\ Stalls \/ \A d \in Executors : at[d] = "batch" => WorkerOf[d] # owner
    /\ status' = "running"
    /\ owner' = WorkerOf[e]
    /\ at' = [at EXCEPT ![e] = "batch"]
    /\ Forget(e)
    /\ UNCHANGED <<quality, retries, ckptVars>>

\* An administrator resumes the blocked run.
Resume ==
    /\ status = "blocked"
    /\ status' = "pending"
    /\ UNCHANGED <<owner, quality, retries, ckptVars, executorVars>>

Cancel ==
    /\ status \in {"pending", "running"}
    /\ status' = "cancelled"
    /\ owner' = NoWorker
    /\ UNCHANGED <<quality, retries, ckptVars, executorVars>>

Crash(w) ==
    /\ w \in Crashable
    /\ \E e \in Executors : WorkerOf[e] = w /\ at[e] # "dead"
    /\ at' = [e \in Executors |-> IF WorkerOf[e] = w THEN "dead" ELSE at[e]]
    /\ act' = [e \in Executors |-> IF WorkerOf[e] = w THEN Todo ELSE act[e]]
    /\ answer' = [e \in Executors |-> IF WorkerOf[e] = w THEN NoAnswer ELSE answer[e]]
    /\ UNCHANGED <<runVars, ckptVars>>

\* The delay of an activity is over.
BecomeDue(a) ==
    /\ waiting[a]
    /\ waiting' = [waiting EXCEPT ![a] = FALSE]
    /\ UNCHANGED <<runVars, ckpt, attempts, kind, executorVars>>

-----------------------------------------------------------------------------
(* _run_one. *)

\* The activity has ended before: its result or its failure is reported again.
Reuse(e, a) ==
    /\ MayBegin(e, a) /\ Owned(e)
    /\ ckpt[a] \in {"succeeded", "failed"}
    /\ Answer(e, a, IF ckpt[a] = "succeeded" THEN kind[a] ELSE "failed")
    /\ UNCHANGED <<runVars, ckptVars, at>>

\* Its next attempt is not due yet.
StillWaiting(e, a) ==
    /\ MayBegin(e, a) /\ Owned(e)
    /\ ckpt[a] \notin {"succeeded", "failed"} /\ waiting[a]
    /\ Answer(e, a, "retry_wait")
    /\ UNCHANGED <<runVars, ckptVars, at>>

\* Mutant: the attempt is not counted.
BeginUncounted(e, a) ==
    /\ MayBegin(e, a) /\ Owned(e)
    /\ ckpt[a] \notin {"succeeded", "failed"} /\ ~waiting[a]
    /\ ckpt' = [ckpt EXCEPT ![a] = "running"]
    /\ Place(e, a, "handler")
    /\ UNCHANGED <<runVars, attempts, kind, waiting, at, answer>>

\* A new attempt, also when a crash has left the checkpoint "running".
Begin(e, a) ==
    /\ MayBegin(e, a) /\ Owned(e)
    /\ ckpt[a] \notin {"succeeded", "failed"} /\ ~waiting[a]
    /\ ckpt' = [ckpt EXCEPT ![a] = "running"]
    /\ attempts' = [attempts EXCEPT ![a] = IF @ = AttemptCap THEN @ ELSE @ + 1]
    /\ Place(e, a, "handler")
    /\ UNCHANGED <<runVars, kind, waiting, at, answer>>

\* Any of these transactions finds the lease lost, or fails: out of _run_one.
BeginRaises(e, a) ==
    /\ MayBegin(e, a)
    /\ Place(e, a, "raised")
    /\ UNCHANGED <<runVars, ckptVars, at, answer>>

\* The handler returns a payload, in full or marked degraded, and the payload
\* is staged in the object store.
HandlerReturns(e, a, k) ==
    /\ act[e][a] = "handler"
    /\ Place(e, a, "persist")
    /\ answer' = [answer EXCEPT ![e][a] = k]
    /\ UNCHANGED <<runVars, ckptVars, at>>

\* The handler or the staging raises: a retryable error, one that can_degrade
\* accepts, or neither.  (A retryable one may also be degradable.)
HandlerRaises(e, a, place) ==
    /\ act[e][a] = "handler"
    /\ Place(e, a, place)
    /\ UNCHANGED <<runVars, ckptVars, at, answer>>

\* _persist_resolution: artifact, checkpoint and outcome in one transaction.
Store(e, a) ==
    /\ Owned(e) /\ ActivityMayMove(ckpt[a], "succeeded")
    /\ ckpt' = [ckpt EXCEPT ![a] = "succeeded"]
    /\ kind' = [kind EXCEPT ![a] = answer[e][a]]
    /\ waiting' = [waiting EXCEPT ![a] = FALSE]
    /\ Place(e, a, "done")
    /\ UNCHANGED <<runVars, attempts, at, answer>>

Persist(e, a) == act[e][a] = "persist" /\ Store(e, a)

\* It raises (lease lost, illegal move, database): an error like any other
\* that the handler might have raised, but neither retryable nor degradable.
PersistRaises(e, a) ==
    /\ act[e][a] = "persist"
    /\ Place(e, a, "failing_final")
    /\ answer' = [answer EXCEPT ![e][a] = "none"]
    /\ UNCHANGED <<runVars, ckptVars, at>>

-----------------------------------------------------------------------------
(* _record_failure. *)

Failing == {"failing_retryable", "failing_final", "failing_degradable"}

HasAttemptLeft(a) == attempts[a] < MaxAttempts

RetryLater(e, a) ==
    /\ act[e][a] = "failing_retryable" /\ Owned(e)
    /\ HasAttemptLeft(a)
    /\ ActivityMayMove(ckpt[a], "retry_wait")
    /\ ckpt' = [ckpt EXCEPT ![a] = "retry_wait"]
    /\ waiting' = [waiting EXCEPT ![a] = TRUE]
    /\ kind' = [kind EXCEPT ![a] = "none"]
    /\ Answer(e, a, "retry_wait")
    /\ UNCHANGED <<runVars, attempts, at>>

NoRetry(e, a) ==
    /\ act[e][a] \in Failing /\ Owned(e)
    /\ act[e][a] = "failing_retryable" => ~HasAttemptLeft(a)

\* The domain has a way out for this error.
TakeWayOut(e, a) ==
    /\ NoRetry(e, a)
    /\ PolicyOf[a] # "fail" /\ act[e][a] # "failing_final"
    /\ Place(e, a, "resolve")
    /\ answer' = [answer EXCEPT ![e][a] =
                     IF PolicyOf[a] = "fallback" THEN "degraded" ELSE "blocked"]
    /\ UNCHANGED <<runVars, ckptVars, at>>

NoWayOut(e, a) ==
    /\ NoRetry(e, a)
    /\ PolicyOf[a] = "fail" \/ act[e][a] # "failing_degradable"
    /\ Place(e, a, "give_up")
    /\ UNCHANGED <<runVars, ckptVars, at, answer>>

Resolve(e, a) == act[e][a] = "resolve" /\ Store(e, a)

\* on_exhausted or the storing of its result raises.
ResolveRaises(e, a) ==
    /\ act[e][a] = "resolve"
    /\ Place(e, a, "give_up")
    /\ answer' = [answer EXCEPT ![e][a] = "none"]
    /\ UNCHANGED <<runVars, ckptVars, at>>

GiveActivityUp(e, a) ==
    /\ act[e][a] = "give_up" /\ Owned(e)
    /\ ActivityMayMove(ckpt[a], "failed")
    /\ ckpt' = [ckpt EXCEPT ![a] = "failed"]
    /\ waiting' = [waiting EXCEPT ![a] = FALSE]
    /\ kind' = [kind EXCEPT ![a] = "none"]
    /\ Answer(e, a, "failed")
    /\ UNCHANGED <<runVars, attempts, at>>

\* One of the transactions of _record_failure raises: lease lost, illegal
\* move, database.
FailureRaises(e, a) ==
    /\ act[e][a] \in Failing \cup {"give_up"}
    /\ Place(e, a, "raised")
    /\ answer' = [answer EXCEPT ![e][a] = "none"]
    /\ UNCHANGED <<runVars, ckptVars, at>>

-----------------------------------------------------------------------------
(* The end of the batch and of the step. *)

Raised(e) == \E a \in Activities : act[e][a] = "raised"

\* A sequential batch ends with the first exception, a parallel one waits for
\* all its threads.
BatchEnded(e) ==
    /\ at[e] = "batch"
    /\ \/ \A a \in Activities : act[e][a] \in {"done", "raised"}
       \/ ~Parallel /\ Raised(e)

\* Mutant: the last result speaks for the batch.
VerdictOfLast(e) == IF Raised(e) THEN "failed" ELSE answer[e][NumActivities]

\* run_many's status: that of the first activity that is not usable; an
\* exception is a failure of the step.
Verdict(e) ==
    LET unusable == {a \in Activities : answer[e][a] \notin Usable}
    IN  IF Raised(e) THEN "failed"
        ELSE IF unusable # {}
        THEN answer[e][CHOOSE a \in unusable : \A b \in unusable : a <= b]
        ELSE IF \E a \in Activities : answer[e][a] = "degraded" THEN "degraded"
        ELSE "completed"

RunStatusFor(verdict) ==
    CASE verdict \in Usable       -> "completed"
      [] verdict = "blocked"      -> "blocked"
      [] verdict = "retry_wait"   -> "pending"
      [] verdict = "failed"       -> "failed"

\* The step runner records an outcome of the step, if the run is still this
\* worker's: WorkflowRuntime's Publish and CompleteRun, BlockStep, DeferStep
\* and FailStep.
EndWith(e, verdict) ==
    /\ BatchEnded(e)
    /\ IF Owned(e)
       THEN /\ status' = RunStatusFor(verdict)
            /\ owner' = NoWorker
            /\ quality' = IF verdict \in Usable THEN verdict ELSE quality
       ELSE UNCHANGED <<status, owner, quality>>
    /\ at' = [at EXCEPT ![e] = "idle"]
    /\ Forget(e)
    /\ UNCHANGED ckptVars

\* The handler turns the status of the batch into its outcome.
EndStep(e) == EndWith(e, Verdict(e)) /\ UNCHANGED retries

\* The attempt has exceeded its time, or a retryable exception came out of
\* run_many: the step is retried whatever the batch has reached.
RetryStep(e) ==
    /\ Owned(e) /\ retries < StepRetries
    /\ EndWith(e, "retry_wait")
    /\ retries' = retries + 1

\* The step's own budgets are used up, or its publication raises.
FailStep(e) ==
    /\ Owned(e)
    /\ EndWith(e, "failed")
    /\ UNCHANGED retries

-----------------------------------------------------------------------------

\* No process has taken the step up yet.
Untouched ==
    /\ owner = NoWorker
    /\ quality = "none"
    /\ retries = 0
    /\ ckpt = [a \in Activities |-> "absent"]
    /\ attempts = [a \in Activities |-> 0]
    /\ kind = [a \in Activities |-> "none"]
    /\ waiting = [a \in Activities |-> FALSE]
    /\ at = [e \in Executors |-> "idle"]
    /\ act = [e \in Executors |-> Todo]
    /\ answer = [e \in Executors |-> NoAnswer]

ActivityInit == status = "pending" /\ Untouched

RunOne(e, a) ==
    \/ Reuse(e, a) \/ StillWaiting(e, a) \/ Begin(e, a) \/ BeginRaises(e, a)
    \/ \E k \in Usable : HandlerReturns(e, a, k)
    \/ \E place \in Failing : HandlerRaises(e, a, place)
    \/ Persist(e, a) \/ PersistRaises(e, a)
    \/ RetryLater(e, a) \/ TakeWayOut(e, a) \/ NoWayOut(e, a)
    \/ Resolve(e, a) \/ ResolveRaises(e, a)
    \/ GiveActivityUp(e, a) \/ FailureRaises(e, a)

End(e) == EndStep(e) \/ RetryStep(e) \/ FailStep(e)

ActivityNext ==
    \/ Resume \/ Cancel
    \/ \E w \in Workers : Crash(w)
    \/ \E a \in Activities : BecomeDue(a)
    \/ \E e \in Executors : \/ Claim(e) \/ End(e)
                            \/ \E a \in Activities : RunOne(e, a)

ActivitySpec == ActivityInit /\ [][ActivityNext]_activityVars

\* Executors go on, delays end, and a run that can be claimed is claimed.
ActivityFairness ==
    /\ \A e \in Executors :
          /\ WF_activityVars(End(e))
          /\ \A a \in Activities : WF_activityVars(RunOne(e, a))
    /\ \A a \in Activities : WF_activityVars(BecomeDue(a))
    /\ SF_activityVars(\E e \in Executors : Claim(e))

ActivityFairSpec == ActivitySpec /\ ActivityFairness

-----------------------------------------------------------------------------

\* A published step stands on results that exist: every activity has
\* succeeded with a usable outcome, and the quality the step reported is the
\* quality of what is stored (run_many's verdict against the checkpoints).
PublishedIsBacked ==
    status = "completed" =>
        /\ \A a \in Activities : ckpt[a] = "succeeded" /\ kind[a] \in Usable
        /\ quality = "degraded" <=> \E a \in Activities : kind[a] = "degraded"

\* A run is blocked only for an activity whose stored outcome says so; that is
\* what the person who is asked to act will be shown.
BlockedForAReason ==
    status = "blocked" => \E a \in Activities : kind[a] = "blocked"

\* An activity waits for another attempt only while it has one left, whatever
\* crashes and takeovers it went through.
RetryWithinBudget ==
    \A a \in Activities : ckpt[a] = "retry_wait" => attempts[a] < MaxAttempts

\* What an activity has ended with is never replaced: a retried step and a
\* late executor see the same result.
ResultIsStable ==
    [][\A a \in Activities : ckpt[a] \in {"succeeded", "failed"} =>
          ckpt'[a] = ckpt[a] /\ kind'[a] = kind[a]]_activityVars

\* The run ends or stops for a person, however its activities fail.
RunSettles ==
    status = "pending" ~> status \in TerminalRun \cup {"blocked"}
=============================================================================
