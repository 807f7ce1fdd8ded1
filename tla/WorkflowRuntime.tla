-------------------------- MODULE WorkflowRuntime --------------------------
(***************************************************************************)
(* The workflow runtime: the WorkflowRun queue in the database, the worker *)
(* processes that claim runs under a lease, the heartbeats that renew the  *)
(* lease, and the step runner that carries a run through its checkpoints.  *)
(*                                                                         *)
(* A worker is one process: one worker_id, drawn at start, shared by every *)
(* thread of its pool (run_forever).  A thread is one slot of that pool.   *)
(* Every database transaction is one action, since the code locks the      *)
(* WorkflowRun row first; whatever runs outside a transaction (the step    *)
(* handler, the gap between two transactions) is a gap between actions.    *)
(*                                                                         *)
(* Time is not a clock: a lease, a retry delay or a deadline is a flag, and *)
(* the passing of time is the action that turns it.                        *)
(***************************************************************************)
EXTENDS Naturals, WorkflowStatus

CONSTANTS
    Runs,           \* the WorkflowRun rows
    NoRun,          \* what an idle thread works on
    Workers,        \* worker_ids, one per process incarnation
    NoWorker,       \* lease_owner IS NULL
    Threads,        \* the pool slots of all the worker processes
    ProcessOf,      \* [Threads -> Workers]
    SubjectOf,      \* [Runs -> subject]: what _workflow_subject returns
    KindOf,         \* [Runs -> workflow_type]
    Supports,       \* [Workers -> SUBSET Runs]: runs whose definition_version
                    \* the process has in its registry
    NumSteps,       \* length of the step plan
    MaxAttempts,    \* StepPolicy.max_attempts
    MaxPolls,       \* StepPolicy.max_poll_attempts
    Stalls,         \* may a lease lapse although its heartbeat thread lives?
    Crashable,      \* the processes that may die
    InputFaults,    \* may a step's input_factory begin to raise?
    MaxTxFailures   \* bound on transactions that fail

Steps == 1..NumSteps

ASSUME ConstantsOK ==
    /\ NoRun \notin Runs
    /\ NoWorker \notin Workers
    /\ ProcessOf \in [Threads -> Workers]
    /\ Supports \in [Workers -> SUBSET Runs]
    /\ NumSteps \in Nat \ {0}
    /\ MaxAttempts \in Nat \ {0}
    /\ MaxPolls \in Nat \ {0}
    /\ Stalls \in BOOLEAN
    /\ Crashable \subseteq Workers
    /\ InputFaults \in BOOLEAN
    /\ MaxTxFailures \in Nat

VARIABLES
    status,      \* [Runs -> status], "absent" before the row exists
    owner,       \* [Runs -> lease_owner]
    lease,       \* [Runs -> is there a lease_expires_at, and has it passed]
    due,         \* [Runs -> available_at <= now]
    step,        \* [Runs -> [Steps -> checkpoint status]], "absent": no row
    attempts,    \* [Runs -> [Steps -> attempt_count]]
    polls,       \* [Runs -> [Steps -> poll_count]]
    overdue,     \* [Runs -> [Steps -> deadline_at <= now]]
    published,   \* [Runs -> [Steps -> committed persist_success calls]]
    pc,          \* [Threads -> where the thread is]
    job,         \* [Threads -> the run it processes]
    pos,         \* [Threads -> the step of run_plan's loop it is at]
    outcome,     \* [Threads -> what the handler returned]
    beating,     \* [Threads -> is the heartbeat thread alive]
    inputBroken, \* [Runs -> does input_factory raise from now on]
    txFailures   \* how many transactions have failed so far

runVars    == <<status, owner, lease, due>>
stepVars   == <<step, attempts, polls, overdue, published>>
threadVars == <<pc, job, pos, outcome, beating>>
faultVars  == <<inputBroken, txFailures>>
vars       == <<runVars, stepVars, threadVars, faultVars>>

Deferrals == {"retry_wait", "activity_retry_wait", "waiting_external"}
Outcomes  == {"succeeded", "blocked", "failed"} \cup Deferrals
Located   == {"claimed", "start", "handler", "finalize", "complete", "failing", "stopping"}
\* A thread that may still write the run it was given.
Working   == Located \ {"stopping"}

TypeOK ==
    /\ status \in [Runs -> RunStatus \cup {"absent"}]
    /\ owner \in [Runs -> Workers \cup {NoWorker}]
    /\ lease \in [Runs -> {"none", "live", "expired"}]
    /\ due \in [Runs -> BOOLEAN]
    /\ step \in [Runs -> [Steps -> StepStatus \cup {"absent"}]]
    /\ attempts \in [Runs -> [Steps -> 0 .. MaxAttempts + 1]]
    /\ polls \in [Runs -> [Steps -> Nat]]
    /\ overdue \in [Runs -> [Steps -> BOOLEAN]]
    /\ published \in [Runs -> [Steps -> 0..2]]
    /\ pc \in [Threads -> Located \cup {"idle", "dead"}]
    /\ job \in [Threads -> Runs \cup {NoRun}]
    /\ pos \in [Threads -> Steps]
    /\ outcome \in [Threads -> Outcomes \cup {"none"}]
    /\ beating \in [Threads -> BOOLEAN]
    /\ inputBroken \in [Runs -> BOOLEAN]
    /\ txFailures \in 0..MaxTxFailures
    /\ \A t \in Threads : pc[t] \in Located <=> job[t] \in Runs

-----------------------------------------------------------------------------
(* What the transactions read. *)

\* The partial unique index uq_workflow_active_subject_type would refuse r.
ActiveDuplicate(r) ==
    \E q \in Runs \ {r} : /\ KindOf[q] = KindOf[r]
                          /\ SubjectOf[q] = SubjectOf[r]
                          /\ status[q] \in {"pending", "running"}

\* Mutant: an expired lease is never taken over.
EligibleOnlyPending(r) == status[r] = "pending" /\ due[r]

Eligible(r) ==
    \/ status[r] = "pending" /\ due[r]
    \/ status[r] = "running" /\ lease[r] = "expired"

\* Another run of the subject is executing under a lease that has not expired.
ActiveSameSubject(r) ==
    \E q \in Runs \ {r} : /\ SubjectOf[q] = SubjectOf[r]
                          /\ status[q] = "running"
                          /\ lease[q] = "live"

\* require_owned_run passes: it looks at status and lease_owner only.
Owned(t) == status[job[t]] = "running" /\ owner[job[t]] = ProcessOf[t]

\* The first checkpoint, in step order, that is still open.
IsCurrent(r, s) ==
    /\ step[r][s] \in OpenStep
    /\ \A q \in Steps : step[r][q] \in OpenStep => s <= q

\* Saturating counters: the code only ever compares attempt_count with
\* max_attempts, and more than one publication is already one too many.
Bump(n, cap) == IF n < cap THEN n + 1 ELSE cap

-----------------------------------------------------------------------------
(* Shared effects. *)

MoveTo(t, place) == pc' = [pc EXCEPT ![t] = place]

\* lifecycle.mark_* / schedule_retry: the new status, and the lease released.
ReleaseTo(r, new) ==
    /\ status' = [status EXCEPT ![r] = new]
    /\ owner' = [owner EXCEPT ![r] = NoWorker]
    /\ lease' = [lease EXCEPT ![r] = "none"]

SetStep(r, s, new) == step' = [step EXCEPT ![r][s] = new]

CancelSteps(r) ==
    step' = [step EXCEPT ![r] =
                [s \in Steps |-> IF step[r][s] \in CancellableStep
                                 THEN "cancelled" ELSE step[r][s]]]

\* The thread leaves run_plan, with an exception or by returning: what it
\* knew of its step is gone.
Leave(t, place) ==
    /\ MoveTo(t, place)
    /\ pos' = [pos EXCEPT ![t] = 1]
    /\ outcome' = [outcome EXCEPT ![t] = "none"]
Raise(t)  == Leave(t, "failing")
Return(t) == Leave(t, "stopping")

\* run_plan goes on to the next definition, or leaves its loop.
Advance(t) ==
    /\ MoveTo(t, IF pos[t] < NumSteps THEN "start" ELSE "complete")
    /\ pos' = [pos EXCEPT ![t] = IF pos[t] < NumSteps THEN pos[t] + 1 ELSE pos[t]]
    /\ outcome' = [outcome EXCEPT ![t] = "none"]

-----------------------------------------------------------------------------
(* The queue and the people behind it. *)

\* WorkflowQueue.enqueue: a new row, unless the type is already active there.
Enqueue(r) ==
    /\ status[r] = "absent"
    /\ ~ActiveDuplicate(r)
    /\ status' = [status EXCEPT ![r] = "pending"]
    /\ due' = [due EXCEPT ![r] = TRUE]
    /\ UNCHANGED <<owner, lease, stepVars, threadVars, faultVars>>

\* An administrator lets a blocked run go on from its blocked checkpoint.
ResumeBlocked(r) ==
    /\ status[r] = "blocked"
    /\ ~ActiveDuplicate(r)
    /\ \E s \in Steps : step[r][s] = "blocked" /\ SetStep(r, s, "pending")
    /\ ReleaseTo(r, "pending")
    /\ due' = [due EXCEPT ![r] = TRUE]
    /\ UNCHANGED <<attempts, polls, overdue, published, threadVars, faultVars>>

\* Candidate deletion, or a recalculation that supersedes the run.
Cancel(r) ==
    /\ status[r] \in {"pending", "running"}
    /\ ReleaseTo(r, "cancelled")
    /\ due' = [due EXCEPT ![r] = TRUE]
    /\ CancelSteps(r)
    /\ UNCHANGED <<attempts, polls, overdue, published, threadVars, faultVars>>

\* Soft deletion of the application: one UPDATE of the runs, no checkpoint.
CancelRunOnly(r) ==
    /\ status[r] \in {"pending", "running"}
    /\ ReleaseTo(r, "cancelled")
    /\ UNCHANGED <<due, stepVars, threadVars, faultVars>>

-----------------------------------------------------------------------------
(* The passing of time, and what can go wrong. *)

BecomeDue(r) ==
    /\ status[r] = "pending" /\ ~due[r]
    /\ due' = [due EXCEPT ![r] = TRUE]
    /\ UNCHANGED <<status, owner, lease, stepVars, threadVars, faultVars>>

\* Nobody renews the lease any more: the executor died or has gone home.
LeaseRunsOut(r) ==
    /\ status[r] = "running" /\ lease[r] = "live"
    /\ ~\E t \in Threads : beating[t] /\ job[t] = r /\ ProcessOf[t] = owner[r]
    /\ lease' = [lease EXCEPT ![r] = "expired"]
    /\ UNCHANGED <<status, owner, due, stepVars, threadVars, faultVars>>

\* The heartbeat thread lives but is late: a paused process, a slow database.
LeaseLapses(r) ==
    /\ Stalls
    /\ status[r] = "running" /\ lease[r] = "live"
    /\ lease' = [lease EXCEPT ![r] = "expired"]
    /\ UNCHANGED <<status, owner, due, stepVars, threadVars, faultVars>>

PassDeadline(r, s) ==
    /\ step[r][s] \in CancellableStep
    /\ ~overdue[r][s]
    /\ overdue' = [overdue EXCEPT ![r][s] = TRUE]
    /\ UNCHANGED <<runVars, step, attempts, polls, published, threadVars, faultVars>>

\* What the input depends on is gone (the job was deleted, say).
BreakInput(r) ==
    /\ InputFaults /\ ~inputBroken[r]
    /\ inputBroken' = [inputBroken EXCEPT ![r] = TRUE]
    /\ UNCHANGED <<runVars, stepVars, threadVars, txFailures>>

Crash(w) ==
    /\ w \in Crashable
    /\ \E t \in Threads : ProcessOf[t] = w /\ pc[t] # "dead"
    /\ pc' = [t \in Threads |-> IF ProcessOf[t] = w THEN "dead" ELSE pc[t]]
    /\ job' = [t \in Threads |-> IF ProcessOf[t] = w THEN NoRun ELSE job[t]]
    /\ beating' = [t \in Threads |-> IF ProcessOf[t] = w THEN FALSE ELSE beating[t]]
    /\ pos' = [t \in Threads |-> IF ProcessOf[t] = w THEN 1 ELSE pos[t]]
    /\ outcome' = [t \in Threads |-> IF ProcessOf[t] = w THEN "none" ELSE outcome[t]]
    /\ UNCHANGED <<runVars, stepVars, faultVars>>

-----------------------------------------------------------------------------
(* The worker loop and the heartbeat. *)

\* claim_next_workflow_run: row lock, subject lock, re-check, _mark_claimed.
\* The pool has a free slot, so process_workflow_run starts its heartbeat.
Claim(t, r) ==
    /\ pc[t] = "idle"
    /\ r \in Supports[ProcessOf[t]]
    /\ Eligible(r)
    /\ ~ActiveSameSubject(r)
    /\ status' = [status EXCEPT ![r] = "running"]
    /\ owner' = [owner EXCEPT ![r] = ProcessOf[t]]
    /\ lease' = [lease EXCEPT ![r] = "live"]
    /\ MoveTo(t, "claimed")
    /\ job' = [job EXCEPT ![t] = r]
    /\ beating' = [beating EXCEPT ![t] = TRUE]
    /\ UNCHANGED <<due, stepVars, pos, outcome, faultVars>>

\* _retire_one_unsupported_definition: the deployed code has no such plan.
Retire(t, r) ==
    /\ pc[t] = "idle"
    /\ r \notin Supports[ProcessOf[t]]
    /\ Eligible(r)
    /\ ~ActiveSameSubject(r)
    /\ ReleaseTo(r, "failed")
    /\ CancelSteps(r)
    /\ UNCHANGED <<due, attempts, polls, overdue, published, threadVars, faultVars>>

\* One beat: renew while the row is running in this worker's name.  Whether
\* the lease has expired meanwhile is not looked at.
Heartbeat(t) ==
    /\ beating[t] /\ pc[t] \in Located
    /\ IF Owned(t)
       THEN /\ lease' = [lease EXCEPT ![job[t]] = "live"]
            /\ UNCHANGED beating
       ELSE /\ beating' = [beating EXCEPT ![t] = FALSE]
            /\ UNCHANGED lease
    /\ UNCHANGED <<status, owner, due, stepVars, pc, job, pos, outcome, faultVars>>

\* The UPDATE of a beat raises: nothing catches it and the thread ends.
HeartbeatDies(t) ==
    /\ Stalls /\ beating[t]
    /\ beating' = [beating EXCEPT ![t] = FALSE]
    /\ UNCHANGED <<runVars, stepVars, pc, job, pos, outcome, faultVars>>

-----------------------------------------------------------------------------
(* process_workflow_run and StepRunner, for the run job[t]. *)

\* The read that opens process_workflow_run: it returns if not running.
Begin(t) ==
    /\ pc[t] = "claimed"
    /\ Leave(t, IF status[job[t]] = "running" THEN "start" ELSE "stopping")
    /\ UNCHANGED <<runVars, stepVars, job, beating, faultVars>>

\* input_factory or require_owned_run raises.  (So would a checkpoint that may
\* not move to "running"; RunAgreesWithSteps says an owned run has none.)
StartRaises(t) ==
    /\ pc[t] = "start"
    /\ inputBroken[job[t]] \/ ~Owned(t)
    /\ Raise(t)
    /\ UNCHANGED <<runVars, stepVars, job, beating, faultVars>>

\* get_or_start finds the step already succeeded and reuses its output.
ReuseStep(t) ==
    /\ pc[t] = "start" /\ ~inputBroken[job[t]] /\ Owned(t)
    /\ step[job[t]][pos[t]] = "succeeded"
    /\ Advance(t)
    /\ UNCHANGED <<runVars, stepVars, job, beating, faultVars>>

\* get_or_start: create the checkpoint if need be, and put it in "running".
\* A poll counts as a poll, an activity resume as nothing, and everything
\* else (first start, retry, recovery of a crashed attempt) as an attempt.
StartStep(t) ==
    LET r == job[t]
        s == pos[t]
        was == step[r][s]
    IN  /\ pc[t] = "start" /\ ~inputBroken[r] /\ Owned(t)
        /\ was # "succeeded"
        /\ was = "absent" \/ StepMayMove(was, "running")
        /\ SetStep(r, s, "running")
        /\ polls' = [polls EXCEPT ![r][s] =
                        IF was = "waiting_external" THEN @ + 1 ELSE @]
        /\ attempts' = [attempts EXCEPT ![r][s] =
                           IF was \in {"waiting_external", "activity_retry_wait"}
                           THEN @ ELSE Bump(@, MaxAttempts + 1)]
        /\ MoveTo(t, "handler")
        /\ UNCHANGED <<runVars, overdue, published, job, pos, outcome, beating, faultVars>>

\* The handler returns or raises, outside any transaction.  Whatever it
\* returned after the attempt deadline is turned into a retry; only an
\* exception keeps its own meaning.  A retry is also what an attempt timeout
\* before the total deadline becomes.
HandlerEnds(t, o) ==
    /\ pc[t] = "handler"
    /\ overdue[job[t]][pos[t]] => o \in {"retry_wait", "failed"}
    /\ MoveTo(t, "finalize")
    /\ outcome' = [outcome EXCEPT ![t] = o]
    /\ UNCHANGED <<runVars, stepVars, job, pos, beating, faultVars>>

\* _finalize: require_owned_run raises workflow_lease_lost.
FinalizeLost(t) ==
    /\ pc[t] = "finalize" /\ ~Owned(t)
    /\ Raise(t)
    /\ UNCHANGED <<runVars, stepVars, job, beating, faultVars>>

\* Mutant: the checkpoint is not part of the publishing transaction.
PublishApart(t) ==
    /\ pc[t] = "finalize" /\ outcome[t] = "succeeded" /\ Owned(t)
    /\ ~overdue[job[t]][pos[t]]
    /\ published' = [published EXCEPT ![job[t]][pos[t]] = Bump(@, 2)]
    /\ Advance(t)
    /\ UNCHANGED <<runVars, step, attempts, polls, overdue, job, beating, faultVars>>

\* Mutant: the lease is not checked before publishing.
PublishUnfenced(t) ==
    LET r == job[t]
        s == pos[t]
    IN  /\ pc[t] = "finalize" /\ outcome[t] = "succeeded"
        /\ ~overdue[r][s]
        /\ StepMayMove(step[r][s], "succeeded")
        /\ SetStep(r, s, "succeeded")
        /\ published' = [published EXCEPT ![r][s] = Bump(@, 2)]
        /\ Advance(t)
        /\ UNCHANGED <<runVars, attempts, polls, overdue, job, beating, faultVars>>

\* persist_success, checkpoint.succeeded and the event in one transaction.
Publish(t) ==
    LET r == job[t]
        s == pos[t]
    IN  /\ pc[t] = "finalize" /\ outcome[t] = "succeeded" /\ Owned(t)
        /\ ~overdue[r][s]
        /\ StepMayMove(step[r][s], "succeeded")
        /\ SetStep(r, s, "succeeded")
        /\ published' = [published EXCEPT ![r][s] = Bump(@, 2)]
        /\ Advance(t)
        /\ UNCHANGED <<runVars, attempts, polls, overdue, job, beating, faultVars>>

\* The publication raises and is rolled back; _finalize is called again with
\* a retry (transport, external service) or a failure (anything else).
PublishRaises(t, o) ==
    /\ pc[t] = "finalize" /\ outcome[t] = "succeeded" /\ Owned(t)
    /\ ~overdue[job[t]][pos[t]]
    /\ o \in {"retry_wait", "failed"}
    /\ outcome' = [outcome EXCEPT ![t] = o]
    /\ UNCHANGED <<runVars, stepVars, pc, job, pos, beating, faultVars>>

\* A success that comes after the attempt deadline is deferred as a retry.
DeferredAs(t) == IF outcome[t] = "succeeded" THEN "retry_wait" ELSE outcome[t]

\* Mutant: both budgets are compared with > instead of >=.
ExhaustedLate(t) ==
    LET r == job[t]
        s == pos[t]
    IN  \/ overdue[r][s]
        \/ DeferredAs(t) = "waiting_external" /\ polls[r][s] > MaxPolls
        \/ DeferredAs(t) = "retry_wait" /\ attempts[r][s] > MaxAttempts

\* _defer gives up: total deadline, poll budget or attempt budget is spent.
Exhausted(t) ==
    LET r == job[t]
        s == pos[t]
    IN  \/ overdue[r][s]
        \/ DeferredAs(t) = "waiting_external" /\ polls[r][s] >= MaxPolls
        \/ DeferredAs(t) = "retry_wait" /\ attempts[r][s] >= MaxAttempts

\* _defer: step back to a waiting status, run back to the queue, later.
DeferStep(t) ==
    /\ pc[t] = "finalize" /\ Owned(t)
    /\ outcome[t] \in Deferrals \cup {"succeeded"}
    /\ ~Exhausted(t)
    /\ StepMayMove(step[job[t]][pos[t]], DeferredAs(t))
    /\ SetStep(job[t], pos[t], DeferredAs(t))
    /\ ReleaseTo(job[t], "pending")
    /\ due' = [due EXCEPT ![job[t]] = FALSE]
    /\ Return(t)
    /\ UNCHANGED <<attempts, polls, overdue, published, job, beating, faultVars>>

\* A failed outcome, or a deferral that is exhausted: checkpoint, run and
\* domain state fail in one transaction (StepTerminalFailure).
FailStep(t) ==
    /\ pc[t] = "finalize" /\ Owned(t)
    /\ \/ outcome[t] = "failed"
       \/ outcome[t] \in Deferrals \cup {"succeeded"} /\ Exhausted(t)
    /\ StepMayMove(step[job[t]][pos[t]], "failed")
    /\ SetStep(job[t], pos[t], "failed")
    /\ ReleaseTo(job[t], "failed")
    /\ Return(t)
    /\ UNCHANGED <<due, attempts, polls, overdue, published, job, beating, faultVars>>

\* A blocked outcome: checkpoint and run wait for a person.
BlockStep(t) ==
    /\ pc[t] = "finalize" /\ outcome[t] = "blocked" /\ Owned(t)
    /\ StepMayMove(step[job[t]][pos[t]], "blocked")
    /\ SetStep(job[t], pos[t], "blocked")
    /\ ReleaseTo(job[t], "blocked")
    /\ due' = [due EXCEPT ![job[t]] = TRUE]
    /\ Return(t)
    /\ UNCHANGED <<attempts, polls, overdue, published, job, beating, faultVars>>

\* The checkpoint has left "running" behind this thread's back, and the move
\* it asks for is not in the table: ValueError, out of _finalize.
FinalizeRaises(t) ==
    LET was == step[job[t]][pos[t]]
    IN  /\ pc[t] = "finalize" /\ Owned(t)
        /\ \/ outcome[t] = "failed" /\ ~StepMayMove(was, "failed")
           \/ outcome[t] = "blocked" /\ ~StepMayMove(was, "blocked")
           \/ /\ outcome[t] \in Deferrals \cup {"succeeded"}
              /\ ~StepMayMove(was, IF Exhausted(t) THEN "failed" ELSE DeferredAs(t))
        /\ Raise(t)
        /\ UNCHANGED <<runVars, stepVars, job, beating, faultVars>>

\* Mutant: completion does not check the lease.
CompleteUnchecked(t) ==
    /\ pc[t] = "complete"
    /\ ReleaseTo(job[t], "completed")
    /\ Return(t)
    /\ UNCHANGED <<due, stepVars, job, beating, faultVars>>

\* run_plan's last transaction, after the loop.
CompleteRun(t) ==
    /\ pc[t] = "complete"
    /\ IF Owned(t)
       THEN /\ ReleaseTo(job[t], "completed")
            /\ Return(t)
       ELSE /\ Raise(t)
            /\ UNCHANGED <<status, owner, lease>>
    /\ UNCHANGED <<due, stepVars, job, beating, faultVars>>

\* _record_failure by a thread that owns the run no longer: it returns.
DropFailure(t) ==
    /\ pc[t] = "failing" /\ ~Owned(t)
    /\ Return(t)
    /\ UNCHANGED <<runVars, stepVars, job, beating, faultVars>>

\* Mutant: the current checkpoint is left as it is.
RecordFailureRunOnly(t) ==
    /\ pc[t] = "failing" /\ Owned(t)
    /\ ReleaseTo(job[t], "failed")
    /\ Return(t)
    /\ UNCHANGED <<due, stepVars, job, beating, faultVars>>

\* finalize_unhandled_failure: the current checkpoint, if there is one, and
\* the run fail together.
RecordFailure(t) ==
    LET r == job[t]
    IN  /\ pc[t] = "failing" /\ Owned(t)
        /\ \/ /\ \A s \in Steps : step[r][s] \notin OpenStep
              /\ UNCHANGED step
           \/ \E s \in Steps : /\ IsCurrent(r, s)
                               /\ StepMayMove(step[r][s], "failed")
                               /\ SetStep(r, s, "failed")
        /\ ReleaseTo(r, "failed")
        /\ Return(t)
        /\ UNCHANGED <<due, attempts, polls, overdue, published, job, beating, faultVars>>

\* finalize_unhandled_failure when the current checkpoint is waiting: failing
\* it is not a legal move, ValueError leaves the transaction undone.
RecordFailureRaises(t) ==
    /\ pc[t] = "failing" /\ Owned(t)
    /\ \E s \in Steps : /\ IsCurrent(job[t], s)
                        /\ ~StepMayMove(step[job[t]][s], "failed")
    /\ Return(t)
    /\ UNCHANGED <<runVars, stepVars, job, beating, faultVars>>

\* The database, or a transition handler, makes the transaction fail.
TxFails(t) ==
    /\ txFailures < MaxTxFailures
    /\ pc[t] \in {"claimed", "start", "finalize", "complete", "failing"}
    /\ txFailures' = txFailures + 1
    /\ Leave(t, IF pc[t] = "failing" THEN "stopping" ELSE "failing")
    /\ UNCHANGED <<runVars, stepVars, job, beating, inputBroken>>

\* The finally clause: stop the heartbeat and give the slot back.
Stop(t) ==
    /\ pc[t] = "stopping"
    /\ Leave(t, "idle")
    /\ job' = [job EXCEPT ![t] = NoRun]
    /\ beating' = [beating EXCEPT ![t] = FALSE]
    /\ UNCHANGED <<runVars, stepVars, faultVars>>

-----------------------------------------------------------------------------

Init ==
    /\ status = [r \in Runs |-> "absent"]
    /\ owner = [r \in Runs |-> NoWorker]
    /\ lease = [r \in Runs |-> "none"]
    /\ due = [r \in Runs |-> TRUE]
    /\ step = [r \in Runs |-> [s \in Steps |-> "absent"]]
    /\ attempts = [r \in Runs |-> [s \in Steps |-> 0]]
    /\ polls = [r \in Runs |-> [s \in Steps |-> 0]]
    /\ overdue = [r \in Runs |-> [s \in Steps |-> FALSE]]
    /\ published = [r \in Runs |-> [s \in Steps |-> 0]]
    /\ pc = [t \in Threads |-> "idle"]
    /\ job = [t \in Threads |-> NoRun]
    /\ pos = [t \in Threads |-> 1]
    /\ outcome = [t \in Threads |-> "none"]
    /\ beating = [t \in Threads |-> FALSE]
    /\ inputBroken = [r \in Runs |-> FALSE]
    /\ txFailures = 0

\* What the users, the clock and the faults do to one run.
Environment(r) ==
    \/ Enqueue(r) \/ ResumeBlocked(r) \/ Cancel(r) \/ CancelRunOnly(r)
    \/ BecomeDue(r) \/ LeaseRunsOut(r) \/ LeaseLapses(r) \/ BreakInput(r)
    \/ \E s \in Steps : PassDeadline(r, s)

\* One transaction, or one end of a handler, of the thread's own code.
Execute(t) ==
    \/ Begin(t) \/ StartRaises(t) \/ ReuseStep(t) \/ StartStep(t)
    \/ \E o \in Outcomes : HandlerEnds(t, o) \/ PublishRaises(t, o)
    \/ FinalizeLost(t) \/ Publish(t) \/ DeferStep(t) \/ FailStep(t)
    \/ BlockStep(t) \/ FinalizeRaises(t) \/ CompleteRun(t)
    \/ DropFailure(t) \/ RecordFailure(t) \/ RecordFailureRaises(t) \/ Stop(t)

Next ==
    \/ \E r \in Runs : Environment(r)
    \/ \E w \in Workers : Crash(w)
    \/ \E t \in Threads :
          \/ \E r \in Runs : Claim(t, r) \/ Retire(t, r)
          \/ Heartbeat(t) \/ HeartbeatDies(t) \/ Execute(t) \/ TxFails(t)

Spec == Init /\ [][Next]_vars

(***************************************************************************)
(* Fairness.  A thread that can take its next step takes it (handlers have *)
(* timeouts, transactions end); delays, leases and deadlines run out; and, *)
(* since claim_next_workflow_run takes the eligible runs in the order of   *)
(* available_at, a run that is claimable again and again is not passed over *)
(* for ever.  Nothing is assumed of users, faults or heartbeats.           *)
(***************************************************************************)
Fairness ==
    /\ \A t \in Threads : WF_vars(Execute(t))
    /\ \A r \in Runs :
          /\ WF_vars(BecomeDue(r))
          /\ WF_vars(LeaseRunsOut(r))
          /\ SF_vars(\E t \in Threads : Claim(t, r) \/ Retire(t, r))
          /\ \A s \in Steps : WF_vars(PassDeadline(r, s))

FairSpec == Spec /\ Fairness

-----------------------------------------------------------------------------
(* Safety. *)

\* A lease exists exactly while the run is running: no path out of "running"
\* (completion, failure, deferral, block, either cancel, retirement) leaves an
\* owner behind that a later claim would have to wait for.
LeaseFollowsStatus ==
    \A r \in Runs : /\ status[r] = "running" <=> lease[r] # "none"
                    /\ status[r] = "running" <=> owner[r] # NoWorker

\* The plan is executed in order: a checkpoint exists only when every earlier
\* step has succeeded, whoever and however many threads carried the run there.
StepsInOrder ==
    \A r \in Runs : \A s \in Steps : \A q \in Steps :
        q < s /\ step[r][s] # "absent" => step[r][q] = "succeeded"

\* What a run's status says about its checkpoints: a queued run has none that
\* is running or failed, a blocked one has a checkpoint that resuming can
\* find, a completed one has only succeeded steps, a failed one has no
\* checkpoint left that is still open.  They are written by different
\* transactions of different threads, and recovery relies on all four.
RunAgreesWithSteps ==
    \A r \in Runs :
        /\ status[r] = "absent" => \A s \in Steps : step[r][s] = "absent"
        /\ status[r] = "pending" =>
              \A s \in Steps : step[r][s] \notin {"running", "failed", "blocked", "cancelled"}
        /\ status[r] = "running" =>
              \A s \in Steps : step[r][s] \notin {"failed", "blocked", "cancelled"}
        /\ status[r] = "blocked" => \E s \in Steps : step[r][s] = "blocked"
        /\ status[r] = "completed" => \A s \in Steps : step[r][s] = "succeeded"
        /\ status[r] = "failed" => \A s \in Steps : step[r][s] \notin CancellableStep

\* A step counts as succeeded exactly when its result was published: no crash
\* or lost lease comes between the two, and no recovery ever reopens a step
\* whose output the later steps have read.
PublishedIffSucceeded ==
    \A r \in Runs : \A s \in Steps :
        published[r][s] > 0 <=> step[r][s] = "succeeded"

\* A step waits for another retry only while it has an attempt left, for
\* another poll only while it has a poll left, and it never polls more often
\* than its budget, over all claims, crashes and resumptions.
WithinBudget ==
    \A r \in Runs : \A s \in Steps :
        /\ step[r][s] = "retry_wait" => attempts[r][s] < MaxAttempts
        /\ step[r][s] = "waiting_external" => polls[r][s] < MaxPolls
        /\ polls[r][s] <= MaxPolls

\* The lock on the subject does its work: no two runs of one subject execute
\* under unexpired leases at the same time (claim_next_workflow_run).
SubjectExclusive ==
    \A r \in Runs : \A q \in Runs :
        /\ r # q /\ SubjectOf[r] = SubjectOf[q]
        /\ status[r] = "running" /\ status[q] = "running"
        => ~(lease[r] = "live" /\ lease[q] = "live")

\* persist_success commits at most once for each step of a run, through any
\* number of retries, crashes and takeovers.
PublishedOnce ==
    \A r \in Runs : \A s \in Steps : published[r][s] <= 1

-----------------------------------------------------------------------------
(* What a step may never do. *)

\* A run that has ended never changes its status again, and nothing is
\* published for it: a late thread of a cancelled run changes nothing.
EndedIsFinal ==
    [][\A r \in Runs : status[r] \in TerminalRun =>
          /\ status'[r] = status[r]
          /\ step'[r] = step[r]
          /\ published'[r] = published[r]]_vars

-----------------------------------------------------------------------------
(* Liveness. *)

\* Every queued run ends, or stops to wait for a person: whatever crashes,
\* retries, polls and takeovers lie on the way.
QueuedRunSettles ==
    \A r \in Runs : status[r] = "pending" ~> status[r] \in TerminalRun \cup {"blocked"}

(* The runtime implements its abstract specification. *)

PhaseOf(st) == IF st \in {"pending", "running"} THEN "active" ELSE st
Promise == INSTANCE WorkflowPromise
    WITH phase <- [r \in Runs |-> PhaseOf(status[r])], count <- published

\* The runtime keeps the promise the business modules build on: seen from
\* outside, each run publishes its steps one after the other, each once, and
\* completes after the last of them.
KeepsPromise == Promise!Spec
=============================================================================
