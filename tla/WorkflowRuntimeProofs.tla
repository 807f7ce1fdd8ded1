----------------------- MODULE WorkflowRuntimeProofs -----------------------
(* Theorems about the workflow runtime, for any number of runs, workers,   *)
(* threads and steps.                                                      *)
EXTENDS WorkflowRuntime, TLAPS

LEMMA StepsNonEmpty == 1 \in Steps /\ Steps \subseteq Nat
  BY ConstantsOK DEF Steps, ConstantsOK

\* A nested EXCEPT keeps the type of a function of functions.
LEMMA UpdateTyped ==
  ASSUME NEW S, NEW U, NEW T, NEW f \in [S -> [U -> T]],
         NEW a \in S, NEW b \in U, NEW v \in T
  PROVE  [f EXCEPT ![a][b] = v] \in [S -> [U -> T]]
  OBVIOUS

\* A nested EXCEPT changes one place.
LEMMA UpdateElsewhere ==
  ASSUME NEW S, NEW U, NEW T, NEW f \in [S -> [U -> T]],
         NEW a \in S, NEW b \in U, NEW v, NEW c \in S, NEW d \in U, c # a \/ d # b
  PROVE  [f EXCEPT ![a][b] = v][c][d] = f[c][d]
<1>1. CASE c # a
  BY <1>1
<1>2. CASE c = a
  BY <1>2
<1> QED
  BY <1>1, <1>2

\* A saturating counter stays in its range.
LEMMA BumpTyped ==
  ASSUME NEW cap \in Nat, NEW n \in 0..cap
  PROVE  Bump(n, cap) \in 0..cap
  BY DEF Bump

-----------------------------------------------------------------------------
(* Type correctness. *)

LEMMA TypeInit == Init => TypeOK
  BY ConstantsOK, StepsNonEmpty, SMTT(30)
  DEF Init, TypeOK, ConstantsOK, RunStatus, StepStatus, Outcomes, Deferrals, Located

\* The types of one checkpoint's columns.
LEMMA RowTyped ==
  ASSUME TypeOK, NEW r \in Runs, NEW s \in Steps
  PROVE  /\ step[r] \in [Steps -> StepStatus \cup {"absent"}]
         /\ step[r][s] \in StepStatus \cup {"absent"}
         /\ polls[r][s] \in Nat
         /\ attempts[r][s] \in 0 .. MaxAttempts + 1
         /\ published[r][s] \in 0..2
<1>1. /\ step[r] \in [Steps -> StepStatus \cup {"absent"}]
      /\ polls[r] \in [Steps -> Nat]
      /\ attempts[r] \in [Steps -> 0 .. MaxAttempts + 1]
      /\ published[r] \in [Steps -> 0..2]
  BY DEF TypeOK
<1> QED
  BY <1>1

LEMMA TypeEnvironment ==
  ASSUME TypeOK, NEW r \in Runs, Environment(r)
  PROVE  TypeOK'
<1> USE ConstantsOK, StepsNonEmpty DEF TypeOK, ConstantsOK, Located
<1>1. CASE Enqueue(r)
  BY <1>1 DEF Enqueue, RunStatus, stepVars, threadVars, faultVars
<1>2. CASE ResumeBlocked(r)
  BY <1>2 DEF ResumeBlocked, SetStep, ReleaseTo, RunStatus, StepStatus, threadVars, faultVars
<1>3. CASE Cancel(r)
  BY <1>3 DEF Cancel, CancelSteps, ReleaseTo, RunStatus, StepStatus, threadVars, faultVars
<1>4. CASE CancelRunOnly(r)
  BY <1>4 DEF CancelRunOnly, ReleaseTo, RunStatus, stepVars, threadVars, faultVars
<1>5. CASE BecomeDue(r)
  BY <1>5 DEF BecomeDue, stepVars, threadVars, faultVars
<1>6. CASE LeaseRunsOut(r)
  BY <1>6 DEF LeaseRunsOut, stepVars, threadVars, faultVars
<1>7. CASE LeaseLapses(r)
  BY <1>7 DEF LeaseLapses, stepVars, threadVars, faultVars
<1>8. CASE BreakInput(r)
  BY <1>8 DEF BreakInput, runVars, stepVars, threadVars
<1>9. CASE \E s \in Steps : PassDeadline(r, s)
  BY <1>9 DEF PassDeadline, runVars, threadVars, faultVars
<1> QED
  BY <1>1, <1>2, <1>3, <1>4, <1>5, <1>6, <1>7, <1>8, <1>9 DEF Environment

LEMMA TypeExecute ==
  ASSUME TypeOK, NEW t \in Threads, Execute(t)
  PROVE  TypeOK'
<1> USE ConstantsOK, StepsNonEmpty DEF TypeOK, ConstantsOK, Located
<1>1. CASE Begin(t)
  BY <1>1 DEF Begin, Leave, MoveTo, Outcomes, runVars, stepVars, faultVars
<1>2. CASE StartRaises(t)
  BY <1>2 DEF StartRaises, Raise, Leave, MoveTo, runVars, stepVars, faultVars
<1>3. CASE ReuseStep(t)
  <2>1. /\ pc' = [pc EXCEPT ![t] = IF pos[t] < NumSteps THEN "start" ELSE "complete"]
        /\ pos' = [pos EXCEPT ![t] = IF pos[t] < NumSteps THEN pos[t] + 1 ELSE pos[t]]
        /\ outcome' = [outcome EXCEPT ![t] = "none"] /\ pc[t] = "start"
        /\ UNCHANGED <<runVars, stepVars, job, beating, faultVars>>
    BY <1>3 DEF ReuseStep, Advance, MoveTo
  <2>2. pos[t] < NumSteps => pos[t] + 1 \in Steps
    BY DEF Steps
  <2> QED
    BY <2>1, <2>2 DEF runVars, stepVars, faultVars
<1>4. CASE StartStep(t)
  <2> DEFINE r == job[t]
             s == pos[t]
  <2>1. r \in Runs /\ s \in Steps
    BY <1>4 DEF StartStep
  <2>a. polls[r][s] \in Nat /\ attempts[r][s] \in 0 .. MaxAttempts + 1
    <3> HIDE DEF TypeOK, r, s
    <3> QED
      BY <2>1, RowTyped
  <2>b. MaxAttempts + 1 \in Nat
    OBVIOUS
  <2>2. /\ step' = [step EXCEPT ![r][s] = "running"]
        /\ polls' = [polls EXCEPT ![r][s] = IF step[r][s] = "waiting_external" THEN @ + 1 ELSE @]
        /\ attempts' = [attempts EXCEPT ![r][s] =
              IF step[r][s] \in {"waiting_external", "activity_retry_wait"}
              THEN @ ELSE Bump(@, MaxAttempts + 1)]
        /\ pc' = [pc EXCEPT ![t] = "handler"]
        /\ UNCHANGED <<status, owner, lease, due, overdue, published, job, pos, outcome, beating,
                       inputBroken, txFailures>>
    BY <1>4 DEF StartStep, SetStep, MoveTo, runVars, faultVars
  <2>3. step' \in [Runs -> [Steps -> StepStatus \cup {"absent"}]]
    BY <2>1, <2>2 DEF StepStatus
  <2>4. polls' \in [Runs -> [Steps -> Nat]]
    <3> DEFINE v == IF step[r][s] = "waiting_external" THEN polls[r][s] + 1 ELSE polls[r][s]
    <3>1. v \in Nat
      <4> HIDE DEF TypeOK, ConstantsOK
      <4> QED
        BY <2>a
    <3>2. polls' = [polls EXCEPT ![r][s] = v]
      BY <2>2
    <3> QED
      BY <2>1, <3>1, <3>2, UpdateTyped
  <2>5. attempts' \in [Runs -> [Steps -> 0 .. MaxAttempts + 1]]
    <3> DEFINE v == IF step[r][s] \in {"waiting_external", "activity_retry_wait"}
                    THEN attempts[r][s] ELSE Bump(attempts[r][s], MaxAttempts + 1)
    <3>1. v \in 0 .. MaxAttempts + 1
      <4>1. Bump(attempts[r][s], MaxAttempts + 1) \in 0 .. MaxAttempts + 1
        <5> HIDE DEF TypeOK, ConstantsOK, r, s
        <5> QED
          BY <2>a, <2>b, BumpTyped
      <4> QED
        BY <2>a, <4>1, Zenon
    <3>2. attempts' = [attempts EXCEPT ![r][s] = v]
      BY <2>2
    <3> QED
      BY <2>1, <3>1, <3>2, UpdateTyped
  <2>6. \A u \in Threads : pc'[u] \in Located <=> job'[u] \in Runs
    BY <1>4, <2>1, <2>2 DEF StartStep
  <2> QED
    BY <2>2, <2>3, <2>4, <2>5, <2>6
<1>5. CASE \E o \in Outcomes : HandlerEnds(t, o)
  BY <1>5 DEF HandlerEnds, MoveTo, runVars, stepVars, faultVars
<1>6. CASE \E o \in Outcomes : PublishRaises(t, o)
  BY <1>6 DEF PublishRaises, runVars, stepVars, faultVars
<1>7. CASE FinalizeLost(t)
  BY <1>7 DEF FinalizeLost, Raise, Leave, MoveTo, runVars, stepVars, faultVars
<1>8. CASE Publish(t)
  <2> DEFINE r == job[t]
             s == pos[t]
  <2>1. r \in Runs /\ s \in Steps
    BY <1>8 DEF Publish
  <2>a. published[r][s] \in 0..2
    BY <2>1, RowTyped
  <2>2. /\ step' = [step EXCEPT ![r][s] = "succeeded"]
        /\ published' = [published EXCEPT ![r][s] = Bump(@, 2)]
        /\ Advance(t)
        /\ UNCHANGED <<status, owner, lease, due, attempts, polls, overdue, job, beating,
                       inputBroken, txFailures>>
    BY <1>8 DEF Publish, SetStep, runVars, faultVars
  <2>3. step' \in [Runs -> [Steps -> StepStatus \cup {"absent"}]]
    BY <2>1, <2>2 DEF StepStatus
  <2>4. published' \in [Runs -> [Steps -> 0..2]]
    <3>1. Bump(published[r][s], 2) \in 0..2
      <4> HIDE DEF TypeOK, ConstantsOK, r, s
      <4> QED
        BY <2>a, BumpTyped
    <3>2. published' = [published EXCEPT ![r][s] = Bump(published[r][s], 2)]
      BY <2>2
    <3> QED
      BY <2>1, <3>1, <3>2, UpdateTyped
  <2>5. /\ pc' \in [Threads -> Located \cup {"idle", "dead"}]
        /\ pos' \in [Threads -> Steps]
        /\ outcome' \in [Threads -> Outcomes \cup {"none"}]
    BY <2>1, <2>2 DEF Advance, MoveTo, Steps
  <2>6. \A u \in Threads : pc'[u] \in Located <=> job'[u] \in Runs
    BY <2>1, <2>2 DEF Advance, MoveTo
  <2> QED
    BY <2>2, <2>3, <2>4, <2>5, <2>6
<1>9. CASE DeferStep(t)
  BY <1>9 DEF DeferStep, DeferredAs, Deferrals, SetStep, ReleaseTo, Return, Leave, MoveTo,
              RunStatus, StepStatus, faultVars
<1>10. CASE FailStep(t)
  BY <1>10 DEF FailStep, SetStep, ReleaseTo, Return, Leave, MoveTo, RunStatus, StepStatus, faultVars
<1>11. CASE BlockStep(t)
  BY <1>11 DEF BlockStep, SetStep, ReleaseTo, Return, Leave, MoveTo, RunStatus, StepStatus, faultVars
<1>12. CASE FinalizeRaises(t)
  BY <1>12 DEF FinalizeRaises, Raise, Leave, MoveTo, runVars, stepVars, faultVars
<1>13. CASE CompleteRun(t)
  <2>1. job[t] \in Runs
    BY <1>13 DEF CompleteRun
  <2>2. CASE Owned(t)
    <3>1. ReleaseTo(job[t], "completed") /\ Return(t)
      BY <1>13, <2>2, Zenon DEF CompleteRun
    <3> QED
      BY <1>13, <2>1, <3>1
      DEF CompleteRun, ReleaseTo, Return, Leave, MoveTo, RunStatus, stepVars, faultVars
  <2>3. CASE ~Owned(t)
    <3>1. Raise(t) /\ UNCHANGED <<status, owner, lease>>
      BY <1>13, <2>3, Zenon DEF CompleteRun
    <3> QED
      BY <1>13, <2>1, <3>1 DEF CompleteRun, Raise, Leave, MoveTo, stepVars, faultVars
  <2> QED
    BY <2>2, <2>3
<1>14. CASE DropFailure(t)
  BY <1>14 DEF DropFailure, Return, Leave, MoveTo, runVars, stepVars, faultVars
<1>15. CASE RecordFailure(t)
  <2>1. job[t] \in Runs
    BY <1>15 DEF RecordFailure
  <2>2. step' \in [Runs -> [Steps -> StepStatus \cup {"absent"}]]
    <3>1. \/ UNCHANGED step
          \/ \E s \in Steps : step' = [step EXCEPT ![job[t]][s] = "failed"]
      BY <1>15 DEF RecordFailure, SetStep
    <3>2. \A s \in Steps : [step EXCEPT ![job[t]][s] = "failed"]
                              \in [Runs -> [Steps -> StepStatus \cup {"absent"}]]
      BY <2>1, UpdateTyped DEF StepStatus
    <3>3. step \in [Runs -> [Steps -> StepStatus \cup {"absent"}]]
      OBVIOUS
    <3> HIDE DEF TypeOK, ConstantsOK
    <3> QED
      BY <3>1, <3>2, <3>3
  <2>3. ReleaseTo(job[t], "failed") /\ Return(t)
    BY <1>15 DEF RecordFailure
  <2> QED
    <3>1. UNCHANGED <<due, attempts, polls, overdue, published, job, beating, faultVars>>
      BY <1>15 DEF RecordFailure
    <3> QED
      BY <2>1, <2>2, <2>3, <3>1 DEF ReleaseTo, Return, Leave, MoveTo, RunStatus, faultVars
<1>16. CASE RecordFailureRaises(t)
  BY <1>16 DEF RecordFailureRaises, Return, Leave, MoveTo, runVars, stepVars, faultVars
<1>17. CASE Stop(t)
  BY <1>17 DEF Stop, Leave, MoveTo, runVars, stepVars, faultVars
<1> QED
  BY <1>1, <1>2, <1>3, <1>4, <1>5, <1>6, <1>7, <1>8, <1>9, <1>10, <1>11, <1>12, <1>13,
     <1>14, <1>15, <1>16, <1>17
  DEF Execute

LEMMA TypeNext == TypeOK /\ [Next]_vars => TypeOK'
<1> SUFFICES ASSUME TypeOK, [Next]_vars PROVE TypeOK'
  OBVIOUS
<1>1. CASE \E r \in Runs : Environment(r)
  BY <1>1, TypeEnvironment
<1>2. ASSUME NEW w \in Workers, Crash(w) PROVE TypeOK'
  <2>1. \A t \in Threads : pc'[t] \in Located <=> job'[t] \in Runs
    BY <1>2, ConstantsOK DEF TypeOK, Crash, Located, ConstantsOK
  <2> QED
    BY <1>2, <2>1, StepsNonEmpty DEF TypeOK, Crash, runVars, stepVars, faultVars
<1>3. ASSUME NEW t \in Threads, NEW r \in Runs, Claim(t, r) PROVE TypeOK'
  <2>1. ProcessOf[t] \in Workers
    BY ConstantsOK DEF ConstantsOK
  <2>2. \A u \in Threads : pc'[u] \in Located <=> job'[u] \in Runs
    BY <1>3 DEF TypeOK, Claim, MoveTo, Located
  <2> QED
    BY <1>3, <2>1, <2>2 DEF TypeOK, Claim, MoveTo, Located, RunStatus, stepVars, faultVars
<1>4. CASE \E t \in Threads : \E r \in Runs : Retire(t, r)
  BY <1>4, ConstantsOK
  DEF TypeOK, Retire, ReleaseTo, CancelSteps, RunStatus, StepStatus, threadVars, faultVars, ConstantsOK
<1>5. ASSUME NEW t \in Threads, Heartbeat(t) PROVE TypeOK'
  <2>1. CASE Owned(t)
    <3>1. lease' = [lease EXCEPT ![job[t]] = "live"] /\ UNCHANGED beating
      BY <1>5, <2>1, Zenon DEF Heartbeat
    <3> QED
      BY <1>5, <3>1 DEF TypeOK, Heartbeat, stepVars, faultVars
  <2>2. CASE ~Owned(t)
    <3>1. beating' = [beating EXCEPT ![t] = FALSE] /\ UNCHANGED lease
      BY <1>5, <2>2, Zenon DEF Heartbeat
    <3> QED
      BY <1>5, <3>1 DEF TypeOK, Heartbeat, stepVars, faultVars
  <2> QED
    BY <2>1, <2>2
<1>6. CASE \E t \in Threads : HeartbeatDies(t)
  BY <1>6 DEF TypeOK, HeartbeatDies, runVars, stepVars, faultVars
<1>7. CASE \E t \in Threads : Execute(t)
  BY <1>7, TypeExecute
<1>8. CASE \E t \in Threads : TxFails(t)
  BY <1>8, ConstantsOK, StepsNonEmpty
  DEF TypeOK, TxFails, Leave, MoveTo, Located, runVars, stepVars, ConstantsOK
<1>9. CASE UNCHANGED vars
  BY <1>9 DEF TypeOK, vars, runVars, stepVars, threadVars, faultVars
<1> QED
  BY <1>1, <1>2, <1>3, <1>4, <1>5, <1>6, <1>7, <1>8, <1>9 DEF Next

\* Every variable stays in its type: in particular a thread has a run exactly
\* while it is between a claim and the end of process_workflow_run.
THEOREM TypeCorrect == Spec => []TypeOK
  BY TypeInit, TypeNext, PTL DEF Spec

-----------------------------------------------------------------------------
(***************************************************************************)
(* Rows.  The four invariants about a run and its checkpoints speak of one *)
(* row at a time, and every transaction writes the row of one run only.    *)
(* They are not inductive alone: that a step starts only after its         *)
(* predecessors, and a run completes only after all of them, is known to   *)
(* the thread, which got there through the loop of run_plan.               *)
(***************************************************************************)

InOrder(r) ==
    \A s, q \in Steps : q < s /\ step[r][s] # "absent" => step[r][q] = "succeeded"

Agrees(r) ==
    /\ status[r] = "absent" => \A s \in Steps : step[r][s] = "absent"
    /\ status[r] = "pending" =>
          \A s \in Steps : step[r][s] \notin {"running", "failed", "blocked", "cancelled"}
    /\ status[r] = "running" =>
          \A s \in Steps : step[r][s] \notin {"failed", "blocked", "cancelled"}
    /\ status[r] = "blocked" => \E s \in Steps : step[r][s] = "blocked"
    /\ status[r] = "completed" => \A s \in Steps : step[r][s] = "succeeded"
    /\ status[r] = "failed" => \A s \in Steps : step[r][s] \notin CancellableStep

Leased(r) ==
    /\ status[r] = "running" <=> lease[r] # "none"
    /\ status[r] = "running" <=> owner[r] # NoWorker

Recorded(r) ==
    \A s \in Steps : published[r][s] > 0 <=> step[r][s] = "succeeded"

RowInv(r) == Leased(r) /\ InOrder(r) /\ Agrees(r) /\ Recorded(r)

\* What run_plan's loop guarantees of the step it is at.
Placed(t) ==
    /\ pc[t] \in {"start", "handler", "finalize", "complete"} =>
          \A q \in Steps : q < pos[t] => step[job[t]][q] = "succeeded"
    /\ pc[t] \in {"handler", "finalize"} => step[job[t]][pos[t]] # "absent"
    /\ pc[t] = "complete" => \A q \in Steps : step[job[t]][q] = "succeeded"

IInv ==
    /\ TypeOK
    /\ \A r \in Runs : RowInv(r)
    /\ \A t \in Threads : Placed(t)

\* The row of r is left alone, or only its lease is renewed or expires.
SameSteps(r) == step'[r] = step[r] /\ published'[r] = published[r]
SameRow(r) == /\ SameSteps(r)
              /\ status'[r] = status[r] /\ owner'[r] = owner[r] /\ lease'[r] = lease[r]

LEMMA SameRowInv ==
  ASSUME NEW r \in Runs, RowInv(r), SameRow(r)
  PROVE  RowInv(r)'
  BY DEF RowInv, SameRow, SameSteps, InOrder, Agrees, Leased, Recorded

\* A checkpoint that is neither absent nor succeeded is the frontier of its
\* run: everything before it has succeeded, nothing after it exists.
LEMMA Frontier ==
  ASSUME NEW r \in Runs, InOrder(r), NEW s \in Steps,
         step[r][s] \notin {"absent", "succeeded"}
  PROVE  \A q \in Steps \ {s} : /\ step[r][q] \in {"absent", "succeeded"}
                                /\ q < s => step[r][q] = "succeeded"
                                /\ s < q => step[r][q] = "absent"
<1> SUFFICES ASSUME NEW q \in Steps \ {s}
             PROVE  /\ step[r][q] \in {"absent", "succeeded"}
                    /\ q < s => step[r][q] = "succeeded"
                    /\ s < q => step[r][q] = "absent"
  OBVIOUS
<1>1. q \in Nat /\ s \in Nat
  BY StepsNonEmpty
<1> QED
  BY <1>1 DEF InOrder

\* Moving the frontier to a status other than "absent" keeps the plan in order.
LEMMA MoveFrontier ==
  ASSUME TypeOK, NEW r \in Runs, InOrder(r), NEW s \in Steps,
         step[r][s] \notin {"absent", "succeeded"},
         NEW new, new # "absent", SetStep(r, s, new)
  PROVE  /\ InOrder(r)'
         /\ step'[r][s] = new
         /\ \A q \in Steps \ {s} : step'[r][q] = step[r][q]
<1>1. step'[r] = [step[r] EXCEPT ![s] = new] /\ step[r] \in [Steps -> StepStatus \cup {"absent"}]
  BY DEF TypeOK, SetStep
<1>2. step'[r][s] = new /\ \A q \in Steps \ {s} : step'[r][q] = step[r][q]
  BY <1>1
<1>3. InOrder(r)'
  <2> SUFFICES ASSUME NEW a \in Steps, NEW q \in Steps, q < a, step'[r][a] # "absent"
               PROVE  step'[r][q] = "succeeded"
    BY DEF InOrder
  <2> QED
    BY <1>2, StepsNonEmpty DEF InOrder
<1> QED
  BY <1>2, <1>3

\* What a running or queued or resumed row becomes: facts about one row from
\* which each transaction's effect on RowInv follows.
LEMMA RowReleased ==
  ASSUME TypeOK, NEW r \in Runs, NEW new, ReleaseTo(r, new)
  PROVE  /\ status'[r] = new /\ owner'[r] = NoWorker /\ lease'[r] = "none"
         /\ \A q \in Runs \ {r} : /\ status'[q] = status[q]
                                  /\ owner'[q] = owner[q]
                                  /\ lease'[q] = lease[q]
  BY DEF TypeOK, ReleaseTo

LEMMA RowStepped ==
  ASSUME TypeOK, NEW r \in Runs, NEW s \in Steps, NEW new, SetStep(r, s, new)
  PROVE  /\ step'[r] = [step[r] EXCEPT ![s] = new]
         /\ \A q \in Runs \ {r} : step'[q] = step[q]
  BY DEF TypeOK, SetStep

LEMMA RowCancelled ==
  ASSUME TypeOK, NEW r \in Runs, CancelSteps(r)
  PROVE  /\ \A s \in Steps : step'[r][s] = IF step[r][s] \in CancellableStep
                                          THEN "cancelled" ELSE step[r][s]
         /\ \A q \in Runs \ {r} : step'[q] = step[q]
  BY DEF TypeOK, CancelSteps

\* A run that stops executing because its step s has been moved to "new".
LEMMA RowStopped ==
  ASSUME TypeOK, NEW r \in Runs, RowInv(r), status[r] = "running",
         NEW s \in Steps, step[r][s] \notin {"absent", "succeeded"},
         NEW new, NEW st,
         SetStep(r, s, new), ReleaseTo(r, st), UNCHANGED published,
         \/ st = "pending" /\ new \in Deferrals
         \/ st = "failed" /\ new = "failed"
         \/ st = "blocked" /\ new = "blocked"
  PROVE  RowInv(r)' /\ \A q \in Runs \ {r} : SameRow(q)
<1>0. InOrder(r) /\ new # "absent"
  BY DEF RowInv, SetStep, Deferrals
<1>1. /\ InOrder(r)' /\ step'[r][s] = new
      /\ \A q \in Steps \ {s} : step'[r][q] = step[r][q] /\ step'[r][q] \in {"absent", "succeeded"}
  <2>1. \A q \in Steps \ {s} : step[r][q] \in {"absent", "succeeded"}
    BY <1>0, Frontier
  <2>2. /\ InOrder(r)' /\ step'[r][s] = new
        /\ \A q \in Steps \ {s} : step'[r][q] = step[r][q]
    BY <1>0, MoveFrontier
  <2> QED
    BY <2>1, <2>2
<1>2. status'[r] = st /\ owner'[r] = NoWorker /\ lease'[r] = "none"
  BY RowReleased
<1>3. Leased(r)'
  BY <1>2 DEF Leased
<1>4. Agrees(r)'
  BY <1>1, <1>2 DEF Agrees, Deferrals, CancellableStep, OpenStep
<1>5. Recorded(r)'
  <2>1. published[r][s] \in 0..2 /\ ~(published[r][s] > 0)
    BY RowTyped DEF RowInv, Recorded
  <2> QED
    BY <1>1, <2>1 DEF RowInv, Recorded, Deferrals
<1>6. \A q \in Runs \ {r} : SameRow(q)
  BY RowReleased, RowStepped DEF SameRow, SameSteps
<1> QED
  BY <1>1, <1>3, <1>4, <1>5, <1>6 DEF RowInv

LEMMA ThreadAtWork ==
  ASSUME TypeOK, NEW t \in Threads, Execute(t)
  PROVE  pc[t] \in Located /\ job[t] \in Runs /\ pos[t] \in Steps
<1>1. pc[t] \in Located
  BY DEF Execute, Begin, StartRaises, ReuseStep, StartStep, HandlerEnds, PublishRaises,
         FinalizeLost, Publish, DeferStep, FailStep, BlockStep, FinalizeRaises, CompleteRun,
         DropFailure, RecordFailure, RecordFailureRaises, Stop, Located
<1> QED
  BY <1>1 DEF TypeOK

LEMMA RowExecute ==
  ASSUME IInv, NEW t \in Threads, Execute(t),
         NEW j \in Runs, j = job[t], NEW p \in Steps, p = pos[t]
  PROVE  \A r \in Runs : RowInv(r)'
<1>0. RowInv(j)
  BY DEF IInv
<1>t. TypeOK
  BY DEF IInv
<1>s. ASSUME \A r \in Runs : SameRow(r) PROVE \A r \in Runs : RowInv(r)'
  BY <1>s, SameRowInv DEF IInv
<1>o. ASSUME RowInv(j)', \A r \in Runs \ {j} : SameRow(r) PROVE \A r \in Runs : RowInv(r)'
  BY <1>o, SameRowInv DEF IInv
<1>1. CASE UNCHANGED <<status, owner, lease, step, published>>
  BY <1>1, <1>s DEF SameRow, SameSteps
<1>2. CASE StartStep(t)
  <2>1. /\ j \in Runs /\ p \in Steps /\ RowInv(j) /\ status[j] = "running"
        /\ step[j][p] # "succeeded"
        /\ step' = [step EXCEPT ![j][p] = "running"]
        /\ UNCHANGED <<status, owner, lease, published>>
    BY <1>2, <1>0 DEF StartStep, SetStep, Owned, Located, runVars
  <2>2. /\ step'[j] = [step[j] EXCEPT ![p] = "running"]
        /\ \A r \in Runs \ {j} : step'[r] = step[r]
        /\ step[j] \in [Steps -> StepStatus \cup {"absent"}]
    BY <1>t, <2>1 DEF TypeOK
  <2>3. step'[j][p] = "running" /\ \A q \in Steps \ {p} : step'[j][q] = step[j][q]
    BY <2>1, <2>2
  <2>4. InOrder(j)'
    <3>1. \A q \in Steps : q < p => step[j][q] = "succeeded"
      BY <1>2 DEF StartStep, IInv, Placed
    <3> SUFFICES ASSUME NEW a \in Steps, NEW q \in Steps, q < a, step'[j][a] # "absent"
                 PROVE  step'[j][q] = "succeeded"
      BY DEF InOrder
    <3>2. CASE a = p
      BY <2>3, <3>1, <3>2, StepsNonEmpty
    <3>3. CASE a # p
      BY <2>1, <2>3, <3>3 DEF RowInv, InOrder
    <3> QED
      BY <3>2, <3>3
  <2>5. Leased(j)' /\ Agrees(j)'
    BY <2>1, <2>3 DEF RowInv, Leased, Agrees, CancellableStep, OpenStep
  <2>6. Recorded(j)'
    BY <2>1, <2>3 DEF RowInv, Recorded
  <2>7. \A r \in Runs \ {j} : SameRow(r)
    BY <2>1, <2>2 DEF SameRow, SameSteps
  <2> QED
    BY <2>4, <2>5, <2>6, <2>7, <1>o DEF RowInv
<1>3. CASE Publish(t)
  <2>1. /\ j \in Runs /\ p \in Steps /\ RowInv(j) /\ status[j] = "running"
        /\ step' = [step EXCEPT ![j][p] = "succeeded"]
        /\ published' = [published EXCEPT ![j][p] = Bump(@, 2)]
        /\ UNCHANGED <<status, owner, lease>>
    BY <1>3, <1>0 DEF Publish, SetStep, Owned, Located, runVars
  <2>2. /\ step'[j] = [step[j] EXCEPT ![p] = "succeeded"]
        /\ published'[j] = [published[j] EXCEPT ![p] = Bump(@, 2)]
        /\ \A r \in Runs \ {j} : step'[r] = step[r] /\ published'[r] = published[r]
        /\ step[j] \in [Steps -> StepStatus \cup {"absent"}]
        /\ published[j] \in [Steps -> 0..2]
    BY <1>t, <2>1 DEF TypeOK
  <2>3. /\ step'[j][p] = "succeeded"
        /\ \A q \in Steps \ {p} : step'[j][q] = step[j][q] /\ published'[j][q] = published[j][q]
        /\ published'[j][p] > 0
    BY <2>1, <2>2 DEF Bump
  <2>4. step[j][p] # "absent"
    BY <1>3 DEF Publish, IInv, Placed
  <2>5. InOrder(j)'
    BY <2>1, <2>3, <2>4 DEF RowInv, InOrder
  <2>6. Leased(j)' /\ Agrees(j)'
    BY <2>1, <2>3 DEF RowInv, Leased, Agrees, CancellableStep, OpenStep
  <2>7. Recorded(j)'
    BY <2>1, <2>3 DEF RowInv, Recorded
  <2>8. \A r \in Runs \ {j} : SameRow(r)
    BY <2>1, <2>2 DEF SameRow, SameSteps
  <2> QED
    BY <2>5, <2>6, <2>7, <2>8, <1>o DEF RowInv
<1>4. CASE DeferStep(t)
  <2>1. /\ j \in Runs /\ p \in Steps /\ RowInv(j) /\ status[j] = "running"
        /\ SetStep(j, p, DeferredAs(t)) /\ ReleaseTo(j, "pending") /\ UNCHANGED published
        /\ StepMayMove(step[j][p], DeferredAs(t)) /\ step[j][p] # "absent"
    BY <1>4, <1>0 DEF DeferStep, Owned, Located, IInv, Placed
  <2>2. DeferredAs(t) \in Deferrals
    BY <1>4 DEF DeferStep, DeferredAs, Deferrals
  <2>3. step[j][p] # "succeeded"
    BY <2>1, <2>2 DEF StepMayMove, StepTransitions, Deferrals
  <2> QED
    BY <2>1, <2>2, <2>3, <1>t, <1>o, RowStopped
<1>5. CASE FailStep(t)
  <2>1. /\ j \in Runs /\ p \in Steps /\ RowInv(j) /\ status[j] = "running"
        /\ SetStep(j, p, "failed") /\ ReleaseTo(j, "failed") /\ UNCHANGED published
        /\ StepMayMove(step[j][p], "failed") /\ step[j][p] # "absent"
    BY <1>5, <1>0 DEF FailStep, Owned, Located, IInv, Placed
  <2>2. step[j][p] # "succeeded"
    BY <2>1 DEF StepMayMove, StepTransitions
  <2> QED
    BY <2>1, <2>2, <1>t, <1>o, RowStopped
<1>6. CASE BlockStep(t)
  <2>1. /\ j \in Runs /\ p \in Steps /\ RowInv(j) /\ status[j] = "running"
        /\ SetStep(j, p, "blocked") /\ ReleaseTo(j, "blocked") /\ UNCHANGED published
        /\ StepMayMove(step[j][p], "blocked") /\ step[j][p] # "absent"
    BY <1>6, <1>0 DEF BlockStep, Owned, Located, IInv, Placed
  <2>2. step[j][p] # "succeeded"
    BY <2>1 DEF StepMayMove, StepTransitions
  <2> QED
    BY <2>1, <2>2, <1>t, <1>o, RowStopped
<1>7. CASE CompleteRun(t) /\ Owned(t)
  <2>1. /\ j \in Runs /\ RowInv(j) /\ status[j] = "running"
        /\ ReleaseTo(j, "completed") /\ UNCHANGED <<step, published>>
        /\ \A q \in Steps : step[j][q] = "succeeded"
    BY <1>7, <1>0 DEF CompleteRun, Owned, Located, IInv, Placed, stepVars
  <2>2. /\ status'[j] = "completed" /\ owner'[j] = NoWorker /\ lease'[j] = "none"
        /\ \A r \in Runs \ {j} : SameRow(r)
    BY <1>t, <2>1, RowReleased DEF SameRow, SameSteps
  <2>3. RowInv(j)'
    BY <2>1, <2>2 DEF RowInv, Leased, InOrder, Agrees, Recorded
  <2> QED
    BY <2>2, <2>3, <1>o
<1>8. CASE RecordFailure(t)
  <2>1. /\ j \in Runs /\ RowInv(j) /\ status[j] = "running"
        /\ ReleaseTo(j, "failed") /\ UNCHANGED published
    BY <1>8, <1>0 DEF RecordFailure, Owned, Located
  <2>2. CASE UNCHANGED step /\ \A s \in Steps : step[j][s] \notin OpenStep
    <3>1. /\ status'[j] = "failed" /\ owner'[j] = NoWorker /\ lease'[j] = "none"
          /\ \A r \in Runs \ {j} : SameRow(r)
      BY <1>t, <2>1, <2>2, RowReleased DEF SameRow, SameSteps
    <3>2. RowInv(j)'
      BY <2>1, <2>2, <3>1
      DEF RowInv, Leased, InOrder, Agrees, Recorded, CancellableStep
    <3> QED
      BY <3>1, <3>2, <1>o
  <2>3. ASSUME NEW s \in Steps, IsCurrent(j, s), SetStep(j, s, "failed")
        PROVE  \A r \in Runs : RowInv(r)'
    <3>1. step[j][s] \notin {"absent", "succeeded"}
      BY <2>3 DEF IsCurrent, OpenStep
    <3> QED
      BY <2>1, <2>3, <3>1, <1>t, <1>o, RowStopped
  <2> QED
    BY <1>8, <2>2, <2>3 DEF RecordFailure
<1>9. CASE CompleteRun(t) /\ ~Owned(t)
  BY <1>9, <1>1 DEF CompleteRun, stepVars
<1> QED
  BY <1>1, <1>2, <1>3, <1>4, <1>5, <1>6, <1>7, <1>8, <1>9
  DEF Execute, Begin, StartRaises, ReuseStep, HandlerEnds, PublishRaises, FinalizeLost,
      FinalizeRaises, DropFailure, RecordFailureRaises, Stop, runVars, stepVars

LEMMA RowEnvironment ==
  ASSUME IInv, NEW j \in Runs, Environment(j)
  PROVE  \A r \in Runs : RowInv(r)'
<1>t. TypeOK /\ RowInv(j)
  BY DEF IInv
<1>s. ASSUME \A r \in Runs : SameRow(r) PROVE \A r \in Runs : RowInv(r)'
  BY <1>s, SameRowInv DEF IInv
<1>o. ASSUME RowInv(j)', \A r \in Runs \ {j} : SameRow(r) PROVE \A r \in Runs : RowInv(r)'
  BY <1>o, SameRowInv DEF IInv
<1>1. CASE UNCHANGED <<status, owner, lease, step, published>>
  BY <1>1, <1>s DEF SameRow, SameSteps
<1>2. CASE Enqueue(j)
  <2>1. /\ status[j] = "absent" /\ status'[j] = "pending"
        /\ UNCHANGED <<owner, lease, step, published>>
        /\ \A r \in Runs \ {j} : SameRow(r)
    BY <1>2, <1>t DEF Enqueue, TypeOK, SameRow, SameSteps, stepVars
  <2>2. RowInv(j)'
    BY <2>1, <1>t DEF RowInv, Leased, InOrder, Agrees, Recorded
  <2> QED
    BY <2>1, <2>2, <1>o
<1>3. CASE ResumeBlocked(j)
  <2>1. PICK s \in Steps : step[j][s] = "blocked" /\ SetStep(j, s, "pending")
    BY <1>3 DEF ResumeBlocked
  <2>2. status[j] = "blocked" /\ ReleaseTo(j, "pending") /\ UNCHANGED published
    BY <1>3 DEF ResumeBlocked
  <2>3. /\ InOrder(j)' /\ step'[j][s] = "pending"
        /\ \A q \in Steps \ {s} : step'[j][q] = step[j][q]
    <3>1. InOrder(j) /\ step[j][s] \notin {"absent", "succeeded"}
      BY <2>1, <1>t DEF RowInv
    <3> QED
      BY <1>t, <2>1, <3>1, MoveFrontier
  <2>4. \A q \in Steps \ {s} : step[j][q] \in {"absent", "succeeded"}
    BY <2>1, <1>t, Frontier DEF RowInv
  <2>5. status'[j] = "pending" /\ owner'[j] = NoWorker /\ lease'[j] = "none"
    BY <2>2, <1>t, RowReleased
  <2>6. Leased(j)' /\ Agrees(j)'
    BY <2>3, <2>4, <2>5 DEF Leased, Agrees
  <2>7. Recorded(j)'
    BY <2>1, <2>2, <2>3, <1>t DEF RowInv, Recorded
  <2>8. \A r \in Runs \ {j} : SameRow(r)
    <3>1. \A r \in Runs \ {j} : step'[r] = step[r]
      BY <2>1, <1>t, RowStepped
    <3>2. \A r \in Runs \ {j} : status'[r] = status[r] /\ owner'[r] = owner[r] /\ lease'[r] = lease[r]
      BY <2>2, <1>t, RowReleased
    <3> QED
      BY <2>2, <3>1, <3>2 DEF SameRow, SameSteps
  <2> QED
    BY <2>3, <2>6, <2>7, <2>8, <1>o DEF RowInv
<1>4. CASE Cancel(j)
  <2>1. CancelSteps(j) /\ ReleaseTo(j, "cancelled") /\ UNCHANGED published
    BY <1>4 DEF Cancel
  <2>2. /\ \A s \in Steps : step'[j][s] = IF step[j][s] \in CancellableStep
                                         THEN "cancelled" ELSE step[j][s]
        /\ status'[j] = "cancelled" /\ owner'[j] = NoWorker /\ lease'[j] = "none"
        /\ \A r \in Runs \ {j} : SameRow(r)
    BY <2>1, <1>t, RowCancelled, RowReleased DEF SameRow, SameSteps
  <2>3. Leased(j)' /\ InOrder(j)' /\ Agrees(j)'
    BY <2>2, <1>t DEF RowInv, Leased, InOrder, Agrees, CancellableStep, OpenStep
  <2>4. Recorded(j)'
    BY <2>1, <2>2, <1>t DEF RowInv, Recorded, CancellableStep, OpenStep
  <2> QED
    BY <2>2, <2>3, <2>4, <1>o DEF RowInv
<1>5. CASE CancelRunOnly(j)
  <2>1. ReleaseTo(j, "cancelled") /\ UNCHANGED <<step, published>>
    BY <1>5 DEF CancelRunOnly, stepVars
  <2>2. /\ status'[j] = "cancelled" /\ owner'[j] = NoWorker /\ lease'[j] = "none"
        /\ \A r \in Runs \ {j} : SameRow(r)
    BY <2>1, <1>t, RowReleased DEF SameRow, SameSteps
  <2>3. RowInv(j)'
    BY <2>1, <2>2, <1>t DEF RowInv, Leased, InOrder, Agrees, Recorded
  <2> QED
    BY <2>2, <2>3, <1>o
<1>6. CASE LeaseRunsOut(j) \/ LeaseLapses(j)
  <2>1. /\ status[j] = "running" /\ lease'[j] = "expired"
        /\ UNCHANGED <<status, owner, step, published>>
        /\ \A r \in Runs \ {j} : SameRow(r)
    BY <1>6, <1>t DEF LeaseRunsOut, LeaseLapses, TypeOK, SameRow, SameSteps, stepVars
  <2>2. RowInv(j)'
    BY <2>1, <1>t DEF RowInv, Leased, InOrder, Agrees, Recorded
  <2> QED
    BY <2>1, <2>2, <1>o
<1> QED
  BY <1>1, <1>2, <1>3, <1>4, <1>5, <1>6
  DEF Environment, BecomeDue, BreakInput, PassDeadline, runVars, stepVars

LEMMA RowClaim ==
  ASSUME IInv, NEW t \in Threads, NEW j \in Runs, Claim(t, j)
  PROVE  \A r \in Runs : RowInv(r)'
<1>1. TypeOK /\ RowInv(j) /\ ProcessOf[t] # NoWorker
  BY ConstantsOK DEF IInv, ConstantsOK
<1>2. /\ status[j] \in {"pending", "running"}
      /\ status'[j] = "running" /\ lease'[j] = "live" /\ owner'[j] = ProcessOf[t]
      /\ UNCHANGED <<step, published>>
      /\ \A r \in Runs \ {j} : SameRow(r)
  BY <1>1 DEF Claim, Eligible, TypeOK, SameRow, SameSteps, stepVars
<1>3. RowInv(j)'
  BY <1>1, <1>2 DEF RowInv, Leased, InOrder, Agrees, Recorded
<1> QED
  BY <1>2, <1>3, SameRowInv DEF IInv

LEMMA RowRetire ==
  ASSUME IInv, NEW t \in Threads, NEW j \in Runs, Retire(t, j)
  PROVE  \A r \in Runs : RowInv(r)'
<1>t. TypeOK /\ RowInv(j)
  BY DEF IInv
<1>1. CancelSteps(j) /\ ReleaseTo(j, "failed") /\ UNCHANGED published
  BY DEF Retire
<1>2. /\ \A s \in Steps : step'[j][s] = IF step[j][s] \in CancellableStep
                                       THEN "cancelled" ELSE step[j][s]
      /\ status'[j] = "failed" /\ owner'[j] = NoWorker /\ lease'[j] = "none"
      /\ \A r \in Runs \ {j} : SameRow(r)
  BY <1>1, <1>t, RowCancelled, RowReleased DEF SameRow, SameSteps
<1>3. Leased(j)' /\ InOrder(j)' /\ Agrees(j)'
  BY <1>2, <1>t DEF RowInv, Leased, InOrder, Agrees, CancellableStep, OpenStep
<1>4. Recorded(j)'
  BY <1>1, <1>2, <1>t DEF RowInv, Recorded, CancellableStep, OpenStep
<1> QED
  BY <1>2, <1>3, <1>4, SameRowInv DEF IInv, RowInv

LEMMA RowHeartbeat ==
  ASSUME IInv, NEW t \in Threads, Heartbeat(t), NEW j \in Runs, j = job[t]
  PROVE  \A r \in Runs : RowInv(r)'
<1>t. TypeOK /\ RowInv(j)
  BY DEF IInv
<1>0. UNCHANGED <<status, owner, step, published>>
  BY DEF Heartbeat, stepVars
<1>1. CASE Owned(t)
  <2>1. status[j] = "running" /\ lease' = [lease EXCEPT ![j] = "live"]
    BY <1>1, Zenon DEF Heartbeat, Owned
  <2>2. /\ status[j] = "running" /\ lease'[j] = "live"
        /\ \A r \in Runs \ {j} : SameRow(r)
    BY <1>0, <2>1, <1>t DEF TypeOK, SameRow, SameSteps
  <2>3. RowInv(j)'
    BY <1>0, <2>2, <1>t DEF RowInv, Leased, InOrder, Agrees, Recorded
  <2> QED
    BY <2>2, <2>3, SameRowInv DEF IInv
<1>2. CASE ~Owned(t)
  <2>1. UNCHANGED lease
    BY <1>2, Zenon DEF Heartbeat
  <2> QED
    BY <1>0, <2>1, SameRowInv DEF IInv, SameRow, SameSteps
<1> QED
  BY <1>1, <1>2

LEMMA RowNext == IInv /\ [Next]_vars => \A r \in Runs : RowInv(r)'
<1> SUFFICES ASSUME IInv, [Next]_vars PROVE \A r \in Runs : RowInv(r)'
  OBVIOUS
<1>t. TypeOK
  BY DEF IInv
<1>s. ASSUME UNCHANGED <<status, owner, lease, step, published>> PROVE \A r \in Runs : RowInv(r)'
  BY <1>s, SameRowInv DEF IInv, SameRow, SameSteps
<1>1. CASE \E r \in Runs : Environment(r)
  BY <1>1, RowEnvironment
<1>2. CASE \E w \in Workers : Crash(w)
  BY <1>2, <1>s DEF Crash, runVars, stepVars
<1>3. ASSUME NEW t \in Threads, Execute(t) PROVE \A r \in Runs : RowInv(r)'
  <2>1. job[t] \in Runs /\ pos[t] \in Steps
    BY <1>t, <1>3, ThreadAtWork
  <2> QED
    BY <1>3, <2>1, RowExecute
<1>4. CASE \E t \in Threads : \E r \in Runs : Claim(t, r) \/ Retire(t, r)
  BY <1>4, RowClaim, RowRetire
<1>5. ASSUME NEW t \in Threads, Heartbeat(t) PROVE \A r \in Runs : RowInv(r)'
  <2>1. job[t] \in Runs
    BY <1>5, <1>t DEF Heartbeat, TypeOK
  <2> QED
    BY <1>5, <2>1, RowHeartbeat
<1>6. CASE \E t \in Threads : HeartbeatDies(t) \/ TxFails(t)
  BY <1>6, <1>s DEF HeartbeatDies, TxFails, runVars, stepVars
<1>7. CASE UNCHANGED vars
  BY <1>7, <1>s DEF vars, runVars, stepVars
<1> QED
  BY <1>1, <1>2, <1>3, <1>4, <1>5, <1>6, <1>7 DEF Next

-----------------------------------------------------------------------------
(* Where the threads are. *)

\* Checkpoints only move forward, whoever moves them: what a thread saw
\* succeeded is succeeded still, and no checkpoint row is ever deleted.
StepsOnward ==
    \A r \in Runs : \A s \in Steps :
        /\ step[r][s] = "succeeded" => step'[r][s] = "succeeded"
        /\ step[r][s] # "absent" => step'[r][s] # "absent"

LEMMA SetStepOnward ==
  ASSUME TypeOK, NEW r \in Runs, NEW s \in Steps, NEW new, SetStep(r, s, new),
         new # "absent", step[r][s] = "succeeded" => new = "succeeded"
  PROVE  StepsOnward
<1>1. /\ step'[r] = [step[r] EXCEPT ![s] = new]
      /\ \A q \in Runs \ {r} : step'[q] = step[q]
      /\ step[r] \in [Steps -> StepStatus \cup {"absent"}]
  BY RowStepped DEF TypeOK
<1> QED
  BY <1>1 DEF StepsOnward

LEMMA CancelOnward ==
  ASSUME TypeOK, NEW r \in Runs, CancelSteps(r)
  PROVE  StepsOnward
  BY RowCancelled DEF StepsOnward, CancellableStep, OpenStep

LEMMA ExecuteOnward ==
  ASSUME IInv, NEW t \in Threads, Execute(t),
         NEW j \in Runs, j = job[t], NEW p \in Steps, p = pos[t]
  PROVE  StepsOnward
<1>t. TypeOK
  BY DEF IInv
<1>1. CASE UNCHANGED step
  BY <1>1 DEF StepsOnward
<1>2. CASE StartStep(t)
  BY <1>2, <1>t, SetStepOnward DEF StartStep
<1>3. CASE Publish(t)
  BY <1>3, <1>t, SetStepOnward DEF Publish
<1>4. CASE DeferStep(t)
  <2>1. /\ SetStep(j, p, DeferredAs(t)) /\ StepMayMove(step[j][p], DeferredAs(t))
        /\ DeferredAs(t) \in Deferrals
    BY <1>4 DEF DeferStep, DeferredAs, Deferrals
  <2> QED
    BY <2>1, <1>t, SetStepOnward DEF Deferrals, StepMayMove, StepTransitions
<1>5. CASE FailStep(t)
  BY <1>5, <1>t, SetStepOnward DEF FailStep, StepMayMove, StepTransitions
<1>6. CASE BlockStep(t)
  BY <1>6, <1>t, SetStepOnward DEF BlockStep, StepMayMove, StepTransitions
<1>7. CASE RecordFailure(t)
  <2>1. ASSUME NEW s \in Steps, IsCurrent(j, s), SetStep(j, s, "failed") PROVE StepsOnward
    BY <2>1, <1>t, SetStepOnward DEF IsCurrent, OpenStep
  <2> QED
    BY <1>7, <1>1, <2>1 DEF RecordFailure
<1> QED
  BY <1>1, <1>2, <1>3, <1>4, <1>5, <1>6, <1>7
  DEF Execute, Begin, StartRaises, ReuseStep, HandlerEnds, PublishRaises, FinalizeLost,
      FinalizeRaises, CompleteRun, DropFailure, RecordFailureRaises, Stop, stepVars

LEMMA NextOnward == IInv /\ [Next]_vars => StepsOnward
<1> SUFFICES ASSUME IInv, [Next]_vars PROVE StepsOnward
  OBVIOUS
<1>t. TypeOK
  BY DEF IInv
<1>s. UNCHANGED step => StepsOnward
  BY DEF StepsOnward
<1>1. ASSUME NEW r \in Runs, Environment(r) PROVE StepsOnward
  <2>1. CASE ResumeBlocked(r)
    BY <2>1, <1>t, SetStepOnward DEF ResumeBlocked
  <2>2. CASE Cancel(r)
    BY <2>2, <1>t, CancelOnward DEF Cancel
  <2> QED
    BY <1>1, <1>s, <2>1, <2>2
    DEF Environment, Enqueue, CancelRunOnly, BecomeDue, LeaseRunsOut, LeaseLapses, BreakInput,
        PassDeadline, stepVars
<1>2. ASSUME NEW t \in Threads, NEW r \in Runs, Retire(t, r) PROVE StepsOnward
  BY <1>2, <1>t, CancelOnward DEF Retire
<1>3. ASSUME NEW t \in Threads, Execute(t) PROVE StepsOnward
  <2>1. job[t] \in Runs /\ pos[t] \in Steps
    BY <1>t, <1>3, ThreadAtWork
  <2> QED
    BY <1>3, <2>1, ExecuteOnward
<1> QED
  BY <1>s, <1>1, <1>2, <1>3
  DEF Next, Crash, Claim, Heartbeat, HeartbeatDies, TxFails, vars, stepVars

\* A thread that does not move keeps its place.
LEMMA PlacedFrame ==
  ASSUME TypeOK, NEW u \in Threads, Placed(u), StepsOnward,
         pc'[u] = pc[u], job'[u] = job[u], pos'[u] = pos[u]
  PROVE  Placed(u)'
<1>1. pc[u] \in {"start", "handler", "finalize", "complete"}
         => job[u] \in Runs /\ pos[u] \in Steps
  BY DEF TypeOK, Located
<1> QED
  BY <1>1 DEF Placed, StepsOnward

\* One that leaves run_plan, or enters it anew, needs none.
LEMMA PlacedLeave ==
  ASSUME TypeOK, NEW t \in Threads, NEW place, Leave(t, place),
         place \in {"start", "failing", "stopping", "idle"}
  PROVE  /\ Placed(t)'
         /\ \A u \in Threads \ {t} : pc'[u] = pc[u] /\ pos'[u] = pos[u]
<1>1. /\ pc'[t] = place /\ pos'[t] = 1
      /\ \A u \in Threads \ {t} : pc'[u] = pc[u] /\ pos'[u] = pos[u]
  BY DEF Leave, MoveTo, TypeOK
<1> QED
  BY <1>1, StepsNonEmpty DEF Placed, Steps

\* The loop goes on from a step that has succeeded.
LEMMA PlacedAdvance ==
  ASSUME TypeOK, NEW t \in Threads, Advance(t), UNCHANGED job,
         NEW j \in Runs, j = job[t], NEW p \in Steps, p = pos[t],
         \A q \in Steps : q <= p => step'[j][q] = "succeeded"
  PROVE  /\ Placed(t)'
         /\ \A u \in Threads \ {t} : pc'[u] = pc[u] /\ pos'[u] = pos[u]
<1>1. \A u \in Threads \ {t} : pc'[u] = pc[u] /\ pos'[u] = pos[u]
  BY DEF Advance, MoveTo, TypeOK
<1>2. NumSteps \in Nat /\ p \in 1..NumSteps
  BY ConstantsOK DEF ConstantsOK, Steps
<1>3. CASE p < NumSteps
  <2>1. pc'[t] = "start" /\ pos'[t] = p + 1 /\ job'[t] = j
    BY <1>3 DEF Advance, MoveTo, TypeOK
  <2> QED
    BY <1>1, <1>2, <2>1 DEF Placed, Steps
<1>4. CASE ~(p < NumSteps)
  <2>1. pc'[t] = "complete" /\ pos'[t] = p /\ job'[t] = j
    BY <1>4 DEF Advance, MoveTo, TypeOK
  <2> QED
    BY <1>1, <1>2, <1>4, <2>1 DEF Placed, Steps
<1> QED
  BY <1>3, <1>4

LEMMA PlacedExecute ==
  ASSUME IInv, NEW t \in Threads, Execute(t),
         NEW j \in Runs, j = job[t], NEW p \in Steps, p = pos[t]
  PROVE  \A u \in Threads : Placed(u)'
<1>t. TypeOK /\ RowInv(j) /\ Placed(t)
  BY DEF IInv
<1>on. StepsOnward
  BY ExecuteOnward
<1>o. ASSUME Placed(t)',
             \A u \in Threads \ {t} : pc'[u] = pc[u] /\ pos'[u] = pos[u] /\ job'[u] = job[u]
      PROVE  \A u \in Threads : Placed(u)'
  BY <1>o, <1>t, <1>on, PlacedFrame DEF IInv
<1>leave. ASSUME NEW place \in {"start", "failing", "stopping", "idle"}, Leave(t, place),
                 \A u \in Threads \ {t} : job'[u] = job[u]
          PROVE  \A u \in Threads : Placed(u)'
  BY <1>leave, <1>t, <1>o, PlacedLeave
<1>1. CASE Begin(t)
  BY <1>1, <1>leave DEF Begin
<1>2. CASE StartRaises(t) \/ FinalizeLost(t) \/ FinalizeRaises(t)
  BY <1>2, <1>leave DEF StartRaises, FinalizeLost, FinalizeRaises, Raise
<1>3. CASE DeferStep(t) \/ FailStep(t) \/ BlockStep(t)
  BY <1>3, <1>leave DEF DeferStep, FailStep, BlockStep, Return
<1>4. CASE DropFailure(t) \/ RecordFailure(t) \/ RecordFailureRaises(t)
  BY <1>4, <1>leave DEF DropFailure, RecordFailure, RecordFailureRaises, Return
<1>5. CASE CompleteRun(t)
  <2>1. Return(t) \/ Raise(t)
    BY <1>5 DEF CompleteRun
  <2> QED
    BY <1>5, <2>1, <1>leave DEF CompleteRun, Return, Raise
<1>6. CASE Stop(t)
  BY <1>6, <1>t, <1>leave DEF Stop, TypeOK
<1>7. CASE ReuseStep(t)
  <2>1. /\ UNCHANGED <<step, job>> /\ Advance(t)
        /\ \A q \in Steps : q <= p => step[j][q] = "succeeded"
    BY <1>7, <1>t, StepsNonEmpty DEF ReuseStep, Placed, stepVars
  <2> QED
    BY <2>1, <1>t, <1>o, PlacedAdvance
<1>8. CASE Publish(t)
  <2>1. /\ UNCHANGED job /\ Advance(t) /\ SetStep(j, p, "succeeded")
        /\ \A q \in Steps : q < p => step[j][q] = "succeeded"
    BY <1>8, <1>t DEF Publish, Placed
  <2>2. step'[j] = [step[j] EXCEPT ![p] = "succeeded"] /\ step[j] \in [Steps -> StepStatus \cup {"absent"}]
    BY <2>1, <1>t, RowStepped DEF TypeOK
  <2>3. \A q \in Steps : q <= p => step'[j][q] = "succeeded"
    BY <2>1, <2>2, StepsNonEmpty
  <2> QED
    BY <2>1, <2>3, <1>t, <1>o, PlacedAdvance
<1>9. CASE StartStep(t)
  <2>1. /\ pc'[t] = "handler" /\ pos' = pos /\ job' = job
        /\ \A u \in Threads \ {t} : pc'[u] = pc[u]
        /\ pc[t] = "start"
        /\ SetStep(j, p, "running")
    BY <1>9, <1>t DEF StartStep, MoveTo, TypeOK
  <2>2. step'[j] = [step[j] EXCEPT ![p] = "running"] /\ step[j] \in [Steps -> StepStatus \cup {"absent"}]
    BY <2>1, <1>t, RowStepped DEF TypeOK
  <2>3. step'[j][p] = "running" /\ \A q \in Steps : q < p => step'[j][q] = "succeeded"
    BY <2>1, <2>2, <1>t, StepsNonEmpty DEF Placed
  <2>4. Placed(t)'
    BY <2>1, <2>3 DEF Placed
  <2> QED
    BY <2>1, <2>4, <1>o
<1>10. CASE \E o \in Outcomes : HandlerEnds(t, o) \/ PublishRaises(t, o)
  <2>1. /\ pc[t] \in {"handler", "finalize"} /\ pc'[t] = "finalize"
        /\ pos' = pos /\ job' = job /\ step' = step
        /\ \A u \in Threads \ {t} : pc'[u] = pc[u]
    BY <1>10, <1>t DEF HandlerEnds, PublishRaises, MoveTo, TypeOK, stepVars
  <2>2. Placed(t)'
    BY <2>1, <1>t DEF Placed
  <2> QED
    BY <2>1, <2>2, <1>o
<1> QED
  BY <1>1, <1>2, <1>3, <1>4, <1>5, <1>6, <1>7, <1>8, <1>9, <1>10 DEF Execute

LEMMA PlacedNext == IInv /\ [Next]_vars => \A u \in Threads : Placed(u)'
<1> SUFFICES ASSUME IInv, [Next]_vars PROVE \A u \in Threads : Placed(u)'
  OBVIOUS
<1>t. TypeOK
  BY DEF IInv
<1>on. StepsOnward
  BY NextOnward
<1>s. ASSUME UNCHANGED <<pc, job, pos>> PROVE \A u \in Threads : Placed(u)'
  BY <1>s, <1>t, <1>on, PlacedFrame DEF IInv
<1>1. CASE \E r \in Runs : Environment(r)
  BY <1>1, <1>s
  DEF Environment, Enqueue, ResumeBlocked, Cancel, CancelRunOnly, BecomeDue, LeaseRunsOut,
      LeaseLapses, BreakInput, PassDeadline, threadVars
<1>2. ASSUME NEW w \in Workers, Crash(w) PROVE \A u \in Threads : Placed(u)'
  <2> SUFFICES ASSUME NEW u \in Threads PROVE Placed(u)'
    OBVIOUS
  <2>1. CASE ProcessOf[u] = w
    <3>1. pc'[u] = "dead"
      BY <1>2, <2>1 DEF Crash
    <3> QED
      BY <3>1 DEF Placed
  <2>2. CASE ProcessOf[u] # w
    <3>1. pc'[u] = pc[u] /\ job'[u] = job[u] /\ pos'[u] = pos[u]
      BY <1>2, <2>2 DEF Crash
    <3> QED
      BY <3>1, <1>t, <1>on, PlacedFrame DEF IInv
  <2> QED
    BY <2>1, <2>2
<1>3. ASSUME NEW t \in Threads, Execute(t) PROVE \A u \in Threads : Placed(u)'
  <2>1. job[t] \in Runs /\ pos[t] \in Steps
    BY <1>t, <1>3, ThreadAtWork
  <2> QED
    BY <1>3, <2>1, PlacedExecute
<1>4. ASSUME NEW t \in Threads, NEW r \in Runs, Claim(t, r) PROVE \A u \in Threads : Placed(u)'
  <2>1. /\ pc'[t] = "claimed"
        /\ \A u \in Threads \ {t} : pc'[u] = pc[u] /\ pos'[u] = pos[u] /\ job'[u] = job[u]
    BY <1>4, <1>t DEF Claim, MoveTo, TypeOK
  <2>2. Placed(t)'
    BY <2>1 DEF Placed
  <2> QED
    BY <2>1, <2>2, <1>t, <1>on, PlacedFrame DEF IInv
<1>5. ASSUME NEW t \in Threads, TxFails(t) PROVE \A u \in Threads : Placed(u)'
  <2>1. /\ \E place \in {"stopping", "failing"} : Leave(t, place)
        /\ job' = job
    BY <1>5 DEF TxFails
  <2> QED
    BY <2>1, <1>t, <1>on, PlacedLeave, PlacedFrame DEF IInv
<1> QED
  BY <1>s, <1>1, <1>2, <1>3, <1>4, <1>5
  DEF Next, Retire, Heartbeat, HeartbeatDies, vars, threadVars

-----------------------------------------------------------------------------
(* The inductive invariant, and what follows from it. *)

LEMMA IInvInit == Init => IInv
<1> SUFFICES ASSUME Init PROVE IInv
  OBVIOUS
<1>1. \A r \in Runs : RowInv(r)
  BY DEF Init, RowInv, Leased, InOrder, Agrees, Recorded
<1>2. \A t \in Threads : Placed(t)
  BY DEF Init, Placed
<1> QED
  BY <1>1, <1>2, TypeInit DEF IInv

LEMMA IInvNext == IInv /\ [Next]_vars => IInv'
  BY TypeNext, RowNext, PlacedNext DEF IInv

THEOREM Invariance == Spec => []IInv
  BY IInvInit, IInvNext, PTL DEF Spec

\* The lease bookkeeping of LeaseFollowsStatus holds for any number of runs,
\* processes and threads, with lapsing leases, crashes and failing transactions.
THEOREM LeaseCorrect == Spec => []LeaseFollowsStatus
<1>1. IInv => LeaseFollowsStatus
  BY DEF IInv, RowInv, Leased, LeaseFollowsStatus
<1> QED
  BY <1>1, Invariance, PTL

\* StepsInOrder holds for plans of any length, even when several threads that
\* share a worker_id execute one run at the same time.
THEOREM PlanOrder == Spec => []StepsInOrder
<1>1. IInv => StepsInOrder
  BY DEF IInv, RowInv, InOrder, StepsInOrder
<1> QED
  BY <1>1, Invariance, PTL

\* The status of a run and those of its checkpoints agree in every state.
THEOREM RunStepAgreement == Spec => []RunAgreesWithSteps
<1>1. IInv => RunAgreesWithSteps
  BY DEF IInv, RowInv, Agrees, RunAgreesWithSteps
<1> QED
  BY <1>1, Invariance, PTL

\* A step is recorded as succeeded exactly when its result was published.
THEOREM PublicationRecorded == Spec => []PublishedIffSucceeded
<1>1. IInv => PublishedIffSucceeded
  BY DEF IInv, RowInv, Recorded, PublishedIffSucceeded
<1> QED
  BY <1>1, Invariance, PTL

-----------------------------------------------------------------------------
(* The budgets. *)

\* A checkpoint that waits has been given something left to wait for.
LEMMA SetStepBudget ==
  ASSUME TypeOK, WithinBudget, NEW r \in Runs, NEW s \in Steps, NEW new, SetStep(r, s, new),
         UNCHANGED <<attempts, polls>>,
         new = "retry_wait" => attempts[r][s] < MaxAttempts,
         new = "waiting_external" => polls[r][s] < MaxPolls
  PROVE  WithinBudget'
<1>1. /\ step'[r] = [step[r] EXCEPT ![s] = new]
      /\ \A q \in Runs \ {r} : step'[q] = step[q]
      /\ step[r] \in [Steps -> StepStatus \cup {"absent"}]
  BY RowStepped DEF TypeOK
<1>2. ASSUME NEW q \in Runs, NEW p \in Steps
      PROVE  \/ step'[q][p] = step[q][p]
             \/ q = r /\ p = s /\ step'[q][p] = new
  BY <1>1
<1> QED
  BY <1>2 DEF WithinBudget

\* Cancelling a run makes nothing wait.
LEMMA CancelBudget ==
  ASSUME TypeOK, WithinBudget, NEW r \in Runs, CancelSteps(r), UNCHANGED <<attempts, polls>>
  PROVE  WithinBudget'
<1>1. ASSUME NEW q \in Runs, NEW p \in Steps
      PROVE  step'[q][p] \in {step[q][p], "cancelled"}
  BY RowCancelled
<1> QED
  BY <1>1 DEF WithinBudget

\* A start counts as a poll only if the checkpoint was waiting for one.
LEMMA StartBudget ==
  ASSUME TypeOK, WithinBudget, NEW t \in Threads, StartStep(t),
         NEW r \in Runs, r = job[t], NEW s \in Steps, s = pos[t]
  PROVE  WithinBudget'
<1>1. /\ SetStep(r, s, "running")
      /\ polls' = [polls EXCEPT ![r][s] = IF step[r][s] = "waiting_external" THEN @ + 1 ELSE @]
      /\ attempts' = [attempts EXCEPT ![r][s] =
              IF step[r][s] \in {"waiting_external", "activity_retry_wait"}
              THEN @ ELSE Bump(@, MaxAttempts + 1)]
  BY DEF StartStep
<1>2. /\ step'[r] = [step[r] EXCEPT ![s] = "running"]
      /\ \A q \in Runs \ {r} : step'[q] = step[q]
      /\ step[r] \in [Steps -> StepStatus \cup {"absent"}]
  BY <1>1, RowStepped DEF TypeOK
<1>3. ASSUME NEW q \in Runs, NEW p \in Steps, q # r \/ p # s
      PROVE  step'[q][p] = step[q][p] /\ polls'[q][p] = polls[q][p] /\ attempts'[q][p] = attempts[q][p]
  <2>1. step'[q][p] = step[q][p]
    BY <1>2, <1>3
  <2>2. polls'[q][p] = polls[q][p]
    BY <1>1, <1>3, UpdateElsewhere DEF TypeOK
  <2>3. attempts'[q][p] = attempts[q][p]
    BY <1>1, <1>3, UpdateElsewhere DEF TypeOK
  <2> QED
    BY <2>1, <2>2, <2>3
<1>4. step'[r][s] = "running"
  BY <1>2
<1>5. polls[r][s] \in Nat /\ MaxPolls \in Nat
  BY RowTyped, ConstantsOK DEF ConstantsOK
<1>6. polls'[r][s] = IF step[r][s] = "waiting_external" THEN polls[r][s] + 1 ELSE polls[r][s]
  BY <1>1 DEF TypeOK
<1>7. polls'[r][s] <= MaxPolls
  BY <1>5, <1>6 DEF WithinBudget
<1>8. ASSUME NEW q \in Runs, NEW p \in Steps
      PROVE  /\ step'[q][p] = "retry_wait" => attempts'[q][p] < MaxAttempts
             /\ step'[q][p] = "waiting_external" => polls'[q][p] < MaxPolls
             /\ polls'[q][p] <= MaxPolls
  <2>1. CASE q = r /\ p = s
    BY <1>4, <1>7, <2>1
  <2>2. CASE q # r \/ p # s
    BY <1>3, <2>2 DEF WithinBudget
  <2> QED
    BY <2>1, <2>2
<1> QED
  BY <1>8 DEF WithinBudget

\* A thread defers its step only within the budgets, see Exhausted.
LEMMA ExecuteBudget ==
  ASSUME IInv, WithinBudget, NEW t \in Threads, Execute(t),
         NEW j \in Runs, j = job[t], NEW p \in Steps, p = pos[t]
  PROVE  WithinBudget'
<1>t. TypeOK
  BY DEF IInv
<1>1. CASE UNCHANGED <<step, attempts, polls>>
  BY <1>1 DEF WithinBudget
<1>2. CASE StartStep(t)
  BY <1>2, <1>t, StartBudget
<1>3. CASE Publish(t)
  BY <1>3, <1>t, SetStepBudget DEF Publish
<1>4. CASE DeferStep(t)
  <2>1. /\ SetStep(j, p, DeferredAs(t)) /\ UNCHANGED <<attempts, polls>>
        /\ ~Exhausted(t)
    BY <1>4 DEF DeferStep
  <2>2. /\ DeferredAs(t) = "waiting_external" => ~(polls[j][p] >= MaxPolls)
        /\ DeferredAs(t) = "retry_wait" => ~(attempts[j][p] >= MaxAttempts)
    BY <2>1 DEF Exhausted
  <2>3. polls[j][p] \in Nat /\ attempts[j][p] \in 0 .. MaxAttempts + 1
    BY <1>t, RowTyped
  <2>4. /\ DeferredAs(t) = "waiting_external" => polls[j][p] < MaxPolls
        /\ DeferredAs(t) = "retry_wait" => attempts[j][p] < MaxAttempts
    BY <2>2, <2>3, ConstantsOK DEF ConstantsOK
  <2> QED
    BY <2>1, <2>4, <1>t, SetStepBudget
<1>5. CASE FailStep(t)
  BY <1>5, <1>t, SetStepBudget DEF FailStep
<1>6. CASE BlockStep(t)
  BY <1>6, <1>t, SetStepBudget DEF BlockStep
<1>7. CASE RecordFailure(t)
  <2>1. ASSUME NEW s \in Steps, SetStep(j, s, "failed"), UNCHANGED <<attempts, polls>>
        PROVE  WithinBudget'
    BY <2>1, <1>t, SetStepBudget
  <2> QED
    BY <1>7, <1>1, <2>1 DEF RecordFailure
<1> QED
  BY <1>1, <1>2, <1>3, <1>4, <1>5, <1>6, <1>7
  DEF Execute, Begin, StartRaises, ReuseStep, HandlerEnds, PublishRaises, FinalizeLost,
      FinalizeRaises, CompleteRun, DropFailure, RecordFailureRaises, Stop, stepVars

LEMMA BudgetNext == IInv /\ WithinBudget /\ [Next]_vars => WithinBudget'
<1> SUFFICES ASSUME IInv, WithinBudget, [Next]_vars PROVE WithinBudget'
  OBVIOUS
<1>t. TypeOK
  BY DEF IInv
<1>s. UNCHANGED <<step, attempts, polls>> => WithinBudget'
  BY DEF WithinBudget
<1>1. ASSUME NEW r \in Runs, Environment(r) PROVE WithinBudget'
  <2>1. CASE ResumeBlocked(r)
    BY <2>1, <1>t, SetStepBudget DEF ResumeBlocked
  <2>2. CASE Cancel(r)
    BY <2>2, <1>t, CancelBudget DEF Cancel
  <2> QED
    BY <1>1, <1>s, <2>1, <2>2
    DEF Environment, Enqueue, CancelRunOnly, BecomeDue, LeaseRunsOut, LeaseLapses, BreakInput,
        PassDeadline, stepVars
<1>2. ASSUME NEW t \in Threads, NEW r \in Runs, Retire(t, r) PROVE WithinBudget'
  BY <1>2, <1>t, CancelBudget DEF Retire
<1>3. ASSUME NEW t \in Threads, Execute(t) PROVE WithinBudget'
  <2>1. job[t] \in Runs /\ pos[t] \in Steps
    BY <1>t, <1>3, ThreadAtWork
  <2> QED
    BY <1>3, <2>1, ExecuteBudget
<1> QED
  BY <1>s, <1>1, <1>2, <1>3
  DEF Next, Crash, Claim, Heartbeat, HeartbeatDies, TxFails, vars, stepVars

\* A step waits for another retry or poll only while its budget has one left,
\* over all claims, crashes and resumptions (get_or_start and _defer).
THEOREM BudgetKept == Spec => []WithinBudget
<1>1. Init => WithinBudget
  BY ConstantsOK DEF Init, WithinBudget, ConstantsOK
<1> QED
  BY <1>1, Invariance, BudgetNext, PTL DEF Spec

-----------------------------------------------------------------------------
(***************************************************************************)
(* What a thread may do to the world at large: write the row of a run it   *)
(* owns, and move itself.                                                  *)
(***************************************************************************)

\* The thread t goes on with its run, or gives it back and stops beating.
OwnMove(t) ==
    /\ \A u \in Threads \ {t} : /\ pc'[u] = pc[u] /\ job'[u] = job[u]
                               /\ pos'[u] = pos[u] /\ beating'[u] = beating[u]
    /\ \/ pc'[t] \in Located /\ job'[t] = job[t] /\ beating'[t] = beating[t]
       \/ pc'[t] = "idle" /\ ~beating'[t]
    /\ pc'[t] \in Working => pc[t] \in Working

\* No row changes, or only that of the run j the thread owns: its checkpoints
\* while the thread goes on, or its status as the thread returns.
OwnRow(t, j) ==
    \/ \A r \in Runs : SameRow(r)
    \/ /\ pc[t] \in Working /\ Owned(t)
       /\ \A r \in Runs \ {j} : SameRow(r)
       /\ \/ status'[j] = status[j] /\ owner'[j] = owner[j] /\ lease'[j] = lease[j]
          \/ pc'[t] = "stopping" /\ status'[j] \in {"pending", "completed", "failed", "blocked"}

LEMMA LeaveMoves ==
  ASSUME TypeOK, NEW t \in Threads, pc[t] \in Working, UNCHANGED <<job, beating>>,
         NEW place \in {"start", "failing", "stopping"}, Leave(t, place)
  PROVE  OwnMove(t) /\ pc'[t] = place
  BY DEF TypeOK, OwnMove, Leave, MoveTo, Located, Working

LEMMA ExecuteMoves ==
  ASSUME TypeOK, NEW t \in Threads, Execute(t)
  PROVE  OwnMove(t)
<1>1. CASE Begin(t)
  BY <1>1, LeaveMoves DEF Begin, Working, Located
<1>2. CASE StartRaises(t) \/ FinalizeLost(t) \/ FinalizeRaises(t)
  BY <1>2, LeaveMoves DEF StartRaises, FinalizeLost, FinalizeRaises, Raise, Working, Located
<1>3. CASE DeferStep(t) \/ FailStep(t) \/ BlockStep(t)
  BY <1>3, LeaveMoves DEF DeferStep, FailStep, BlockStep, Return, Working, Located
<1>4. CASE DropFailure(t) \/ RecordFailure(t) \/ RecordFailureRaises(t)
  BY <1>4, LeaveMoves DEF DropFailure, RecordFailure, RecordFailureRaises, Return, Working, Located
<1>5. CASE CompleteRun(t)
  <2>1. (Return(t) \/ Raise(t)) /\ pc[t] = "complete" /\ UNCHANGED <<job, beating>>
    BY <1>5 DEF CompleteRun
  <2> QED
    BY <2>1, LeaveMoves DEF Return, Raise, Working, Located
<1>6. CASE Stop(t)
  BY <1>6 DEF Stop, Leave, MoveTo, TypeOK, OwnMove, Working, Located
<1>7. CASE ReuseStep(t) \/ Publish(t)
  <2>1. Advance(t) /\ pc[t] \in {"start", "finalize"} /\ UNCHANGED <<job, beating>>
    BY <1>7 DEF ReuseStep, Publish
  <2> QED
    BY <2>1 DEF Advance, MoveTo, TypeOK, OwnMove, Working, Located
<1>8. CASE StartStep(t)
  BY <1>8 DEF StartStep, MoveTo, TypeOK, OwnMove, Working, Located
<1>9. CASE \E o \in Outcomes : HandlerEnds(t, o) \/ PublishRaises(t, o)
  BY <1>9 DEF HandlerEnds, PublishRaises, MoveTo, TypeOK, OwnMove, Working, Located
<1> QED
  BY <1>1, <1>2, <1>3, <1>4, <1>5, <1>6, <1>7, <1>8, <1>9 DEF Execute

LEMMA ExecuteWrites ==
  ASSUME TypeOK, NEW t \in Threads, Execute(t), NEW j \in Runs, j = job[t]
  PROVE  OwnRow(t, j)
<1>1. CASE UNCHANGED <<status, owner, lease, step, published>>
  BY <1>1 DEF OwnRow, SameRow, SameSteps
<1>2. ASSUME NEW st \in {"pending", "completed", "failed", "blocked"}, ReleaseTo(j, st), Return(t),
             pc[t] \in Working, Owned(t), UNCHANGED published,
             UNCHANGED step \/ \E s \in Steps, new \in StepStatus : SetStep(j, s, new)
      PROVE  OwnRow(t, j)
  <2>1. pc'[t] = "stopping"
    BY <1>2 DEF Return, Leave, MoveTo, TypeOK
  <2>2. status'[j] = st /\ \A r \in Runs \ {j} : SameRow(r)
    <3>1. \A r \in Runs \ {j} : step'[r] = step[r]
      BY <1>2, RowStepped
    <3>2. /\ status'[j] = st
          /\ \A r \in Runs \ {j} : /\ status'[r] = status[r]
                                   /\ owner'[r] = owner[r] /\ lease'[r] = lease[r]
      BY <1>2, RowReleased
    <3> QED
      BY <1>2, <3>1, <3>2 DEF SameRow, SameSteps
  <2> QED
    BY <1>2, <2>1, <2>2 DEF OwnRow
<1>3. CASE DeferStep(t)
  <2>1. DeferredAs(t) \in StepStatus
    BY <1>3 DEF DeferStep, DeferredAs, Deferrals, StepStatus
  <2>2. pos[t] \in Steps
    BY DEF TypeOK
  <2> QED
    BY <1>3, <1>2, <2>1, <2>2 DEF DeferStep, Working, Located
<1>4. CASE FailStep(t) \/ BlockStep(t)
  <2>1. pos[t] \in Steps
    BY DEF TypeOK
  <2> QED
    BY <1>4, <1>2, <2>1 DEF FailStep, BlockStep, Working, Located, StepStatus
<1>5. CASE RecordFailure(t)
  BY <1>5, <1>2 DEF RecordFailure, Working, Located, StepStatus
<1>6. CASE CompleteRun(t) /\ Owned(t)
  BY <1>6, <1>2 DEF CompleteRun, Working, Located, stepVars
<1>7. CASE CompleteRun(t) /\ ~Owned(t)
  BY <1>7, <1>1 DEF CompleteRun, stepVars
<1>8. CASE StartStep(t)
  <2>1. /\ pos[t] \in Steps /\ SetStep(j, pos[t], "running") /\ pc[t] \in Working /\ Owned(t)
        /\ UNCHANGED <<status, owner, lease, published>>
    BY <1>8 DEF StartStep, Working, Located, TypeOK, runVars
  <2> QED
    BY <2>1, RowStepped DEF OwnRow, SameRow, SameSteps
<1>9. CASE Publish(t)
  <2>1. /\ pos[t] \in Steps /\ SetStep(j, pos[t], "succeeded") /\ pc[t] \in Working /\ Owned(t)
        /\ UNCHANGED <<status, owner, lease>>
        /\ \A r \in Runs \ {j} : published'[r] = published[r]
    BY <1>9 DEF Publish, Working, Located, TypeOK, runVars
  <2> QED
    BY <2>1, RowStepped DEF OwnRow, SameRow, SameSteps
<1> QED
  BY <1>1, <1>3, <1>4, <1>5, <1>6, <1>7, <1>8, <1>9
  DEF Execute, Begin, StartRaises, ReuseStep, HandlerEnds, PublishRaises, FinalizeLost,
      FinalizeRaises, DropFailure, RecordFailureRaises, Stop, runVars, stepVars

-----------------------------------------------------------------------------
(* What has ended stays ended. *)

LEMMA EndedNext ==
  ASSUME TypeOK, [Next]_vars, NEW r \in Runs, status[r] \in TerminalRun
  PROVE  status'[r] = status[r] /\ SameSteps(r)
<1>s. UNCHANGED <<status, step, published>> => status'[r] = status[r] /\ SameSteps(r)
  BY DEF SameSteps
<1>0. status[r] \notin {"absent", "pending", "running", "blocked"}
  BY DEF TerminalRun
<1>1. ASSUME NEW j \in Runs, Environment(j) PROVE status'[r] = status[r] /\ SameSteps(r)
  <2>1. CASE Enqueue(j)
    BY <2>1, <1>0 DEF Enqueue, TypeOK, SameSteps, stepVars
  <2>2. CASE ResumeBlocked(j)
    <3>1. /\ r # j /\ ReleaseTo(j, "pending") /\ UNCHANGED published
          /\ \E s \in Steps : SetStep(j, s, "pending")
      BY <2>2, <1>0 DEF ResumeBlocked
    <3>2. PICK s \in Steps : SetStep(j, s, "pending")
      BY <3>1
    <3>3. status'[r] = status[r]
      BY <3>1, RowReleased
    <3>4. step'[r] = step[r]
      BY <3>1, <3>2, RowStepped
    <3> QED
      BY <3>1, <3>3, <3>4 DEF SameSteps
  <2>3. CASE Cancel(j)
    <3>1. r # j /\ ReleaseTo(j, "cancelled") /\ UNCHANGED published /\ CancelSteps(j)
      BY <2>3, <1>0 DEF Cancel
    <3> QED
      BY <3>1, RowReleased, RowCancelled DEF SameSteps
  <2>4. CASE CancelRunOnly(j)
    <3>1. r # j /\ ReleaseTo(j, "cancelled") /\ UNCHANGED <<step, published>>
      BY <2>4, <1>0 DEF CancelRunOnly, stepVars
    <3> QED
      BY <3>1, RowReleased DEF SameSteps
  <2> QED
    BY <1>1, <1>s, <2>1, <2>2, <2>3, <2>4
    DEF Environment, BecomeDue, LeaseRunsOut, LeaseLapses, BreakInput, PassDeadline, runVars, stepVars
<1>2. ASSUME NEW t \in Threads, NEW j \in Runs, Claim(t, j)
      PROVE  status'[r] = status[r] /\ SameSteps(r)
  BY <1>2, <1>0 DEF Claim, Eligible, TypeOK, SameSteps, stepVars
<1>3. ASSUME NEW t \in Threads, NEW j \in Runs, Retire(t, j)
      PROVE  status'[r] = status[r] /\ SameSteps(r)
  <2>1. r # j /\ ReleaseTo(j, "failed") /\ UNCHANGED published /\ CancelSteps(j)
    BY <1>3, <1>0 DEF Retire, Eligible
  <2> QED
    BY <2>1, RowReleased, RowCancelled DEF SameSteps
<1>4. ASSUME NEW t \in Threads, Execute(t) PROVE status'[r] = status[r] /\ SameSteps(r)
  <2>1. PICK j \in Runs : j = job[t]
    BY <1>4, ThreadAtWork
  <2>2. OwnRow(t, j)
    BY <1>4, <2>1, ExecuteWrites
  <2>3. Owned(t) => r # j
    BY <2>1, <1>0 DEF Owned
  <2> QED
    BY <2>2, <2>3 DEF OwnRow, SameRow
<1> QED
  BY <1>s, <1>1, <1>2, <1>3, <1>4
  DEF Next, Crash, Heartbeat, HeartbeatDies, TxFails, vars, runVars, stepVars

\* EndedIsFinal: nothing a late thread, a cancelled run's handler or a second
\* claim does can touch a run that has ended, or its checkpoints.
THEOREM Finality == Spec => EndedIsFinal
<1>1. TypeOK /\ [Next]_vars =>
        [\A r \in Runs : status[r] \in TerminalRun =>
            /\ status'[r] = status[r]
            /\ step'[r] = step[r]
            /\ published'[r] = published[r]]_vars
  BY EndedNext DEF SameSteps
<1> QED
  BY <1>1, TypeCorrect, PTL DEF Spec, EndedIsFinal

-----------------------------------------------------------------------------
(***************************************************************************)
(* The lock on the subject.  It rests on the lease: as long as a lease     *)
(* does not lapse under a living heartbeat, a heartbeat never brings an    *)
(* expired lease back to life behind the back of a later claim.            *)
(***************************************************************************)

BeatsLive(t) == beating[t] => pc[t] \in Located /\ (Owned(t) => lease[job[t]] = "live")

SubjectInv == TypeOK /\ (\A t \in Threads : BeatsLive(t)) /\ SubjectExclusive

\* No row begins to run or has its lease renewed.
NoNewLive == \A r \in Runs : status'[r] = "running" =>
                /\ status[r] = "running" /\ owner'[r] = owner[r]
                /\ lease'[r] = "live" => lease[r] = "live"

LEMMA NoNewLiveExclusive ==
  ASSUME SubjectExclusive, NoNewLive
  PROVE  SubjectExclusive'
  BY DEF SubjectExclusive, NoNewLive

LEMMA ReleasedNoNewLive ==
  ASSUME TypeOK, NEW r \in Runs, NEW st, ReleaseTo(r, st), st # "running"
  PROVE  NoNewLive
  BY RowReleased DEF NoNewLive

LEMMA SubjectNext == ~Stalls /\ SubjectInv /\ [Next]_vars => SubjectInv'
<1> SUFFICES ASSUME ~Stalls, SubjectInv, [Next]_vars
             PROVE  (\A t \in Threads : BeatsLive(t)') /\ SubjectExclusive'
  BY TypeNext DEF SubjectInv
<1> DEFINE Goal == (\A t \in Threads : BeatsLive(t)') /\ SubjectExclusive'
<1>t. TypeOK /\ SubjectExclusive /\ \A t \in Threads : BeatsLive(t)
  BY DEF SubjectInv
<1>j. \A t \in Threads : pc[t] \in Located => job[t] \in Runs
  BY <1>t DEF TypeOK
<1>s. ASSUME UNCHANGED <<pc, job, beating>>, NoNewLive,
             \A r \in Runs : status'[r] = "running" => lease'[r] = lease[r]
      PROVE  Goal
  BY <1>s, <1>t, <1>j, NoNewLiveExclusive DEF BeatsLive, Owned, NoNewLive
<1>same. ASSUME UNCHANGED <<status, owner, lease, pc, job, beating>> PROVE Goal
  <2>1. NoNewLive /\ \A r \in Runs : status'[r] = "running" => lease'[r] = lease[r]
    BY <1>same DEF NoNewLive
  <2> QED
    BY <1>same, <2>1, <1>s
<1>release. ASSUME NEW r \in Runs, NEW st, ReleaseTo(r, st), st # "running",
                   UNCHANGED <<pc, job, beating>>
            PROVE  Goal
  <2>1. NoNewLive
    BY <1>release, <1>t, ReleasedNoNewLive
  <2>2. \A q \in Runs : status'[q] = "running" => lease'[q] = lease[q]
    BY <1>release, <1>t, RowReleased
  <2> QED
    BY <1>release, <2>1, <2>2, <1>s
<1>1. ASSUME NEW r \in Runs, Environment(r) PROVE Goal
  <2>1. CASE Enqueue(r)
    <3>1. NoNewLive /\ UNCHANGED <<lease, pc, job, beating>>
      BY <2>1, <1>t DEF Enqueue, TypeOK, NoNewLive, threadVars
    <3> QED
      BY <3>1, <1>s
  <2>2. CASE ResumeBlocked(r) \/ Cancel(r) \/ CancelRunOnly(r)
    BY <2>2, <1>release DEF ResumeBlocked, Cancel, CancelRunOnly, threadVars
  <2>3. CASE LeaseRunsOut(r)
    <3>1. /\ lease' = [lease EXCEPT ![r] = "expired"]
          /\ UNCHANGED <<status, owner, pc, job, beating>>
          /\ \A t \in Threads : ~(beating[t] /\ job[t] = r /\ ProcessOf[t] = owner[r])
      BY <2>3 DEF LeaseRunsOut, threadVars
    <3>2. \A q \in Runs : lease'[q] = IF q = r THEN "expired" ELSE lease[q]
      BY <3>1, <1>t DEF TypeOK
    <3>3. NoNewLive
      BY <3>1, <3>2 DEF NoNewLive
    <3>4. \A t \in Threads : BeatsLive(t)'
      BY <3>1, <3>2, <1>t, <1>j DEF BeatsLive, Owned
    <3> QED
      BY <3>3, <3>4, <1>t, NoNewLiveExclusive
  <2> QED
    BY <1>1, <1>same, <2>1, <2>2, <2>3
    DEF Environment, BecomeDue, LeaseLapses, BreakInput, PassDeadline, runVars, threadVars
<1>2. ASSUME NEW w \in Workers, Crash(w) PROVE Goal
  <2>1. /\ UNCHANGED <<status, owner, lease>>
        /\ \A t \in Threads : beating'[t] => beating[t] /\ pc'[t] = pc[t] /\ job'[t] = job[t]
    BY <1>2 DEF Crash, runVars
  <2>2. \A t \in Threads : BeatsLive(t)'
    BY <2>1, <1>t DEF BeatsLive, Owned
  <2> QED
    BY <2>1, <2>2, <1>t DEF SubjectExclusive
<1>3. ASSUME NEW t \in Threads, NEW r \in Runs, Claim(t, r) PROVE Goal
  <2>1. /\ \A q \in Runs \ {r} : status'[q] = status[q] /\ owner'[q] = owner[q] /\ lease'[q] = lease[q]
        /\ status'[r] = "running" /\ lease'[r] = "live"
        /\ pc'[t] = "claimed" /\ job'[t] = r
        /\ \A u \in Threads \ {t} : pc'[u] = pc[u] /\ job'[u] = job[u] /\ beating'[u] = beating[u]
    BY <1>3, <1>t DEF Claim, MoveTo, TypeOK
  <2>2. \A u \in Threads : BeatsLive(u)'
    BY <2>1, <1>t, <1>j DEF BeatsLive, Owned, Located
  <2>3. \A q \in Runs \ {r} : SubjectOf[q] = SubjectOf[r] => ~(status[q] = "running" /\ lease[q] = "live")
    BY <1>3 DEF Claim, ActiveSameSubject
  <2>4. SubjectExclusive'
    BY <2>1, <2>3, <1>t DEF SubjectExclusive
  <2> QED
    BY <2>2, <2>4
<1>4. ASSUME NEW t \in Threads, NEW r \in Runs, Retire(t, r) PROVE Goal
  BY <1>4, <1>release DEF Retire, threadVars
<1>5. ASSUME NEW t \in Threads, Heartbeat(t) PROVE Goal
  <2>0. beating[t] /\ pc[t] \in Located /\ job[t] \in Runs /\ UNCHANGED <<status, owner, pc, job>>
    BY <1>5, <1>j DEF Heartbeat
  <2>1. CASE Owned(t)
    <3>1. lease' = [lease EXCEPT ![job[t]] = "live"] /\ UNCHANGED beating
      BY <1>5, <2>1, Zenon DEF Heartbeat
    <3>2. lease[job[t]] = "live"
      BY <2>0, <2>1, <1>t DEF BeatsLive
    <3>3. lease' = lease
      BY <2>0, <3>1, <3>2, <1>t DEF TypeOK
    <3> QED
      BY <2>0, <3>1, <3>3, <1>same
  <2>2. CASE ~Owned(t)
    <3>1. beating' = [beating EXCEPT ![t] = FALSE] /\ UNCHANGED lease
      BY <1>5, <2>2, Zenon DEF Heartbeat
    <3>2. \A u \in Threads : beating'[u] => beating[u]
      BY <3>1, <1>t DEF TypeOK
    <3>3. \A u \in Threads : BeatsLive(u)'
      BY <2>0, <3>1, <3>2, <1>t DEF BeatsLive, Owned
    <3> QED
      BY <2>0, <3>1, <3>3, <1>t DEF SubjectExclusive
  <2> QED
    BY <2>1, <2>2
<1>6. ASSUME NEW t \in Threads, Execute(t) PROVE Goal
  <2>1. PICK j \in Runs : j = job[t]
    BY <1>6, <1>t, ThreadAtWork
  <2>2. OwnRow(t, j) /\ OwnMove(t)
    BY <1>6, <2>1, <1>t, ExecuteWrites, ExecuteMoves
  <2>3. NoNewLive /\ \A r \in Runs : status'[r] = "running" => lease'[r] = lease[r]
    BY <2>2 DEF OwnRow, SameRow, NoNewLive
  <2>4. \A u \in Threads : BeatsLive(u)'
    BY <2>2, <2>3, <1>t, <1>j DEF BeatsLive, Owned, OwnMove, NoNewLive
  <2> QED
    BY <2>3, <2>4, <1>t, NoNewLiveExclusive
<1>7. ASSUME NEW t \in Threads, TxFails(t) PROVE Goal
  <2>1. /\ UNCHANGED <<status, owner, lease, job, beating>>
        /\ \A u \in Threads : pc'[u] # pc[u] => pc'[u] \in Located
    BY <1>7, <1>t DEF TxFails, Leave, MoveTo, TypeOK, Located, runVars
  <2>2. \A u \in Threads : BeatsLive(u)'
    BY <2>1, <1>t DEF BeatsLive, Owned
  <2> QED
    BY <2>1, <2>2, <1>t DEF SubjectExclusive
<1>8. CASE UNCHANGED vars
  BY <1>8, <1>same DEF vars, runVars, threadVars
<1> QED
  BY <1>1, <1>2, <1>3, <1>4, <1>5, <1>6, <1>7, <1>8 DEF Next, HeartbeatDies

\* As long as no lease lapses under a living heartbeat, two runs of one subject
\* never execute at the same time: crashes, retries, cancellations and
\* administrators cannot break the subject lock.
THEOREM SubjectLock == ASSUME ~Stalls PROVE Spec => []SubjectExclusive
<1>1. Init => SubjectInv
  BY TypeInit DEF Init, SubjectInv, BeatsLive, SubjectExclusive
<1>2. SubjectInv /\ [Next]_vars => SubjectInv'
  BY SubjectNext
<1>3. SubjectInv => SubjectExclusive
  BY DEF SubjectInv
<1> QED
  BY <1>1, <1>2, <1>3, PTL DEF Spec

-----------------------------------------------------------------------------
(***************************************************************************)
(* Publication.  require_owned_run compares the worker_id, so it tells two *)
(* executors of a run apart only if they are two processes, or if there    *)
(* never are two.  Under either condition at most one thread at work owns  *)
(* a run, what it found "running" stays so until it publishes, and a step  *)
(* is published once.                                                      *)
(***************************************************************************)

Fenced == ~Stalls \/ \A t, u \in Threads : ProcessOf[t] = ProcessOf[u] => t = u

Holding(t) == pc[t] \in Working /\ Owned(t)

\* Without lapsing leases a thread at work keeps its run until it is cancelled.
Kept(t) ==
    ~Stalls /\ pc[t] \in Working =>
        \/ status[job[t]] = "cancelled"
        \/ Owned(t) /\ lease[job[t]] = "live" /\ beating[t]

OneHolder == \A t, u \in Threads : Holding(t) /\ Holding(u) /\ job[t] = job[u] => t = u

\* The step a thread that owns its run has started is still running.
Started(t) ==
    pc[t] \in {"handler", "finalize"} /\ Owned(t) => step[job[t]][pos[t]] = "running"

FenceInv ==
    /\ IInv
    /\ \A t \in Threads : Kept(t)
    /\ OneHolder
    /\ \A t \in Threads : Started(t)
    /\ PublishedOnce

\* The thread is, after a step, at most where it was before: at work on the
\* same step of the same run, whose row is as it was or no longer running.
Undisturbed(t) ==
    /\ pc'[t] \in Working => pc[t] \in Working /\ job'[t] = job[t] /\ beating'[t] = beating[t]
    /\ Holding(t)' => /\ Holding(t) /\ SameSteps(job[t])
                      /\ pc'[t] = pc[t] /\ pos'[t] = pos[t]
    /\ \/ status'[job[t]] = "cancelled"
       \/ /\ status'[job[t]] = status[job[t]] /\ owner'[job[t]] = owner[job[t]]
          /\ lease'[job[t]] = lease[job[t]]
       \/ Stalls

LEMMA UndisturbedInv ==
  ASSUME NEW t \in Threads, Kept(t), Started(t), Undisturbed(t)
  PROVE  Kept(t)' /\ Started(t)'
<1>1. Started(t)'
  BY DEF Started, Undisturbed, Holding, SameSteps, Working, Located
<1>2. Kept(t)'
  BY DEF Kept, Undisturbed, Holding, Owned
<1> QED
  BY <1>1, <1>2

LEMMA UndisturbedOneHolder ==
  ASSUME OneHolder, \A t \in Threads : Holding(t)' => Holding(t) /\ job'[t] = job[t]
  PROVE  OneHolder'
  BY DEF OneHolder

\* Nobody but the owner of a run touches its row while the owner is at work,
\* apart from cancelling it.
LEMMA FenceExecute ==
  ASSUME Fenced, FenceInv, NEW t \in Threads, Execute(t),
         NEW j \in Runs, j = job[t], NEW p \in Steps, p = pos[t]
  PROVE  (\A u \in Threads : Kept(u)' /\ Started(u)') /\ OneHolder'
<1>t. TypeOK /\ OneHolder /\ \A u \in Threads : Kept(u) /\ Started(u)
  BY DEF FenceInv, IInv
<1>1. OwnMove(t) /\ OwnRow(t, j)
  BY <1>t, ExecuteMoves, ExecuteWrites
<1>2. ASSUME NEW u \in Threads \ {t} PROVE Kept(u)' /\ Started(u)' /\ (Holding(u)' => Holding(u) /\ job'[u] = job[u])
  <2>1. pc'[u] = pc[u] /\ job'[u] = job[u] /\ pos'[u] = pos[u] /\ beating'[u] = beating[u]
    BY <1>1 DEF OwnMove
  <2>2. pc[u] \in Working => job[u] \in Runs
    BY <1>t DEF TypeOK, Working, Located
  <2>3. CASE pc[u] \notin Working
    BY <2>1, <2>3 DEF Kept, Started, Holding, Working, Located
  <2>4. CASE pc[u] \in Working /\ SameRow(job[u])
    <3>1. Undisturbed(u)
      BY <2>1, <2>4 DEF Undisturbed, SameRow, Holding, Owned
    <3> QED
      BY <1>t, <2>1, <3>1, UndisturbedInv DEF Undisturbed
  <2>5. CASE pc[u] \in Working /\ ~SameRow(job[u])
    <3>1. job[u] = j /\ Holding(t)
      BY <1>1, <2>2, <2>5 DEF OwnRow, Holding
    <3>2. ~Holding(u)
      BY <1>t, <3>1 DEF OneHolder
    <3>3. ~(Holding(u)')
      BY <1>1, <2>1, <2>2, <2>5, <3>1, <3>2 DEF OwnRow, Holding, Owned
    <3>4. Stalls
      BY <1>t, <2>5, <3>1, <3>2 DEF Kept, Holding, Owned
    <3> QED
      BY <2>1, <3>3, <3>4 DEF Kept, Started, Holding, Working, Located
  <2> QED
    BY <2>3, <2>4, <2>5
<1>3. pc'[t] \in Working =>
        /\ pc[t] \in Working /\ job'[t] = j /\ beating'[t] = beating[t]
        /\ status'[j] = status[j] /\ owner'[j] = owner[j] /\ lease'[j] = lease[j]
  BY <1>1 DEF OwnMove, OwnRow, SameRow, Working, Located
<1>4. Kept(t)' /\ (Holding(t)' => Holding(t) /\ job'[t] = job[t])
  BY <1>t, <1>3 DEF Kept, Holding, Owned
<1>5. Started(t)'
  <2>1. CASE pc'[t] \notin {"handler", "finalize"}
    BY <2>1 DEF Started
  <2>2. CASE StartStep(t)
    BY <2>2, <1>t DEF StartStep, SetStep, Started, TypeOK
  <2>3. CASE \E o \in Outcomes : HandlerEnds(t, o) \/ PublishRaises(t, o)
    <3>1. /\ pc[t] \in {"handler", "finalize"}
          /\ UNCHANGED <<status, owner, step, job, pos>>
      BY <2>3 DEF HandlerEnds, PublishRaises, runVars, stepVars
    <3> QED
      BY <3>1, <1>t DEF Started, Owned
  <2>4. CASE \E place \in {"start", "failing", "stopping", "idle"} : Leave(t, place)
    BY <2>4, <2>1, <1>t DEF Leave, MoveTo, TypeOK
  <2>5. CASE Advance(t)
    BY <2>5, <2>1, <1>t DEF Advance, MoveTo, TypeOK
  <2> QED
    BY <2>2, <2>3, <2>4, <2>5
    DEF Execute, Begin, StartRaises, ReuseStep, FinalizeLost, Publish, DeferStep, FailStep,
        BlockStep, FinalizeRaises, CompleteRun, DropFailure, RecordFailure,
        RecordFailureRaises, Stop, Raise, Return
<1>6. \A u \in Threads : Holding(u)' => Holding(u) /\ job'[u] = job[u]
  BY <1>2, <1>4
<1> QED
  BY <1>t, <1>2, <1>4, <1>5, <1>6, UndisturbedOneHolder

\* A run whose status is not "running" has no holder, and one that is cancelled
\* or still running under a live lease is all that a thread at work can have.
LEMMA FenceEnvironment ==
  ASSUME FenceInv, NEW j \in Runs, Environment(j)
  PROVE  (\A u \in Threads : Kept(u)' /\ Started(u)') /\ OneHolder'
<1>t. TypeOK /\ OneHolder /\ \A u \in Threads : Kept(u) /\ Started(u)
  BY DEF FenceInv, IInv
<1>0. UNCHANGED <<pc, job, pos, beating>> /\ \A u \in Threads : pc[u] \in Working => job[u] \in Runs
  BY <1>t
  DEF Environment, Enqueue, ResumeBlocked, Cancel, CancelRunOnly, BecomeDue, LeaseRunsOut,
      LeaseLapses, BreakInput, PassDeadline, threadVars, TypeOK, Working, Located
<1>1. ASSUME NEW u \in Threads PROVE Kept(u)' /\ Started(u)' /\ (Holding(u)' => Holding(u))
  <2>1. CASE pc[u] \notin Working
    BY <1>0, <2>1 DEF Kept, Started, Holding, Working, Located
  <2>2. CASE pc[u] \in Working /\ SameRow(job[u])
    <3>1. Undisturbed(u)
      BY <1>0, <2>2 DEF Undisturbed, SameRow, Holding, Owned
    <3> QED
      BY <1>t, <3>1, UndisturbedInv DEF Undisturbed
  <2>3. CASE pc[u] \in Working /\ job[u] = j /\ (Cancel(j) \/ CancelRunOnly(j))
    <3>1. status'[j] = "cancelled"
      BY <2>3, <1>t, RowReleased DEF Cancel, CancelRunOnly
    <3> QED
      BY <1>0, <2>3, <3>1 DEF Kept, Started, Holding, Owned
  <2>4. CASE pc[u] \in Working /\ job[u] = j /\ (Enqueue(j) \/ ResumeBlocked(j))
    <3>1. status[j] \in {"absent", "blocked"} /\ status'[j] = "pending"
      BY <2>4, <1>t, RowReleased DEF Enqueue, ResumeBlocked, TypeOK
    <3>2. Stalls
      BY <1>t, <2>4, <3>1 DEF Kept, Owned
    <3> QED
      BY <1>0, <2>4, <3>1, <3>2 DEF Kept, Started, Holding, Owned
  <2>5. CASE pc[u] \in Working /\ job[u] = j /\ (LeaseRunsOut(j) \/ LeaseLapses(j))
    <3>1. Stalls \/ ~Holding(u) \/ ~beating[u]
      BY <2>5 DEF LeaseRunsOut, LeaseLapses, Holding, Owned
    <3>2. status[j] = "running" /\ UNCHANGED <<status, owner, step>>
      BY <2>5 DEF LeaseRunsOut, LeaseLapses, stepVars
    <3>3. Stalls
      BY <1>t, <2>5, <3>1, <3>2 DEF Kept, Holding
    <3> QED
      BY <1>0, <1>t, <3>2, <3>3 DEF Kept, Started, Holding, Owned
  <2>6. SameRow(job[u]) \/ job[u] = j \/ pc[u] \notin Working
    <3>1. \A r \in Runs \ {j} : SameRow(r)
      <4>1. CASE Enqueue(j) \/ LeaseRunsOut(j) \/ LeaseLapses(j)
        BY <4>1, <1>t DEF Enqueue, LeaseRunsOut, LeaseLapses, TypeOK, SameRow, SameSteps, stepVars
      <4>2. CASE Cancel(j)
        BY <4>2, <1>t, RowReleased, RowCancelled DEF Cancel, SameRow, SameSteps
      <4>3. CASE CancelRunOnly(j)
        BY <4>3, <1>t, RowReleased DEF CancelRunOnly, SameRow, SameSteps, stepVars
      <4>4. CASE ResumeBlocked(j)
        <5>1. PICK s \in Steps : SetStep(j, s, "pending")
          BY <4>4 DEF ResumeBlocked
        <5>2. \A r \in Runs \ {j} : step'[r] = step[r]
          BY <5>1, <1>t, RowStepped
        <5> QED
          BY <4>4, <5>2, <1>t, RowReleased DEF ResumeBlocked, SameRow, SameSteps
      <4> QED
        BY <4>1, <4>2, <4>3, <4>4
        DEF Environment, BecomeDue, BreakInput, PassDeadline, SameRow, SameSteps, runVars, stepVars
    <3> QED
      BY <1>0, <3>1
  <2> QED
    BY <2>1, <2>2, <2>3, <2>4, <2>5, <2>6
    DEF Environment, BecomeDue, BreakInput, PassDeadline, SameRow, SameSteps, runVars, stepVars
<1> QED
  BY <1>0, <1>1, <1>t, UndisturbedOneHolder

\* Nobody can claim or retire a run that a fenced thread at work still holds.
LEMMA NotEligible ==
  ASSUME ~Stalls, FenceInv, NEW u \in Threads, pc[u] \in Working
  PROVE  ~Eligible(job[u])
  BY DEF FenceInv, Kept, Eligible, Owned

LEMMA FenceClaim ==
  ASSUME Fenced, FenceInv, NEW t \in Threads, NEW j \in Runs, Claim(t, j)
  PROVE  (\A u \in Threads : Kept(u)' /\ Started(u)') /\ OneHolder'
<1>t. TypeOK /\ OneHolder /\ \A u \in Threads : Kept(u) /\ Started(u)
  BY DEF FenceInv, IInv
<1>1. /\ pc[t] = "idle" /\ pc'[t] = "claimed" /\ job'[t] = j /\ beating'[t]
      /\ status'[j] = "running" /\ owner'[j] = ProcessOf[t] /\ lease'[j] = "live"
      /\ \A r \in Runs \ {j} : SameRow(r)
      /\ UNCHANGED step
      /\ \A u \in Threads \ {t} : pc'[u] = pc[u] /\ job'[u] = job[u] /\ pos'[u] = pos[u] /\ beating'[u] = beating[u]
      /\ Eligible(j)
  BY <1>t DEF Claim, MoveTo, TypeOK, SameRow, SameSteps, stepVars
<1>2. Kept(t)' /\ Started(t)'
  BY <1>1 DEF Kept, Started, Owned
<1>3. ASSUME NEW u \in Threads \ {t}
      PROVE  Kept(u)' /\ Started(u)' /\ (Holding(u)' => Holding(u) /\ job'[u] = job[u] /\ job[u] # j)
  <2>1. pc[u] \in Working => job[u] \in Runs
    BY <1>t DEF TypeOK, Working, Located
  <2>2. CASE pc[u] \notin Working
    BY <1>1, <2>2 DEF Kept, Started, Holding, Working, Located
  <2>3. CASE pc[u] \in Working /\ job[u] # j
    <3>1. Undisturbed(u) /\ job'[u] = job[u]
      BY <1>1, <2>1, <2>3 DEF Undisturbed, SameRow, Holding, Owned
    <3> QED
      BY <1>t, <2>3, <3>1, UndisturbedInv DEF Undisturbed
  <2>4. CASE pc[u] \in Working /\ job[u] = j
    <3>1. Stalls
      BY <1>1, <2>4, NotEligible
    <3>2. ProcessOf[u] # ProcessOf[t]
      BY <3>1 DEF Fenced
    <3>3. ~(Holding(u)') /\ ~(Owned(u)')
      BY <1>1, <2>4, <3>2 DEF Holding, Owned
    <3> QED
      BY <1>1, <3>1, <3>3 DEF Kept, Started
  <2> QED
    BY <2>2, <2>3, <2>4
<1>4. OneHolder'
  <2> SUFFICES ASSUME NEW u \in Threads, NEW v \in Threads, Holding(u)', Holding(v)', job'[u] = job'[v]
               PROVE  u = v
    BY DEF OneHolder
  <2>1. CASE u # t /\ v # t
    BY <1>t, <1>3, <2>1 DEF OneHolder
  <2>2. CASE u = t \/ v = t
    BY <1>1, <1>3, <2>2
  <2> QED
    BY <2>1, <2>2
<1> QED
  BY <1>2, <1>3, <1>4

LEMMA FenceRetire ==
  ASSUME FenceInv, NEW t \in Threads, NEW j \in Runs, Retire(t, j)
  PROVE  (\A u \in Threads : Kept(u)' /\ Started(u)') /\ OneHolder'
<1>t. TypeOK /\ OneHolder /\ \A u \in Threads : Kept(u) /\ Started(u)
  BY DEF FenceInv, IInv
<1>1. /\ status'[j] = "failed" /\ Eligible(j)
      /\ UNCHANGED <<pc, job, pos, beating>>
  BY <1>t, RowReleased DEF Retire, threadVars
<1>2. \A r \in Runs \ {j} : SameRow(r)
  BY <1>t, RowReleased, RowCancelled DEF Retire, SameRow, SameSteps
<1>3. ASSUME NEW u \in Threads PROVE Kept(u)' /\ Started(u)' /\ (Holding(u)' => Holding(u))
  <2>1. pc[u] \in Working => job[u] \in Runs
    BY <1>t DEF TypeOK, Working, Located
  <2>2. CASE pc[u] \notin Working
    BY <1>1, <2>2 DEF Kept, Started, Holding, Working, Located
  <2>3. CASE pc[u] \in Working /\ job[u] # j
    <3>1. Undisturbed(u)
      BY <1>1, <1>2, <2>1, <2>3 DEF Undisturbed, SameRow, Holding, Owned
    <3> QED
      BY <1>t, <3>1, UndisturbedInv DEF Undisturbed
  <2>4. CASE pc[u] \in Working /\ job[u] = j
    <3>1. Stalls
      BY <1>1, <2>4, NotEligible
    <3> QED
      BY <1>1, <2>4, <3>1 DEF Kept, Started, Holding, Owned
  <2> QED
    BY <2>2, <2>3, <2>4
<1> QED
  BY <1>1, <1>3, <1>t, UndisturbedOneHolder

LEMMA FenceHeartbeat ==
  ASSUME FenceInv, NEW t \in Threads, Heartbeat(t) \/ HeartbeatDies(t)
  PROVE  (\A u \in Threads : Kept(u)' /\ Started(u)') /\ OneHolder'
<1>t. TypeOK /\ OneHolder /\ \A u \in Threads : Kept(u) /\ Started(u)
  BY DEF FenceInv, IInv
<1>1. UNCHANGED <<status, owner, step, pc, job, pos>>
  BY DEF Heartbeat, HeartbeatDies, stepVars, runVars
<1>2. \A u \in Threads : Started(u)' /\ (Holding(u)' => Holding(u))
  BY <1>1, <1>t DEF Started, Holding, Owned
<1>3. ASSUME NEW u \in Threads PROVE Kept(u)'
  <2>1. CASE HeartbeatDies(t)
    BY <2>1 DEF HeartbeatDies, Kept
  <2>2. CASE Heartbeat(t) /\ Owned(t)
    <3>1. lease' = [lease EXCEPT ![job[t]] = "live"] /\ UNCHANGED beating
      BY <2>2, Zenon DEF Heartbeat
    <3>2. \A r \in Runs : lease[r] = "live" => lease'[r] = "live"
      BY <3>1, <1>t DEF TypeOK
    <3>3. pc[u] \in Working => job[u] \in Runs
      BY <1>t DEF TypeOK, Working, Located
    <3> QED
      BY <1>1, <3>1, <3>2, <3>3, <1>t DEF Kept, Owned
  <2>3. CASE Heartbeat(t) /\ ~Owned(t)
    <3>1. beating' = [beating EXCEPT ![t] = FALSE] /\ UNCHANGED lease
      BY <2>3, Zenon DEF Heartbeat
    <3>2. u # t => beating'[u] = beating[u]
      BY <3>1, <1>t DEF TypeOK
    <3> QED
      BY <1>1, <2>3, <3>1, <3>2, <1>t DEF Kept, Owned
  <2> QED
    BY <2>1, <2>2, <2>3
<1> QED
  BY <1>1, <1>2, <1>3, <1>t, UndisturbedOneHolder

LEMMA FenceCrash ==
  ASSUME FenceInv, NEW w \in Workers, Crash(w)
  PROVE  (\A u \in Threads : Kept(u)' /\ Started(u)') /\ OneHolder'
<1>t. OneHolder /\ \A u \in Threads : Kept(u) /\ Started(u)
  BY DEF FenceInv
<1>1. ASSUME NEW u \in Threads
      PROVE  Kept(u)' /\ Started(u)' /\ (Holding(u)' => Holding(u) /\ job'[u] = job[u])
  <2>1. UNCHANGED <<status, owner, lease, step>>
    BY DEF Crash, runVars, stepVars
  <2>2. CASE ProcessOf[u] = w
    <3>1. pc'[u] = "dead"
      BY <2>2 DEF Crash
    <3> QED
      BY <3>1 DEF Kept, Started, Holding, Working, Located
  <2>3. CASE ProcessOf[u] # w
    <3>1. pc'[u] = pc[u] /\ job'[u] = job[u] /\ pos'[u] = pos[u] /\ beating'[u] = beating[u]
      BY <2>3 DEF Crash
    <3> QED
      BY <2>1, <3>1, <1>t DEF Kept, Started, Holding, Owned
  <2> QED
    BY <2>2, <2>3
<1> QED
  BY <1>t, <1>1, UndisturbedOneHolder

LEMMA FenceTxFails ==
  ASSUME FenceInv, NEW t \in Threads, TxFails(t)
  PROVE  (\A u \in Threads : Kept(u)' /\ Started(u)') /\ OneHolder'
<1>t. TypeOK /\ OneHolder /\ \A u \in Threads : Kept(u) /\ Started(u)
  BY DEF FenceInv, IInv
<1>1. /\ UNCHANGED <<status, owner, lease, step, job, beating>>
      /\ pc[t] \in Working /\ pc'[t] \in {"stopping", "failing"}
      /\ \A u \in Threads \ {t} : pc'[u] = pc[u] /\ pos'[u] = pos[u]
  BY <1>t DEF TxFails, Leave, MoveTo, TypeOK, Working, Located, runVars, stepVars
<1>2. \A u \in Threads : Kept(u)' /\ Started(u)' /\ (Holding(u)' => Holding(u))
  BY <1>1, <1>t DEF Kept, Started, Holding, Owned
<1> QED
  BY <1>1, <1>2, <1>t, UndisturbedOneHolder

\* A publication is the first of its step, since the step was still running.
LEMMA OncePublished == FenceInv /\ [Next]_vars => PublishedOnce'
<1> SUFFICES ASSUME FenceInv, [Next]_vars PROVE PublishedOnce'
  OBVIOUS
<1>t. TypeOK /\ PublishedOnce
  BY DEF FenceInv, IInv
<1>s. UNCHANGED published => PublishedOnce'
  BY <1>t DEF PublishedOnce
<1>1. ASSUME NEW t \in Threads, Publish(t) PROVE PublishedOnce'
  <2>1. PICK j \in Runs, p \in Steps : j = job[t] /\ p = pos[t]
    BY <1>1, <1>t DEF Publish, TypeOK, Located
  <2>2. step[j][p] = "running"
    BY <1>1, <2>1 DEF FenceInv, Started, Publish
  <2>3. published[j][p] = 0
    BY <2>2, <1>t, RowTyped DEF FenceInv, IInv, RowInv, Recorded
  <2>4. published' = [published EXCEPT ![j][p] = Bump(@, 2)]
    BY <1>1, <2>1 DEF Publish
  <2>5. Bump(0, 2) = 1
    BY DEF Bump
  <2>6. published[j] \in [Steps -> 0..2] /\ published \in [Runs -> [Steps -> 0..2]]
    BY <1>t DEF TypeOK
  <2>7. \A r \in Runs, s \in Steps : published'[r][s] = IF r = j /\ s = p THEN 1 ELSE published[r][s]
    BY <2>3, <2>4, <2>5, <2>6
  <2> QED
    BY <2>7, <1>t DEF PublishedOnce
<1>2. CASE \E r \in Runs : Environment(r)
  BY <1>2, <1>s
  DEF Environment, Enqueue, ResumeBlocked, Cancel, CancelRunOnly, BecomeDue, LeaseRunsOut,
      LeaseLapses, BreakInput, PassDeadline, stepVars
<1>3. ASSUME NEW t \in Threads, Execute(t) PROVE PublishedOnce'
  BY <1>3, <1>1, <1>s
  DEF Execute, Begin, StartRaises, ReuseStep, StartStep, HandlerEnds, PublishRaises,
      FinalizeLost, DeferStep, FailStep, BlockStep, FinalizeRaises, CompleteRun,
      DropFailure, RecordFailure, RecordFailureRaises, Stop, stepVars
<1> QED
  BY <1>s, <1>2, <1>3
  DEF Next, Crash, Claim, Retire, Heartbeat, HeartbeatDies, TxFails, vars, stepVars

LEMMA FenceNext == Fenced /\ FenceInv /\ [Next]_vars => FenceInv'
<1> SUFFICES ASSUME Fenced, FenceInv, [Next]_vars PROVE FenceInv'
  OBVIOUS
<1> DEFINE Goal == (\A u \in Threads : Kept(u)' /\ Started(u)') /\ OneHolder'
<1>1. IInv' /\ PublishedOnce'
  BY IInvNext, OncePublished DEF FenceInv
<1>2. ASSUME NEW r \in Runs, Environment(r) PROVE Goal
  BY <1>2, FenceEnvironment
<1>3. ASSUME NEW w \in Workers, Crash(w) PROVE Goal
  BY <1>3, FenceCrash
<1>4. ASSUME NEW t \in Threads, NEW r \in Runs, Claim(t, r) \/ Retire(t, r) PROVE Goal
  BY <1>4, FenceClaim, FenceRetire
<1>5. ASSUME NEW t \in Threads, Heartbeat(t) \/ HeartbeatDies(t) PROVE Goal
  BY <1>5, FenceHeartbeat
<1>6. ASSUME NEW t \in Threads, Execute(t) PROVE Goal
  <2>1. PICK j \in Runs, p \in Steps : j = job[t] /\ p = pos[t]
    BY <1>6, ThreadAtWork DEF FenceInv, IInv
  <2> QED
    BY <1>6, <2>1, FenceExecute
<1>7. ASSUME NEW t \in Threads, TxFails(t) PROVE Goal
  BY <1>7, FenceTxFails
<1>8. ASSUME UNCHANGED vars PROVE Goal
  <2>1. UNCHANGED <<status, owner, lease, step, pc, job, pos, beating>>
    BY <1>8 DEF vars, runVars, stepVars, threadVars
  <2>2. \A u \in Threads : Kept(u)' /\ Started(u)' /\ (Holding(u)' => Holding(u) /\ job'[u] = job[u])
    BY <2>1 DEF FenceInv, Kept, Started, Holding, Owned
  <2>3. OneHolder
    BY DEF FenceInv
  <2>4. OneHolder'
    BY <2>2, <2>3, UndisturbedOneHolder
  <2> QED
    BY <2>2, <2>4
<1>9. Goal
  <2>1. CASE \E t \in Threads :
                \/ \E r \in Runs : Claim(t, r) \/ Retire(t, r)
                \/ Heartbeat(t) \/ HeartbeatDies(t) \/ Execute(t) \/ TxFails(t)
    <3> HIDE DEF Goal
    <3> QED
      BY <2>1, <1>4, <1>5, <1>6, <1>7, Zenon
  <2>2. CASE (\E r \in Runs : Environment(r)) \/ \E w \in Workers : Crash(w)
    <3> HIDE DEF Goal
    <3> QED
      BY <2>2, <1>2, <1>3, Zenon
  <2> QED
    BY <2>1, <2>2, <1>8 DEF Next
<1> QED
  BY <1>1, <1>9 DEF FenceInv, Goal

\* Every step of every run is published at most once, if no lease lapses under
\* a living heartbeat or if every worker process has a single thread.  Neither
\* condition can be dropped: a run of the model checker shows what happens.
THEOREM ExactlyOnce == ASSUME Fenced PROVE Spec => []PublishedOnce
<1>1. Init => FenceInv
  BY IInvInit
  DEF Init, FenceInv, Kept, OneHolder, Holding, Started, PublishedOnce, Working, Located
<1>2. FenceInv /\ [Next]_vars => FenceInv'
  BY FenceNext
<1>3. FenceInv => PublishedOnce
  BY DEF FenceInv
<1> QED
  BY <1>1, <1>2, <1>3, PTL DEF Spec

-----------------------------------------------------------------------------
(***************************************************************************)
(* The runtime implements WorkflowPromise.  Queueing, claiming, deferring  *)
(* and renewing leases are stutters; a publication, a completion, and a    *)
(* change of status that matters outside are steps of the promise.         *)
(***************************************************************************)

PromiseStep == [Promise!Next]_(Promise!vars)

LEMMA PromiseStutter ==
  ASSUME UNCHANGED <<status, published>>
  PROVE  PromiseStep
  BY DEF PromiseStep, Promise!vars

LEMMA PromiseMove ==
  ASSUME TypeOK, NEW r \in Runs, NEW st, status' = [status EXCEPT ![r] = st],
         UNCHANGED published,
         PhaseOf(st) = PhaseOf(status[r]) \/ <<PhaseOf(status[r]), PhaseOf(st)>> \in Promise!Moves
  PROVE  PromiseStep
<1> DEFINE f == [q \in Runs |-> PhaseOf(status[q])]
<1>1. \A q \in Runs : status'[q] = IF q = r THEN st ELSE status[q]
  BY DEF TypeOK
<1>2. f' = [f EXCEPT ![r] = PhaseOf(st)]
  BY <1>1 DEF PhaseOf
<1>3. CASE PhaseOf(st) = PhaseOf(status[r])
  <2>1. f' = f
    BY <1>2, <1>3
  <2> QED
    BY <2>1 DEF PromiseStep, Promise!vars
<1>4. CASE <<PhaseOf(status[r]), PhaseOf(st)>> \in Promise!Moves
  <2>1. \E m \in Promise!Moves : f[r] = m[1] /\ f' = [f EXCEPT ![r] = m[2]]
    BY <1>2, <1>4
  <2>2. Promise!Move(r)
    BY <2>1 DEF Promise!Move
  <2> QED
    BY <2>2 DEF PromiseStep, Promise!Next
<1> QED
  BY <1>3, <1>4

LEMMA PromiseRelease ==
  ASSUME TypeOK, NEW r \in Runs, NEW st, ReleaseTo(r, st), UNCHANGED published,
         \/ status[r] \in {"pending", "running"} /\ st \in {"pending", "blocked", "failed", "cancelled"}
         \/ status[r] = "blocked" /\ st = "pending"
  PROVE  PromiseStep
<1>1. status' = [status EXCEPT ![r] = st]
  BY DEF ReleaseTo
<1>2. PhaseOf(st) = PhaseOf(status[r]) \/ <<PhaseOf(status[r]), PhaseOf(st)>> \in Promise!Moves
  BY DEF PhaseOf, Promise!Moves
<1> QED
  BY <1>1, <1>2, PromiseMove

LEMMA PromisePublish ==
  ASSUME FenceInv, NEW t \in Threads, Publish(t)
  PROVE  PromiseStep
<1>t. TypeOK /\ PublishedOnce
  BY DEF FenceInv, IInv
<1>1. PICK j \in Runs, p \in Steps : j = job[t] /\ p = pos[t]
  BY <1>t DEF Publish, TypeOK, Located
<1>2. /\ status[j] = "running" /\ step[j][p] = "running" /\ UNCHANGED status
      /\ \A q \in Steps : q < p => step[j][q] = "succeeded"
  BY <1>1 DEF FenceInv, IInv, Placed, Started, Publish, Owned, runVars
<1>3. \A q \in Steps : published[j][q] \in 0..2
  BY <1>t, RowTyped
<1>4. published[j][p] = 0 /\ \A q \in Steps : q < p => published[j][q] = 1
  <2>1. RowInv(j)
    BY DEF FenceInv, IInv
  <2> QED
    BY <1>2, <1>3, <1>t, <2>1 DEF RowInv, Recorded, PublishedOnce
<1>5. published' = [published EXCEPT ![j][p] = 1]
  <2>1. published' = [published EXCEPT ![j][p] = Bump(published[j][p], 2)]
    BY <1>1 DEF Publish
  <2> QED
    BY <1>4, <2>1 DEF Bump
<1>6. \A q \in 1 .. p - 1 : published[j][q] = 1
  BY <1>4, ConstantsOK DEF ConstantsOK, Steps
<1>7. Promise!PublishStep(j, p)
  BY <1>2, <1>4, <1>5, <1>6 DEF Promise!PublishStep, PhaseOf
<1> QED
  BY <1>7 DEF PromiseStep, Promise!Next, Promise!Steps, Steps

LEMMA PromiseComplete ==
  ASSUME FenceInv, NEW t \in Threads, CompleteRun(t), Owned(t)
  PROVE  PromiseStep
<1>t. TypeOK /\ PublishedOnce
  BY DEF FenceInv, IInv
<1>1. PICK j \in Runs : j = job[t]
  BY <1>t DEF CompleteRun, TypeOK, Located
<1>2. /\ status[j] = "running" /\ status' = [status EXCEPT ![j] = "completed"]
      /\ UNCHANGED published /\ \A q \in Steps : step[j][q] = "succeeded"
  BY <1>1 DEF FenceInv, IInv, Placed, CompleteRun, Owned, ReleaseTo, stepVars
<1>3. \A q \in Steps : published[j][q] = 1
  <2>1. RowInv(j) /\ \A q \in Steps : published[j][q] \in 0..2
    BY <1>t, RowTyped DEF FenceInv, IInv
  <2> QED
    BY <1>2, <2>1, <1>t DEF RowInv, Recorded, PublishedOnce
<1> DEFINE f == [q \in Runs |-> PhaseOf(status[q])]
<1>4. f' = [f EXCEPT ![j] = "completed"]
  <2>1. \A q \in Runs : status'[q] = IF q = j THEN "completed" ELSE status[q]
    BY <1>2, <1>t DEF TypeOK
  <2> QED
    BY <2>1 DEF PhaseOf
<1>5. Promise!Complete(j)
  BY <1>2, <1>3, <1>4 DEF Promise!Complete, Promise!Steps, Steps, PhaseOf
<1> QED
  BY <1>5 DEF PromiseStep, Promise!Next

LEMMA PromiseNext == FenceInv /\ [Next]_vars => PromiseStep
<1> SUFFICES ASSUME FenceInv, [Next]_vars PROVE PromiseStep
  OBVIOUS
<1>t. TypeOK
  BY DEF FenceInv, IInv
<1>1. ASSUME NEW r \in Runs, Environment(r) PROVE PromiseStep
  <2>1. CASE Enqueue(r)
    <3>1. /\ status[r] = "absent" /\ status' = [status EXCEPT ![r] = "pending"] /\ UNCHANGED published
          /\ <<PhaseOf(status[r]), PhaseOf("pending")>> \in Promise!Moves
      BY <2>1 DEF Enqueue, PhaseOf, Promise!Moves, stepVars
    <3> QED
      BY <3>1, <1>t, PromiseMove
  <2>2. CASE ResumeBlocked(r) \/ Cancel(r) \/ CancelRunOnly(r)
    BY <2>2, <1>t, PromiseRelease DEF ResumeBlocked, Cancel, CancelRunOnly, stepVars
  <2> QED
    BY <1>1, <2>1, <2>2, PromiseStutter
    DEF Environment, BecomeDue, LeaseRunsOut, LeaseLapses, BreakInput, PassDeadline, runVars, stepVars
<1>2. ASSUME NEW t \in Threads, NEW r \in Runs, Claim(t, r) PROVE PromiseStep
  <2>1. /\ status[r] \in {"pending", "running"} /\ status' = [status EXCEPT ![r] = "running"]
        /\ UNCHANGED published
    BY <1>2 DEF Claim, Eligible, stepVars
  <2>2. PhaseOf("running") = PhaseOf(status[r])
    BY <2>1 DEF PhaseOf
  <2> QED
    BY <2>1, <2>2, <1>t, PromiseMove
<1>3. ASSUME NEW t \in Threads, NEW r \in Runs, Retire(t, r) PROVE PromiseStep
  BY <1>3, <1>t, PromiseRelease DEF Retire, Eligible
<1>4. ASSUME NEW t \in Threads, Execute(t) PROVE PromiseStep
  <2>1. PICK j \in Runs : j = job[t]
    BY <1>4, <1>t, ThreadAtWork
  <2>2. CASE Publish(t) \/ (CompleteRun(t) /\ Owned(t))
    BY <2>2, PromisePublish, PromiseComplete
  <2>3. CASE DeferStep(t) \/ FailStep(t) \/ BlockStep(t) \/ RecordFailure(t)
    <3>1. /\ status[j] = "running" /\ UNCHANGED published
          /\ \E st \in {"pending", "failed", "blocked"} : ReleaseTo(j, st)
      BY <2>1, <2>3 DEF DeferStep, FailStep, BlockStep, RecordFailure, Owned
    <3> QED
      BY <3>1, <1>t, PromiseRelease
  <2>4. CASE UNCHANGED <<status, published>>
    BY <2>4, PromiseStutter
  <2>5. CASE CompleteRun(t) /\ ~Owned(t)
    BY <2>5, <2>4 DEF CompleteRun, stepVars
  <2>6. CASE \/ Begin(t) \/ StartRaises(t) \/ ReuseStep(t) \/ StartStep(t)
             \/ \E o \in Outcomes : HandlerEnds(t, o) \/ PublishRaises(t, o)
    BY <2>6, <2>4 DEF Begin, StartRaises, ReuseStep, StartStep, HandlerEnds, PublishRaises, runVars, stepVars
  <2>7. CASE FinalizeLost(t) \/ FinalizeRaises(t) \/ DropFailure(t)
             \/ RecordFailureRaises(t) \/ Stop(t)
    BY <2>7, <2>4
    DEF FinalizeLost, FinalizeRaises, DropFailure, RecordFailureRaises, Stop, runVars, stepVars
  <2> QED
    BY <1>4, <2>2, <2>3, <2>5, <2>6, <2>7 DEF Execute
<1> QED
  BY <1>1, <1>2, <1>3, <1>4, PromiseStutter
  DEF Next, Crash, Heartbeat, HeartbeatDies, TxFails, vars, runVars, stepVars

\* Under the same condition as ExactlyOnce, the runtime with all its retries,
\* crashes, takeovers and cancellations implements its abstract specification.
THEOREM Implementation == ASSUME Fenced PROVE Spec => KeepsPromise
<1>1. Init => FenceInv
  BY IInvInit
  DEF Init, FenceInv, Kept, OneHolder, Holding, Started, PublishedOnce, Working, Located
<1>2. FenceInv /\ [Next]_vars => FenceInv'
  BY FenceNext
<1>3. Init => Promise!Init
  BY DEF Init, Promise!Init, PhaseOf, Promise!Steps, Steps
<1>4. FenceInv /\ [Next]_vars => [Promise!Next]_(Promise!vars)
  BY PromiseNext DEF PromiseStep
<1> QED
  BY <1>1, <1>2, <1>3, <1>4, PTL DEF Spec, KeepsPromise, Promise!Spec
=============================================================================
