------------------------ MODULE ActivityRunnerProofs ------------------------
(* Theorems about the activity runner, for batches of any length, any       *)
(* number of executors and any budgets.                                    *)
EXTENDS ActivityRunner, WellFoundedInduction, TLAPS

\* Every nonempty set of numbers has a least element.
LEMMA Least ==
  ASSUME NEW S \in SUBSET Nat, S # {}
  PROVE  \E n \in S : \A m \in S : n <= m
<1> DEFINE R == {p \in Nat \X Nat : p[1] < p[2]}
<1>1. IsWellFoundedOn(R, Nat)
  BY NatLessThanWellFounded DEF OpToRel
<1>2. PICK n \in S : \A m \in S : ~(<<m, n>> \in R)
  <2> HIDE DEF R
  <2> QED
    BY <1>1, WFMin
<1>3. ASSUME NEW m \in S PROVE n <= m
  <2>1. <<m, n>> \in R \/ ~(m < n)
    OBVIOUS
  <2> QED
    BY <1>2, <2>1
<1> QED
  BY <1>3

\* Changing one place of one executor keeps the type of a function of functions.
LEMMA UpdateTyped ==
  ASSUME NEW S, NEW U, NEW T, NEW f \in [S -> [U -> T]],
         NEW x \in S, NEW y \in U, NEW v \in T
  PROVE  [f EXCEPT ![x][y] = v] \in [S -> [U -> T]]
  OBVIOUS

\* The saturating counter of attempts.
LEMMA CountTyped ==
  ASSUME NEW n \in 0..AttemptCap
  PROVE  (IF n = AttemptCap THEN n ELSE n + 1) \in 0..AttemptCap
  BY ActivityConstantsOK DEF ActivityConstantsOK, AttemptCap

-----------------------------------------------------------------------------
(* What an executor knows, whoever owns the run. *)

\* An executor is in _run_one only inside the batch; a result it is about to
\* store, or has returned, is one that may be.
WellPlaced(e) ==
    /\ at[e] # "batch" => act[e] = Todo
    /\ \A a \in Activities :
          /\ act[e][a] = "persist" => answer[e][a] \in Usable
          /\ act[e][a] = "resolve" => answer[e][a] \in {"degraded", "blocked"}
          /\ act[e][a] = "done" => answer[e][a] \in Answers

\* A succeeded activity has an outcome.
HasOutcome(a) == ckpt[a] = "succeeded" => kind[a] \in Kinds

TypeInv ==
    /\ ActivityTypeOK
    /\ \A e \in Executors : WellPlaced(e)
    /\ \A a \in Activities : HasOutcome(a)
    /\ RetryWithinBudget

Typed(e, a) ==
    /\ act[e][a] \in Places
    /\ answer[e][a] \in Answers \cup {"none"}
    /\ ckpt[a] \in ActivityStatus \cup {"absent"}
    /\ kind[a] \in Kinds \cup {"none"}
    /\ attempts[a] \in 0..AttemptCap

LEMMA RowTyped ==
  ASSUME ActivityTypeOK, NEW e \in Executors, NEW a \in Activities
  PROVE  Typed(e, a)
<1>1. act[e] \in [Activities -> Places] /\ answer[e] \in [Activities -> Answers \cup {"none"}]
  BY DEF ActivityTypeOK
<1> QED
  BY <1>1 DEF ActivityTypeOK, Typed

\* run_many's verdict is one the handlers of the steps know.
LEMMA VerdictKnown ==
  ASSUME TypeInv, NEW e \in Executors, BatchEnded(e)
  PROVE  /\ Verdict(e) \in Answers
         /\ Verdict(e) = "blocked" =>
               \E a \in Activities : act[e][a] = "done" /\ answer[e][a] = "blocked"
         /\ Verdict(e) \in Usable =>
               /\ \A a \in Activities : act[e][a] = "done" /\ answer[e][a] \in Usable
               /\ Verdict(e) = "degraded" <=>
                     \E a \in Activities : answer[e][a] = "degraded"
<1>1. CASE Raised(e)
  BY <1>1 DEF Verdict, Answers, Kinds, Usable
<1>2. CASE ~Raised(e)
  <2> DEFINE unusable == {a \in Activities : answer[e][a] \notin Usable}
             least == CHOOSE a \in unusable : \A b \in unusable : a <= b
  <2>1. \A a \in Activities : act[e][a] = "done" /\ answer[e][a] \in Answers
    BY <1>2 DEF BatchEnded, Raised, TypeInv, WellPlaced
  <2>2. CASE unusable = {}
    BY <1>2, <2>1, <2>2 DEF Verdict, Answers, Kinds, Usable
  <2>3. CASE unusable # {}
    <3>1. unusable \in SUBSET Nat
      BY DEF Activities
    <3>2. \E a \in unusable : \A b \in unusable : a <= b
      <4> HIDE DEF unusable
      <4> QED
        BY <2>3, <3>1, Least
    <3>3. least \in unusable
      <4> HIDE DEF unusable
      <4> QED
        BY <3>2
    <3>4. Verdict(e) = answer[e][least]
      BY <1>2, <2>3 DEF Verdict
    <3> HIDE DEF least
    <3> QED
      BY <2>1, <3>3, <3>4 DEF Answers, Usable
  <2> QED
    BY <2>2, <2>3
<1> QED
  BY <1>1, <1>2

-----------------------------------------------------------------------------
(* Type correctness. *)

LEMMA TypeInit == ActivityInit => TypeInv
<1> SUFFICES ASSUME ActivityInit PROVE TypeInv
  OBVIOUS
<1> USE ActivityConstantsOK DEF ActivityConstantsOK, ActivityInit, Untouched
<1>1. ActivityTypeOK
  BY DEF ActivityTypeOK, Todo, NoAnswer, AttemptCap, RunStatus, ActivityStatus, Places
<1>2. \A e \in Executors : WellPlaced(e)
  BY DEF WellPlaced, Todo, NoAnswer
<1>3. (\A a \in Activities : HasOutcome(a)) /\ RetryWithinBudget
  BY DEF HasOutcome, RetryWithinBudget
<1> QED
  BY <1>1, <1>2, <1>3 DEF TypeInv

\* What every step of _run_one leaves alone: the run, the other executors and,
\* of its own, the other activities.
LEMMA RunOneFrame ==
  ASSUME ActivityTypeOK, NEW e \in Executors, NEW a \in Activities, RunOne(e, a)
  PROVE  /\ UNCHANGED <<status, owner, quality, retries, at>>
         /\ act' = [act EXCEPT ![e][a] = act'[e][a]]
         /\ answer' = [answer EXCEPT ![e][a] = answer'[e][a]]
         /\ ckpt' = [ckpt EXCEPT ![a] = ckpt'[a]]
         /\ kind' = [kind EXCEPT ![a] = kind'[a]]
         /\ attempts' = [attempts EXCEPT ![a] = attempts'[a]]
<1> USE DEF Place, Answer, runVars, ckptVars
<1>1. /\ act[e] \in [Activities -> Places] /\ act \in [Executors -> [Activities -> Places]]
      /\ answer[e] \in [Activities -> Answers \cup {"none"}]
      /\ answer \in [Executors -> [Activities -> Answers \cup {"none"}]]
      /\ ckpt \in [Activities -> ActivityStatus \cup {"absent"}]
      /\ kind \in [Activities -> Kinds \cup {"none"}]
      /\ attempts \in [Activities -> 0..AttemptCap]
  BY DEF ActivityTypeOK
<1>2. CASE Reuse(e, a) \/ StillWaiting(e, a) \/ Begin(e, a) \/ BeginRaises(e, a)
  BY <1>1, <1>2 DEF Reuse, StillWaiting, Begin, BeginRaises
<1>3. CASE (\E k \in Usable : HandlerReturns(e, a, k)) \/ PersistRaises(e, a)
  BY <1>1, <1>3 DEF HandlerReturns, PersistRaises
<1>4. CASE (\E place \in Failing : HandlerRaises(e, a, place)) \/ NoWayOut(e, a)
  BY <1>1, <1>4 DEF HandlerRaises, NoWayOut
<1>5. CASE Persist(e, a) \/ Resolve(e, a)
  BY <1>1, <1>5 DEF Persist, Resolve, Store
<1>6. CASE RetryLater(e, a) \/ GiveActivityUp(e, a)
  BY <1>1, <1>6 DEF RetryLater, GiveActivityUp
<1>7. CASE TakeWayOut(e, a) \/ ResolveRaises(e, a) \/ FailureRaises(e, a)
  BY <1>1, <1>7 DEF TakeWayOut, ResolveRaises, FailureRaises
<1> QED
  BY <1>2, <1>3, <1>4, <1>5, <1>6, <1>7 DEF RunOne

\* What it does to its own activity.
RowStep(e, a) ==
    /\ at[e] = "batch"
    /\ Typed(e, a)'
    /\ waiting' \in [Activities -> BOOLEAN]
    /\ act'[e][a] = "persist" => answer'[e][a] \in Usable
    /\ act'[e][a] = "resolve" => answer'[e][a] \in {"degraded", "blocked"}
    /\ act'[e][a] = "done" => answer'[e][a] \in Answers
    /\ HasOutcome(a)'
    /\ ckpt'[a] = "retry_wait" => attempts'[a] < MaxAttempts

LEMMA RunOneTyped ==
  ASSUME TypeInv, NEW e \in Executors, NEW a \in Activities, RunOne(e, a)
  PROVE  RowStep(e, a)
<1> USE DEF Place, Answer, ckptVars, RowStep, Typed, HasOutcome
<1>1. /\ Typed(e, a) /\ act[e] \in [Activities -> Places]
      /\ answer[e] \in [Activities -> Answers \cup {"none"}]
      /\ act \in [Executors -> [Activities -> Places]]
      /\ answer \in [Executors -> [Activities -> Answers \cup {"none"}]]
      /\ ckpt \in [Activities -> ActivityStatus \cup {"absent"}]
      /\ kind \in [Activities -> Kinds \cup {"none"}]
      /\ attempts \in [Activities -> 0..AttemptCap]
      /\ waiting \in [Activities -> BOOLEAN]
      /\ MaxAttempts \in Nat /\ AttemptCap = MaxAttempts + 1
  BY RowTyped, ActivityConstantsOK DEF TypeInv, ActivityTypeOK, ActivityConstantsOK, AttemptCap
<1>2. /\ at[e] # "batch" => act[e][a] = "todo"
      /\ act[e][a] = "persist" => answer[e][a] \in Usable
      /\ act[e][a] = "resolve" => answer[e][a] \in {"degraded", "blocked"}
      /\ act[e][a] = "done" => answer[e][a] \in Answers
      /\ ckpt[a] = "succeeded" => kind[a] \in Kinds
      /\ ckpt[a] = "retry_wait" => attempts[a] < MaxAttempts
  BY DEF TypeInv, WellPlaced, Todo, RetryWithinBudget
<1> USE <1>1, <1>2
<1>3. CASE Reuse(e, a)
  BY <1>3 DEF Reuse, MayBegin, Answers, Kinds, Usable, Places
<1>4. CASE StillWaiting(e, a)
  BY <1>4 DEF StillWaiting, MayBegin, Answers, Kinds, Usable, Places
<1>5. CASE Begin(e, a)
  <2>1. attempts'[a] \in 0..AttemptCap
    <3>1. attempts'[a] = IF attempts[a] = AttemptCap THEN attempts[a] ELSE attempts[a] + 1
      BY <1>5 DEF Begin
    <3>2. attempts[a] \in 0..AttemptCap
      OBVIOUS
    <3> QED
      BY ONLY <3>1, <3>2, CountTyped
  <2>2. /\ ckpt'[a] = "running" /\ act'[e][a] = "handler" /\ at[e] = "batch"
        /\ UNCHANGED <<kind, waiting, answer>>
    BY <1>5 DEF Begin, MayBegin
  <2> QED
    BY <2>1, <2>2 DEF ActivityStatus, Places
<1>6. CASE BeginRaises(e, a)
  BY <1>6 DEF BeginRaises, MayBegin, Places
<1>7. CASE \E k \in Usable : HandlerReturns(e, a, k)
  BY <1>7 DEF HandlerReturns, Answers, Kinds, Places
<1>8. CASE \E place \in Failing : HandlerRaises(e, a, place)
  BY <1>8 DEF HandlerRaises, Failing, Places
<1>9. CASE Persist(e, a)
  BY <1>9 DEF Persist, Store, ActivityStatus, Answers, Kinds, Usable, Places
<1>10. CASE PersistRaises(e, a)
  BY <1>10 DEF PersistRaises, Answers, Places
<1>11. CASE RetryLater(e, a)
  BY <1>11 DEF RetryLater, HasAttemptLeft, ActivityStatus, Answers, Kinds, Places
<1>12. CASE TakeWayOut(e, a)
  BY <1>12 DEF TakeWayOut, NoRetry, Failing, Answers, Kinds, Usable, Places
<1>13. CASE NoWayOut(e, a)
  BY <1>13 DEF NoWayOut, NoRetry, Failing, Places
<1>14. CASE Resolve(e, a)
  BY <1>14 DEF Resolve, Store, ActivityStatus, Answers, Kinds, Usable, Places
<1>15. CASE ResolveRaises(e, a)
  BY <1>15 DEF ResolveRaises, Answers, Places
<1>16. CASE GiveActivityUp(e, a)
  BY <1>16 DEF GiveActivityUp, ActivityStatus, Answers, Kinds, Places
<1>17. CASE FailureRaises(e, a)
  BY <1>17 DEF FailureRaises, Failing, Answers, Places
<1> QED
  BY <1>3, <1>4, <1>5, <1>6, <1>7, <1>8, <1>9, <1>10, <1>11, <1>12, <1>13, <1>14,
     <1>15, <1>16, <1>17 DEF RunOne

LEMMA TypeRunOne ==
  ASSUME TypeInv, NEW e \in Executors, NEW a \in Activities, RunOne(e, a)
  PROVE  TypeInv'
<1>0. ActivityTypeOK
  BY DEF TypeInv
<1>1. RowStep(e, a)
  BY RunOneTyped
<1>2. /\ UNCHANGED <<status, owner, quality, retries, at>>
      /\ act' = [act EXCEPT ![e][a] = act'[e][a]]
      /\ answer' = [answer EXCEPT ![e][a] = answer'[e][a]]
      /\ ckpt' = [ckpt EXCEPT ![a] = ckpt'[a]]
      /\ kind' = [kind EXCEPT ![a] = kind'[a]]
      /\ attempts' = [attempts EXCEPT ![a] = attempts'[a]]
  BY <1>0, RunOneFrame
<1>3. ActivityTypeOK'
  <2>1. /\ act' \in [Executors -> [Activities -> Places]]
        /\ answer' \in [Executors -> [Activities -> Answers \cup {"none"}]]
    <3> DEFINE p == act'[e][a]
               s == answer'[e][a]
    <3>1. p \in Places /\ s \in Answers \cup {"none"}
      BY <1>1 DEF RowStep, Typed
    <3>2. act' = [act EXCEPT ![e][a] = p] /\ answer' = [answer EXCEPT ![e][a] = s]
      BY <1>2
    <3> HIDE DEF p, s
    <3> QED
      BY <1>0, <3>1, <3>2, UpdateTyped DEF ActivityTypeOK
  <2>2. /\ ckpt' \in [Activities -> ActivityStatus \cup {"absent"}]
        /\ kind' \in [Activities -> Kinds \cup {"none"}]
        /\ attempts' \in [Activities -> 0..AttemptCap]
    BY <1>0, <1>1, <1>2 DEF ActivityTypeOK, RowStep, Typed
  <2> QED
    BY <1>0, <1>1, <1>2, <2>1, <2>2 DEF ActivityTypeOK, RowStep
<1>4. \A d \in Executors : WellPlaced(d)'
  <2> SUFFICES ASSUME NEW d \in Executors PROVE WellPlaced(d)'
    OBVIOUS
  <2>1. WellPlaced(d) /\ at[e] = "batch" /\ at'[d] = at[d]
    BY <1>1, <1>2 DEF TypeInv, RowStep
  <2>2. CASE d = e
    <3>1. \A b \in Activities \ {a} : act'[e][b] = act[e][b] /\ answer'[e][b] = answer[e][b]
      BY <1>0, <1>2 DEF ActivityTypeOK
    <3> QED
      BY <1>1, <2>1, <2>2, <3>1 DEF WellPlaced, RowStep
  <2>3. CASE d # e
    <3>1. act'[d] = act[d] /\ answer'[d] = answer[d]
      BY <1>0, <1>2, <2>3 DEF ActivityTypeOK
    <3> QED
      BY <2>1, <3>1 DEF WellPlaced
  <2> QED
    BY <2>2, <2>3
<1>5. \A b \in Activities : HasOutcome(b)' /\ (ckpt'[b] = "retry_wait" => attempts'[b] < MaxAttempts)
  BY <1>0, <1>1, <1>2 DEF TypeInv, ActivityTypeOK, RowStep, HasOutcome, RetryWithinBudget
<1> QED
  BY <1>3, <1>4, <1>5 DEF TypeInv, RetryWithinBudget

LEMMA TodoTyped == Todo \in [Activities -> Places] /\ NoAnswer \in [Activities -> Answers \cup {"none"}]
  BY DEF Todo, NoAnswer, Places

LEMMA TypeEnd ==
  ASSUME TypeInv, NEW e \in Executors, End(e)
  PROVE  TypeInv'
<1> USE DEF TypeInv
<1>1. PICK verdict \in Answers : EndWith(e, verdict)
  <2>1. CASE EndStep(e)
    BY <2>1, VerdictKnown DEF EndStep, EndWith
  <2>2. CASE RetryStep(e) \/ FailStep(e)
    BY <2>2 DEF RetryStep, FailStep, Answers
  <2> QED
    BY <2>1, <2>2 DEF End
<1>2. retries' \in 0..StepRetries
  BY ActivityConstantsOK
  DEF End, EndStep, RetryStep, FailStep, ActivityTypeOK, ActivityConstantsOK
<1>3. RunStatusFor(verdict) \in RunStatus
  BY DEF RunStatusFor, RunStatus, Answers, Kinds, Usable
<1>4. ActivityTypeOK'
  <2>1. status' \in RunStatus /\ owner' \in Workers \cup {NoWorker} /\ quality' \in Usable \cup {"none"}
    BY <1>1, <1>3 DEF EndWith, ActivityTypeOK
  <2>2. /\ at' \in [Executors -> {"idle", "batch", "dead"}]
        /\ act' \in [Executors -> [Activities -> Places]]
        /\ answer' \in [Executors -> [Activities -> Answers \cup {"none"}]]
    BY <1>1, TodoTyped DEF EndWith, Forget, ActivityTypeOK
  <2> QED
    BY <1>1, <1>2, <2>1, <2>2 DEF EndWith, ActivityTypeOK, ckptVars
<1>5. \A d \in Executors : WellPlaced(d)'
  BY <1>1 DEF EndWith, Forget, WellPlaced, Todo, NoAnswer, ActivityTypeOK
<1>6. UNCHANGED <<ckpt, kind, attempts>>
  BY <1>1 DEF EndWith, ckptVars
<1> QED
  BY <1>4, <1>5, <1>6 DEF HasOutcome, RetryWithinBudget

LEMMA TypeNext == TypeInv /\ [ActivityNext]_activityVars => TypeInv'
<1> SUFFICES ASSUME TypeInv, [ActivityNext]_activityVars PROVE TypeInv'
  OBVIOUS
<1> USE ActivityConstantsOK, TodoTyped DEF ActivityConstantsOK
<1>1. CASE UNCHANGED activityVars
  BY <1>1 DEF activityVars, runVars, ckptVars, executorVars, TypeInv, ActivityTypeOK, WellPlaced,
              HasOutcome, RetryWithinBudget
<1>2. CASE Resume \/ Cancel
  BY <1>2 DEF Resume, Cancel, ckptVars, executorVars, TypeInv, ActivityTypeOK, WellPlaced,
              HasOutcome, RetryWithinBudget, RunStatus
<1>3. ASSUME NEW w \in Workers, Crash(w) PROVE TypeInv'
  <2>1. ActivityTypeOK'
    BY <1>3 DEF Crash, runVars, ckptVars, TypeInv, ActivityTypeOK
  <2>2. \A d \in Executors : WellPlaced(d)'
    BY <1>3 DEF Crash, TypeInv, WellPlaced, Todo, NoAnswer
  <2> QED
    BY <1>3, <2>1, <2>2 DEF Crash, ckptVars, TypeInv, HasOutcome, RetryWithinBudget
<1>4. ASSUME NEW a \in Activities, BecomeDue(a) PROVE TypeInv'
  BY <1>4 DEF BecomeDue, runVars, executorVars, TypeInv, ActivityTypeOK, WellPlaced,
              HasOutcome, RetryWithinBudget
<1>5. ASSUME NEW e \in Executors, Claim(e) PROVE TypeInv'
  <2>1. ActivityTypeOK'
    BY <1>5 DEF Claim, Forget, ckptVars, TypeInv, ActivityTypeOK, RunStatus
  <2>2. \A d \in Executors : WellPlaced(d)'
    BY <1>5 DEF Claim, Forget, TypeInv, ActivityTypeOK, WellPlaced, Todo, NoAnswer
  <2> QED
    BY <1>5, <2>1, <2>2 DEF Claim, ckptVars, TypeInv, HasOutcome, RetryWithinBudget
<1> QED
  BY <1>1, <1>2, <1>3, <1>4, <1>5, TypeEnd, TypeRunOne DEF ActivityNext

\* Every reachable state is of the right type, for any batch and any pool.
THEOREM ActivityTypeCorrect == ActivitySpec => []ActivityTypeOK
<1>1. TypeInv => ActivityTypeOK
  BY DEF TypeInv
<1> QED
  BY <1>1, TypeInit, TypeNext, PTL DEF ActivitySpec

\* No activity waits for another attempt when its budget is used up, whatever
\* crashes, takeovers and resumptions it went through.
THEOREM BudgetKept == ActivitySpec => []RetryWithinBudget
<1>1. TypeInv => RetryWithinBudget
  BY DEF TypeInv
<1> QED
  BY <1>1, TypeInit, TypeNext, PTL DEF ActivitySpec

-----------------------------------------------------------------------------
(* Two executors must not both own the run: either no lease lapses while    *)
(* its executor lives, or executors have worker_ids of their own.           *)

Fenced == ~Stalls \/ \A d, e \in Executors : WorkerOf[d] = WorkerOf[e] => d = e

Holds(e) == at[e] = "batch" /\ Owned(e)

OneHolder == \A d, e \in Executors : Holds(d) /\ Holds(e) => d = e

\* While leases do not lapse: nobody is in a batch of a run that waits, and
\* whoever is in the batch of a running run owns it, alone.
NoStranger ==
    /\ status \in {"pending", "blocked"} => \A e \in Executors : at[e] # "batch"
    /\ status = "running" =>
          \A e \in Executors : at[e] = "batch" =>
              Owned(e) /\ \A d \in Executors : at[d] = "batch" => d = e

Working == Failing \cup {"handler", "persist", "resolve", "give_up"}

\* What an executor that holds the run may rely on: the activities it works on
\* are its own, and the results it will report are the stored ones.
Informed(e, a) ==
    /\ act[e][a] \in Working => ckpt[a] = "running"
    /\ act[e][a] = "done" /\ answer[e][a] \in Kinds =>
          ckpt[a] = "succeeded" /\ kind[a] = answer[e][a]

BatchInv ==
    /\ TypeInv
    /\ ~Stalls => NoStranger
    /\ \A e \in Executors : Holds(e) => \A a \in Activities : Informed(e, a)
    /\ PublishedIsBacked
    /\ BlockedForAReason

LEMMA HolderUnique ==
  ASSUME Fenced, ~Stalls => NoStranger
  PROVE  OneHolder
  BY DEF Fenced, NoStranger, OneHolder, Holds, Owned

\* The same about the next state.
LEMMA HolderUniqueNext ==
  ASSUME Fenced, ~Stalls => NoStranger'
  PROVE  OneHolder'
  BY DEF Fenced, NoStranger, OneHolder, Holds, Owned

LEMMA NoStrangerKept ==
  ASSUME TypeInv, ~Stalls, NoStranger, ActivityNext
  PROVE  NoStranger'
<1> USE ActivityConstantsOK DEF NoStranger, Owned, ActivityConstantsOK
<1>1. CASE Resume \/ Cancel
  BY <1>1 DEF Resume, Cancel, executorVars
<1>2. ASSUME NEW w \in Workers, Crash(w) PROVE NoStranger'
  BY <1>2 DEF Crash, runVars
<1>3. ASSUME NEW a \in Activities, BecomeDue(a) PROVE NoStranger'
  BY <1>3 DEF BecomeDue, runVars, executorVars
<1>4. ASSUME NEW e \in Executors, Claim(e) PROVE NoStranger'
  BY <1>4 DEF Claim, TypeInv, ActivityTypeOK
<1>5. ASSUME NEW e \in Executors, End(e) PROVE NoStranger'
  <2>1. PICK verdict : EndWith(e, verdict)
    BY <1>5 DEF End, EndStep, RetryStep, FailStep
  <2>2. /\ at[e] = "batch" /\ at' = [at EXCEPT ![e] = "idle"]
        /\ ~Owned(e) => UNCHANGED <<status, owner>>
    BY <2>1 DEF EndWith, BatchEnded
  <2> QED
    BY <2>2 DEF TypeInv, ActivityTypeOK
<1>6. ASSUME NEW e \in Executors, NEW a \in Activities, RunOne(e, a) PROVE NoStranger'
  BY <1>6, RunOneFrame DEF TypeInv
<1> QED
  BY <1>1, <1>2, <1>3, <1>4, <1>5, <1>6 DEF ActivityNext

\* A step of _run_one keeps its executor informed about its own activity.
LEMMA InformedHere ==
  ASSUME TypeInv, NEW e \in Executors, NEW a \in Activities, RunOne(e, a),
         Holds(e) => Informed(e, a), Holds(e)'
  PROVE  Informed(e, a)'
<1> USE DEF Place, Answer, ckptVars, runVars, Informed, Working, Failing
<1>1. /\ Holds(e) /\ act[e] \in [Activities -> Places]
      /\ answer[e] \in [Activities -> Answers \cup {"none"}]
      /\ act \in [Executors -> [Activities -> Places]]
      /\ answer \in [Executors -> [Activities -> Answers \cup {"none"}]]
      /\ ckpt \in [Activities -> ActivityStatus \cup {"absent"}]
      /\ kind \in [Activities -> Kinds \cup {"none"}]
  BY RunOneFrame DEF TypeInv, ActivityTypeOK, Holds, Owned
<1>2. Informed(e, a)
  BY <1>1
<1> USE <1>1, <1>2
<1>3. CASE Reuse(e, a) \/ StillWaiting(e, a)
  BY <1>3 DEF Reuse, StillWaiting, Kinds, Usable
<1>4. CASE Begin(e, a) \/ BeginRaises(e, a)
  BY <1>4 DEF Begin, BeginRaises
<1>5. CASE (\E k \in Usable : HandlerReturns(e, a, k)) \/ PersistRaises(e, a)
  BY <1>5 DEF HandlerReturns, PersistRaises
<1>6. CASE (\E place \in Failing : HandlerRaises(e, a, place)) \/ NoWayOut(e, a)
  BY <1>6 DEF HandlerRaises, NoWayOut, NoRetry
<1>7. CASE Persist(e, a) \/ Resolve(e, a)
  BY <1>7 DEF Persist, Resolve, Store
<1>8. CASE RetryLater(e, a) \/ GiveActivityUp(e, a)
  BY <1>8 DEF RetryLater, GiveActivityUp, Kinds, Usable
<1>9. CASE TakeWayOut(e, a) \/ ResolveRaises(e, a) \/ FailureRaises(e, a)
  BY <1>9 DEF TakeWayOut, NoRetry, ResolveRaises, FailureRaises
<1> QED
  BY <1>3, <1>4, <1>5, <1>6, <1>7, <1>8, <1>9 DEF RunOne

\* Only the holder of the run writes to the checkpoints, and never to one that
\* has ended.
LEMMA WriterHolds ==
  ASSUME TypeInv, NEW e \in Executors, NEW a \in Activities, RunOne(e, a),
         Holds(e) => Informed(e, a)
  PROVE  /\ UNCHANGED <<ckpt, kind>> \/ Holds(e)
         /\ ckpt[a] \in {"succeeded", "failed"} => UNCHANGED <<ckpt, kind>>
<1> USE DEF ckptVars, Informed, Working, Failing, Holds
<1>1. /\ act[e][a] # "todo" => at[e] = "batch"
  BY DEF TypeInv, WellPlaced, Todo
<1> USE <1>1
<1>2. CASE Reuse(e, a) \/ StillWaiting(e, a) \/ BeginRaises(e, a)
  BY <1>2 DEF Reuse, StillWaiting, BeginRaises
<1>3. CASE Begin(e, a)
  BY <1>3 DEF Begin, MayBegin
<1>4. CASE (\E k \in Usable : HandlerReturns(e, a, k)) \/ PersistRaises(e, a)
  BY <1>4 DEF HandlerReturns, PersistRaises
<1>5. CASE (\E place \in Failing : HandlerRaises(e, a, place)) \/ NoWayOut(e, a)
  BY <1>5 DEF HandlerRaises, NoWayOut
<1>6. CASE Persist(e, a) \/ Resolve(e, a)
  BY <1>6 DEF Persist, Resolve, Store
<1>7. CASE RetryLater(e, a) \/ GiveActivityUp(e, a)
  BY <1>7 DEF RetryLater, GiveActivityUp
<1>8. CASE TakeWayOut(e, a) \/ ResolveRaises(e, a) \/ FailureRaises(e, a)
  BY <1>8 DEF TakeWayOut, ResolveRaises, FailureRaises
<1> QED
  BY <1>2, <1>3, <1>4, <1>5, <1>6, <1>7, <1>8 DEF RunOne

LEMMA BatchRunOne ==
  ASSUME Fenced, BatchInv, NEW e \in Executors, NEW a \in Activities, RunOne(e, a),
         TypeInv', ~Stalls => NoStranger'
  PROVE  BatchInv'
<1> USE DEF BatchInv
<1>1. OneHolder
  BY HolderUnique
<1>2. ActivityTypeOK /\ (Holds(e) => Informed(e, a))
  BY DEF TypeInv
<1>3. /\ UNCHANGED <<status, owner, quality, at>>
      /\ act' = [act EXCEPT ![e][a] = act'[e][a]]
      /\ answer' = [answer EXCEPT ![e][a] = answer'[e][a]]
      /\ ckpt' = [ckpt EXCEPT ![a] = ckpt'[a]]
      /\ kind' = [kind EXCEPT ![a] = kind'[a]]
  BY <1>2, RunOneFrame
<1>4. UNCHANGED <<ckpt, kind>> \/ Holds(e)
  BY <1>2, WriterHolds
<1>5. ASSUME NEW d \in Executors, Holds(d)', NEW b \in Activities PROVE Informed(d, b)'
  <2>1. Holds(d) /\ Informed(d, b)
    BY <1>3, <1>5 DEF Holds, Owned
  <2>2. CASE d # e
    <3>1. act'[d] = act[d] /\ answer'[d] = answer[d]
      BY <1>2, <1>3, <2>2 DEF ActivityTypeOK
    <3>2. UNCHANGED <<ckpt, kind>>
      BY <1>1, <1>4, <2>1, <2>2 DEF OneHolder
    <3> QED
      BY <2>1, <3>1, <3>2 DEF Informed
  <2>3. CASE d = e /\ b # a
    <3>1. /\ act'[d][b] = act[d][b] /\ answer'[d][b] = answer[d][b]
          /\ ckpt'[b] = ckpt[b] /\ kind'[b] = kind[b]
      BY <1>2, <1>3, <2>3 DEF ActivityTypeOK
    <3> QED
      BY <2>1, <3>1 DEF Informed
  <2>4. CASE d = e /\ b = a
    BY <1>2, <1>5, <2>4, InformedHere
  <2> QED
    BY <2>2, <2>3, <2>4
<1>6. PublishedIsBacked' /\ BlockedForAReason'
  <2>1. status \in {"completed", "blocked"} => UNCHANGED <<ckpt, kind>>
    BY <1>4 DEF Holds, Owned
  <2> QED
    BY <1>3, <2>1 DEF PublishedIsBacked, BlockedForAReason
<1> QED
  BY <1>5, <1>6

LEMMA BatchEnd ==
  ASSUME Fenced, BatchInv, NEW e \in Executors, End(e), TypeInv', ~Stalls => NoStranger'
  PROVE  BatchInv'
<1> USE DEF BatchInv
<1>1. PICK verdict \in Answers : /\ EndWith(e, verdict)
                                 /\ verdict = Verdict(e) \/ verdict \in {"retry_wait", "failed"}
  <2>1. CASE EndStep(e)
    BY <2>1, VerdictKnown DEF EndStep, EndWith
  <2>2. CASE RetryStep(e) \/ FailStep(e)
    BY <2>2 DEF RetryStep, FailStep, Answers
  <2> QED
    BY <2>1, <2>2 DEF End
<1>2. BatchEnded(e) /\ UNCHANGED <<ckpt, kind>>
  BY <1>1 DEF EndWith, ckptVars
<1>3. ASSUME NEW d \in Executors, Holds(d)', NEW b \in Activities PROVE Informed(d, b)'
  <2>1. d # e
    BY <1>1, <1>3 DEF EndWith, Holds, TypeInv, ActivityTypeOK
  <2>2. act'[d] = act[d] /\ answer'[d] = answer[d] /\ at'[d] = at[d]
    BY <1>1, <2>1 DEF EndWith, Forget, TypeInv, ActivityTypeOK
  <2>3. ~Owned(e)
    <3>1. WorkerOf[d] # NoWorker
      BY ActivityConstantsOK DEF ActivityConstantsOK
    <3> QED
      BY <1>1, <1>3, <3>1 DEF EndWith, Holds, Owned
  <2>4. Holds(d)
    BY <1>1, <1>3, <2>2, <2>3 DEF EndWith, Holds, Owned
  <2> QED
    BY <1>2, <2>2, <2>4 DEF Informed
<1>4. CASE ~Owned(e)
  <2>1. UNCHANGED <<status, quality>>
    BY <1>1, <1>4 DEF EndWith
  <2> QED
    BY <1>2, <1>3, <2>1 DEF PublishedIsBacked, BlockedForAReason
<1>5. CASE Owned(e)
  <2>1. status' = RunStatusFor(verdict) /\ quality' = IF verdict \in Usable THEN verdict ELSE quality
    BY <1>1, <1>5 DEF EndWith
  <2>2. \A a \in Activities : act[e][a] = "done" /\ answer[e][a] \in Kinds =>
            ckpt[a] = "succeeded" /\ kind[a] = answer[e][a]
    BY <1>2, <1>5 DEF BatchEnded, Holds, Informed
  <2>3. PublishedIsBacked'
    <3>1. CASE verdict \in Usable
      <4>1. /\ \A a \in Activities : act[e][a] = "done" /\ answer[e][a] \in Usable
            /\ verdict = "degraded" <=> \E a \in Activities : answer[e][a] = "degraded"
        BY <1>1, <1>2, <3>1, VerdictKnown DEF Usable
      <4>2. \A a \in Activities : ckpt[a] = "succeeded" /\ kind[a] = answer[e][a]
        BY <2>2, <4>1 DEF Kinds
      <4>3. quality' = verdict
        BY <2>1, <3>1
      <4> QED
        BY <1>2, <4>1, <4>2, <4>3 DEF PublishedIsBacked
    <3>2. CASE verdict \notin Usable
      <4>1. status' # "completed"
        BY <2>1, <3>2 DEF RunStatusFor, Answers, Kinds
      <4> QED
        BY <4>1 DEF PublishedIsBacked
    <3> QED
      BY <3>1, <3>2
  <2>4. BlockedForAReason'
    <3>1. CASE verdict = "blocked"
      <4>1. PICK a \in Activities : act[e][a] = "done" /\ answer[e][a] = "blocked"
        BY <1>1, <1>2, <3>1, VerdictKnown
      <4>2. kind'[a] = "blocked"
        BY <1>2, <2>2, <4>1 DEF Kinds
      <4> QED
        BY <4>2 DEF BlockedForAReason
    <3>2. CASE verdict # "blocked"
      <4>1. status' # "blocked"
        BY <2>1, <3>2 DEF RunStatusFor, Answers, Kinds, Usable
      <4> QED
        BY <4>1 DEF BlockedForAReason
    <3> QED
      BY <3>1, <3>2
  <2> QED
    BY <1>3, <2>3, <2>4
<1> QED
  BY <1>4, <1>5

LEMMA BatchNext == ASSUME Fenced PROVE BatchInv /\ [ActivityNext]_activityVars => BatchInv'
<1> SUFFICES ASSUME BatchInv, [ActivityNext]_activityVars PROVE BatchInv'
  OBVIOUS
<1> USE DEF BatchInv
<1>1. TypeInv'
  BY TypeNext
<1>2. CASE UNCHANGED activityVars
  BY <1>1, <1>2 DEF activityVars, runVars, ckptVars, executorVars, NoStranger, Holds, Owned,
                    Informed, PublishedIsBacked, BlockedForAReason
<1>3. ASSUME ActivityNext PROVE ~Stalls => NoStranger'
  BY <1>3, NoStrangerKept
<1> USE <1>1, <1>3
<1>4. CASE Resume \/ Cancel
  <2>1. ActivityNext
    BY <1>4 DEF ActivityNext
  <2>2. status' \in {"pending", "cancelled"} /\ UNCHANGED <<ckpt, kind>>
    BY <1>4 DEF Resume, Cancel, ckptVars
  <2> QED
    BY <2>1, <2>2 DEF Holds, Owned, PublishedIsBacked, BlockedForAReason
<1>5. ASSUME NEW w \in Workers, Crash(w) PROVE BatchInv'
  <2>1. ActivityNext
    BY <1>5 DEF ActivityNext
  <2>2. UNCHANGED <<status, owner, quality, ckpt, kind>>
    BY <1>5 DEF Crash, runVars, ckptVars
  <2>3. ASSUME NEW d \in Executors, Holds(d)', NEW b \in Activities PROVE Informed(d, b)'
    <3>1. Holds(d) /\ act'[d] = act[d] /\ answer'[d] = answer[d]
      BY <1>5, <2>2, <2>3 DEF Crash, Holds, Owned
    <3> QED
      BY <2>2, <3>1 DEF Informed
  <2> QED
    BY <2>1, <2>2, <2>3 DEF PublishedIsBacked, BlockedForAReason
<1>6. ASSUME NEW a \in Activities, BecomeDue(a) PROVE BatchInv'
  <2>1. ActivityNext
    BY <1>6 DEF ActivityNext
  <2> QED
    BY <1>6, <2>1 DEF BecomeDue, runVars, executorVars, Holds, Owned, Informed,
                      PublishedIsBacked, BlockedForAReason
<1>7. ASSUME NEW e \in Executors, Claim(e) PROVE BatchInv'
  <2>1. ActivityNext
    BY <1>7 DEF ActivityNext
  <2>2. OneHolder'
    BY <2>1, HolderUniqueNext
  <2>3. Holds(e)' /\ act'[e] = Todo /\ status' = "running"
    BY <1>7, ActivityConstantsOK
    DEF Claim, Forget, Holds, Owned, TypeInv, ActivityTypeOK, ActivityConstantsOK
  <2>4. ASSUME NEW d \in Executors, Holds(d)', NEW b \in Activities PROVE Informed(d, b)'
    <3>1. d = e
      BY <2>2, <2>3, <2>4 DEF OneHolder
    <3> QED
      BY <2>3, <3>1 DEF Informed, Todo, Working, Failing
  <2> QED
    BY <2>1, <2>3, <2>4 DEF PublishedIsBacked, BlockedForAReason
<1>8. ASSUME NEW e \in Executors, End(e) PROVE BatchInv'
  <2>1. ActivityNext
    BY <1>8 DEF ActivityNext
  <2> QED
    BY <1>8, <2>1, BatchEnd
<1>9. ASSUME NEW e \in Executors, NEW a \in Activities, RunOne(e, a) PROVE BatchInv'
  <2>1. ActivityNext
    BY <1>9 DEF ActivityNext
  <2> QED
    BY <1>9, <2>1, BatchRunOne
<1> QED
  BY <1>2, <1>4, <1>5, <1>6, <1>7, <1>8, <1>9 DEF ActivityNext

LEMMA BatchInit == ActivityInit => BatchInv
  BY TypeInit
  DEF ActivityInit, Untouched, BatchInv, NoStranger, Holds, Owned, PublishedIsBacked, BlockedForAReason

\* If no lease lapses while its executor lives, or executors have worker_ids of
\* their own, a published step stands on stored, usable results and has
\* reported their quality (run_many against the activity checkpoints).
THEOREM PublicationBacked == ASSUME Fenced PROVE ActivitySpec => []PublishedIsBacked
<1>1. BatchInv => PublishedIsBacked
  BY DEF BatchInv
<1> QED
  BY <1>1, BatchInit, BatchNext, PTL DEF ActivitySpec

\* Under the same condition a run is blocked only for an activity whose stored
\* outcome says so.
THEOREM BlockExplained == ASSUME Fenced PROVE ActivitySpec => []BlockedForAReason
<1>1. BatchInv => BlockedForAReason
  BY DEF BatchInv
<1> QED
  BY <1>1, BatchInit, BatchNext, PTL DEF ActivitySpec

\* Under the same condition what an activity has ended with is never replaced,
\* neither by a step that is retried nor by an executor that is late.
THEOREM ResultsStable == ASSUME Fenced PROVE ActivitySpec => ResultIsStable
<1>1. BatchInv /\ [ActivityNext]_activityVars =>
        [\A a \in Activities : ckpt[a] \in {"succeeded", "failed"} =>
            ckpt'[a] = ckpt[a] /\ kind'[a] = kind[a]]_activityVars
  <2> SUFFICES ASSUME BatchInv, ActivityNext, NEW a \in Activities,
                      ckpt[a] \in {"succeeded", "failed"}
               PROVE  ckpt'[a] = ckpt[a] /\ kind'[a] = kind[a]
    BY DEF BatchInv
  <2>1. CASE UNCHANGED <<ckpt, kind>>
    BY <2>1
  <2>2. ASSUME NEW e \in Executors, NEW b \in Activities, RunOne(e, b)
        PROVE  ckpt'[a] = ckpt[a] /\ kind'[a] = kind[a]
    <3>1. CASE b = a
      BY <2>2, <3>1, WriterHolds DEF BatchInv
    <3>2. CASE b # a
      <4>1. ckpt' = [ckpt EXCEPT ![b] = ckpt'[b]] /\ kind' = [kind EXCEPT ![b] = kind'[b]]
        BY <2>2, RunOneFrame DEF BatchInv, TypeInv
      <4> QED
        BY <3>2, <4>1 DEF BatchInv, TypeInv, ActivityTypeOK
    <3> QED
      BY <3>1, <3>2
  <2>3. (\E e \in Executors, b \in Activities : RunOne(e, b)) \/ UNCHANGED <<ckpt, kind>>
    BY DEF ActivityNext, Resume, Cancel, Crash, BecomeDue, Claim, End, EndStep, RetryStep, FailStep,
           EndWith, ckptVars
  <2> QED
    BY <2>1, <2>2, <2>3
<1> QED
  BY <1>1, BatchInit, BatchNext, PTL DEF ActivitySpec, ResultIsStable
=============================================================================
