--------------------------- MODULE ScreeningProofs ---------------------------
(***************************************************************************)
(* What Screening keeps for every number of applications, profiles and     *)
(* versions of resumes.  Every action but three writes the row of one      *)
(* application, so the invariant is one of rows: Sound says what a row     *)
(* alone has to keep, Fits what it has to keep beside the row before it.   *)
(***************************************************************************)
EXTENDS Screening, TLAPS

Rows == [status : Statuses \cup {"none"}, deleted : BOOLEAN,
         recovery : RecoveryCodes, profile : 0 .. MaxProfile,
         resume : 1 .. MaxResume, demanded : 0 .. MaxResume,
         hard : Runs, hardFailed : Runs, scoring : Runs, scoringFailed : Runs,
         version : 0 .. MaxResume]

\* The statuses up to the hard screening, and those of it.
HardStage == {"hard_screening_pending", "hard_screening_running"}
Unscored == {"none", "waiting_job_profile", "hard_screening_review"} \cup HardStage

(***************************************************************************)
(* The inductive invariant                                                 *)
(***************************************************************************)
\* A run that waits for a person has frozen nothing; no scoring has been asked
\* for before hard screening is over, and no repair before the interviews.
RunsFit(p) ==
    /\ p.scoring.state \in Blocked => p.scoring.step = "freeze"
    /\ p.status \in Unscored => p.scoring.state = "none" /\ p.scoringFailed.state = "none"
    /\ p.status \in Early \cup {"none", "closed_cancelled"} =>
         ~ p.scoring.repair /\ ~ p.scoringFailed.repair

\* The parts of StageHasRun and FailureIsExplained for one row, and where the code
\* of a failed release may be found.
StageFits(p) ==
    /\ ~ p.deleted /\ p.status \in HardStage => Active(p.hard)
    /\ ~ p.deleted /\ p.status = "screening_running" => Active(p.scoring)
    /\ p.status # "submitted"
CodeFits(p) ==
    /\ p.status = "hard_screening_review" => p.recovery \in HardCodes
    /\ p.status = "screening_failed" => p.recovery \in ScoringCodes \cup {"release"}
    /\ p.recovery = "release" =>
         p.status \in {"waiting_job_profile", "screening_failed", "screening_running",
                       "closed_cancelled"}

Sound(p) == RunsFit(p) /\ StageFits(p) /\ CodeFits(p)

\* A scoring of a deleted application does not come past the freezing step.
Stopped(p) == p.deleted /\ Active(p.scoring) => p.scoring.step = "freeze"

IInv ==
    /\ TypeOK
    /\ FirstProfile <= activeProfile
    /\ \A a \in Applications :
         Sound(app[a]) /\ (app[a].recovery = "release" => Ready(activeProfile))
    /\ \A a \in Applications \ SlowRebuild : Stopped(app[a])

\* A V1 comes neither for an application that has ended nor for a deleted one.
Publishable(p) ==
    /\ ~ p.deleted
    /\ p.status # "closed_cancelled"
    /\ p.status = "closed_rejected" => p.scoring.repair

\* What an action that writes row q of application a instead of p has to show;
\* the code of a failed release comes only with a new profile.
RowFits(a, p, q) ==
    /\ q \in Rows /\ Sound(q)
    /\ a \notin SlowRebuild => Stopped(q)
    /\ a \notin SlowRebuild /\ q.version # p.version => Publishable(p)

Fits(a, p, q) == RowFits(a, p, q) /\ (q.recovery = "release" => p.recovery = "release")
-----------------------------------------------------------------------------
LEMMA Bounds ==
    /\ 0 \in 0 .. MaxResume /\ 1 \in 1 .. MaxResume
    /\ FirstProfile \in 0 .. MaxProfile /\ 0 \in 0 .. MaxProfile
    /\ MaxResume \in Nat /\ MaxProfile \in Nat
BY ScreeningAssumption

\* What the operators on runs return.
LEMMA RunsTyped ==
    /\ NoRun \in Runs /\ FreshRun \in Runs
    /\ FreshRun.state = "active" /\ FreshRun.step = "freeze" /\ ~ FreshRun.repair
    /\ \A state \in {"none", "active", "completed", "failed", "cancelled"} \cup Blocked :
         /\ Over(state) \in Runs /\ Over(state).state = state
         /\ Over(state).step = "freeze" /\ ~ Over(state).repair
<1>1. NoRun \in Runs
  BY Bounds DEF NoRun, Runs
<1> QED
  BY <1>1 DEF FreshRun, Over, Runs, NoRun

LEMMA RunOperators ==
  ASSUME NEW run \in Runs
  PROVE  /\ Again(run) \in Runs /\ Active(Again(run)) /\ Again(run).step = "freeze"
         /\ Again(run).repair = run.repair
         /\ PublishAgain(run) \in Runs /\ Active(PublishAgain(run))
         /\ PublishAgain(run).step = run.step /\ PublishAgain(run).repair = run.repair
         /\ CancelRun(run) \in Runs /\ ~ Active(CancelRun(run))
         /\ CancelRun(run).state = "none" <=> run.state = "none"
         /\ CancelRun(run).state \in Blocked => run.state \in Blocked /\ CancelRun(run) = run
         /\ CancelRun(run).repair => run.repair
         /\ \A state \in {"failed"} \cup Blocked :
              /\ Ended(run, state) \in Runs /\ Ended(run, state).state = state
              /\ Ended(run, state).step = run.step /\ Ended(run, state).repair = run.repair
<1>1. /\ Again(run) \in Runs /\ Active(Again(run)) /\ Again(run).step = "freeze"
      /\ Again(run).repair = run.repair
  BY RunsTyped DEF Again, Active, Runs
<1>2. /\ PublishAgain(run) \in Runs /\ Active(PublishAgain(run))
      /\ PublishAgain(run).step = run.step /\ PublishAgain(run).repair = run.repair
  BY DEF PublishAgain, Active, Runs
<1>3. /\ CancelRun(run) \in Runs /\ ~ Active(CancelRun(run))
      /\ CancelRun(run).state = "none" <=> run.state = "none"
      /\ CancelRun(run).state \in Blocked => run.state \in Blocked /\ CancelRun(run) = run
      /\ CancelRun(run).repair => run.repair
  <2>1. Over("cancelled") \in Runs /\ Over("cancelled").state = "cancelled"
        /\ ~ Over("cancelled").repair
    BY RunsTyped
  <2> QED
    BY <2>1 DEF CancelRun, Active, Blocked
<1>4. \A state \in {"failed"} \cup Blocked :
        /\ Ended(run, state) \in Runs /\ Ended(run, state).state = state
        /\ Ended(run, state).step = run.step /\ Ended(run, state).repair = run.repair
  BY DEF Ended, Runs
<1> QED
  BY <1>1, <1>2, <1>3, <1>4
\* The statuses that the moves of the screening lead to: the table holds one
\* move for a status and an action.
LEMMA AfterIs ==
  ASSUME NEW status, NEW action, NEW next, <<status, action, next>> \in Moves,
         \A m \in Moves : m[1] = status /\ m[2] = action => m[3] = next
  PROVE  Allowed(status, action) /\ After(status, action) = next
<1> DEFINE good(m) == m[1] = status /\ m[2] = action
<1>1. \E m \in Moves : good(m)
  OBVIOUS
<1> DEFINE chosen == CHOOSE m : m \in Moves /\ good(m)
<1>2. chosen \in Moves /\ good(chosen)
  BY <1>1
<1>3. After(status, action) = chosen[3]
  BY DEF After
<1> QED
  BY <1>1, <1>2, <1>3 DEF Allowed

\* The moves of the screening that the actions take, and no move of the
\* interviews leads back into it.
Taken ==
    {<<"waiting_job_profile", "job_profile_ready", "hard_screening_pending">>,
     <<"hard_screening_pending", "run_hard_screening", "hard_screening_running">>,
     <<"hard_screening_pending", "skip_hard_screening", "submitted">>,
     <<"hard_screening_running", "complete_hard_screening_passed", "submitted">>,
     <<"hard_screening_running", "complete_hard_screening_failed", "closed_rejected">>,
     <<"hard_screening_running", "complete_hard_screening_review", "hard_screening_review">>,
     <<"hard_screening_review", "review_hard_screening_pass", "submitted">>,
     <<"hard_screening_review", "review_hard_screening_reject", "closed_rejected">>,
     <<"submitted", "run_scoring", "screening_running">>,
     <<"screening_failed", "retry_scoring", "screening_running">>,
     <<"screening_running", "complete_scoring", "department_review">>,
     <<"screening_running", "fail_scoring", "screening_failed">>,
     <<"hard_screening_pending", "fail_hard_screening", "hard_screening_review">>,
     <<"hard_screening_running", "fail_hard_screening", "hard_screening_review">>}

LEMMA MovesOfScreening ==
    /\ \A t \in Taken : Allowed(t[1], t[2]) /\ After(t[1], t[2]) = t[3] /\ t[3] \in Statuses
    /\ \A status \in HardStage \cup {"hard_screening_review"} :
         After(status, "retry_hard_screening") = "hard_screening_pending"
    /\ \A status : Allowed(status, "retry_hard_screening") =>
         status \in HardStage \cup {"hard_screening_review"}
    /\ \A status : Allowed(status, "cancel_recruitment") =>
         status \in Early /\ After(status, "cancel_recruitment") = "closed_cancelled"
    /\ \A m \in InterviewMoves : m[3] \in Statuses
         /\ m[1] \notin {"waiting_job_profile", "screening_failed", "screening_running",
                        "closed_cancelled"}
         /\ m[3] \notin (Early \ {"on_hold", "manual_review"}) \cup {"none", "closed_cancelled"}
    /\ "closed_cancelled" \in Statuses /\ "hard_screening_pending" \in Statuses
<1> DEFINE cancelled == Early \X {"cancel_recruitment"} \X {"closed_cancelled"}
<1>1. \A m \in InterviewMoves : \A t \in Taken : m[1] # t[1]
  BY SMTT(30) DEF InterviewMoves, Taken
<1>2. \A m \in ScreeningMoves : \A t \in Taken : m[1] = t[1] /\ m[2] = t[2] => m[3] = t[3]
  BY SMTT(60) DEF ScreeningMoves, Taken
<1>3. \A m \in cancelled : m[2] = "cancel_recruitment" /\ m[3] = "closed_cancelled"
  OBVIOUS
<1>4. \A t \in Taken : t \in ScreeningMoves /\ t = <<t[1], t[2], t[3]>> /\ t[2] # "cancel_recruitment"
  BY SMTT(60) DEF ScreeningMoves, Taken
<1>5. \A t \in Taken : t \in Moves
  BY <1>4 DEF Moves
<1>6. ASSUME NEW t \in Taken
      PROVE  Allowed(t[1], t[2]) /\ After(t[1], t[2]) = t[3] /\ t[3] \in Statuses
  <2>1. \A m \in Moves : m[1] = t[1] /\ m[2] = t[2] => m[3] = t[3]
    BY <1>1, <1>2, <1>3, <1>4 DEF Moves
  <2>2. <<t[1], t[2], t[3]>> \in Moves
    BY <1>4, <1>5
  <2>3. t[3] \in Statuses
    BY <1>5 DEF Statuses
  <2> QED
    BY <2>1, <2>2, <2>3, AfterIs
<1>7. ASSUME NEW status \in HardStage \cup {"hard_screening_review"}
      PROVE  After(status, "retry_hard_screening") = "hard_screening_pending"
  <2> DEFINE action == "retry_hard_screening"
             next == "hard_screening_pending"
  <2>1. \A m \in ScreeningMoves : m[2] = action => m[3] = next
    BY SMTT(30) DEF ScreeningMoves
  <2>2. \A m \in InterviewMoves : m[2] # action
    BY SMTT(30) DEF InterviewMoves
  <2>3. <<status, action, next>> \in Moves
    BY DEF Moves, ScreeningMoves, HardStage
  <2>4. \A m \in Moves : m[1] = status /\ m[2] = action => m[3] = next
    BY <1>3, <2>1, <2>2 DEF Moves
  <2> HIDE DEF action, next
  <2> QED
    BY <2>3, <2>4, AfterIs DEF action, next
<1>8. ASSUME NEW status, Allowed(status, "retry_hard_screening")
      PROVE  status \in HardStage \cup {"hard_screening_review"}
  <2>1. PICK m \in Moves : m[1] = status /\ m[2] = "retry_hard_screening"
    BY <1>8 DEF Allowed
  <2>2. m \in ScreeningMoves
    <3>1. m \notin InterviewMoves
      BY <2>1, SMTT(30) DEF InterviewMoves
    <3> QED
      BY <1>3, <2>1, <3>1 DEF Moves
  <2> QED
    BY <2>1, <2>2, SMTT(30) DEF ScreeningMoves, HardStage
<1>9. ASSUME NEW status, Allowed(status, "cancel_recruitment")
      PROVE  status \in Early /\ After(status, "cancel_recruitment") = "closed_cancelled"
  <2> DEFINE action == "cancel_recruitment"
             chosen == CHOOSE m : m \in Moves /\ m[1] = status /\ m[2] = action
  <2>1. chosen \in Moves /\ chosen[1] = status /\ chosen[2] = action
    BY <1>9 DEF Allowed
  <2>2. \A m \in ScreeningMoves : m[2] # action
    BY SMTT(30) DEF ScreeningMoves
  <2>3. \A m \in InterviewMoves : m[2] # action
    BY SMTT(30) DEF InterviewMoves
  <2>4. chosen \in cancelled
    BY <2>1, <2>2, <2>3 DEF Moves
  <2>5. After(status, action) = chosen[3]
    BY DEF After
  <2>6. chosen[1] \in Early
    <3> HIDE DEF chosen
    <3> QED
      BY <2>4
  <2> QED
    BY <1>3, <2>1, <2>4, <2>5, <2>6
<1>10. ASSUME NEW m \in InterviewMoves
       PROVE  /\ m[3] \in Statuses
              /\ m[1] \notin {"waiting_job_profile", "screening_failed", "screening_running",
                             "closed_cancelled"}
              /\ m[3] \notin (Early \ {"on_hold", "manual_review"}) \cup {"none", "closed_cancelled"}
  <2>1. m \in Moves
    BY DEF Moves
  <2>2. m[3] \notin (Early \ {"on_hold", "manual_review"}) \cup {"none", "closed_cancelled"}
    BY SMTT(30) DEF InterviewMoves, Early
  <2>3. m[1] \notin {"waiting_job_profile", "screening_failed", "screening_running",
                    "closed_cancelled"}
    BY SMTT(30) DEF InterviewMoves
  <2> QED
    BY <2>1, <2>2, <2>3 DEF Statuses
<1>11. "closed_cancelled" \in Statuses
  <2> DEFINE m == <<"submitted", "cancel_recruitment", "closed_cancelled">>
  <2>1. m \in Moves
    BY DEF Moves, Early
  <2> QED
    BY <2>1 DEF Statuses
<1>12. "hard_screening_pending" \in Statuses
  <2> DEFINE m == <<"waiting_job_profile", "job_profile_ready", "hard_screening_pending">>
  <2>1. m \in Taken
    BY DEF Taken
  <2> QED
    BY <1>6, <2>1
<1> QED
  BY <1>6, <1>7, <1>8, <1>9, <1>10, <1>11, <1>12
LEMMA MovesTaken ==
    /\ After("waiting_job_profile", "job_profile_ready") = "hard_screening_pending"
    /\ After("hard_screening_pending", "run_hard_screening") = "hard_screening_running"
    /\ After("hard_screening_pending", "skip_hard_screening") = "submitted"
    /\ After("hard_screening_running", "complete_hard_screening_passed") = "submitted"
    /\ After("hard_screening_running", "complete_hard_screening_failed") = "closed_rejected"
    /\ After("hard_screening_running", "complete_hard_screening_review") = "hard_screening_review"
    /\ After("hard_screening_review", "review_hard_screening_pass") = "submitted"
    /\ After("hard_screening_review", "review_hard_screening_reject") = "closed_rejected"
    /\ After("submitted", "run_scoring") = "screening_running"
    /\ After("screening_failed", "retry_scoring") = "screening_running"
    /\ After("screening_running", "complete_scoring") = "department_review"
    /\ After("screening_running", "fail_scoring") = "screening_failed"
    /\ After("hard_screening_pending", "fail_hard_screening") = "hard_screening_review"
    /\ After("hard_screening_running", "fail_hard_screening") = "hard_screening_review"
    /\ {"hard_screening_pending", "hard_screening_running", "submitted", "closed_rejected",
         "hard_screening_review", "screening_running", "department_review",
         "screening_failed", "waiting_job_profile"} \subseteq Statuses
<1>1. /\ After("waiting_job_profile", "job_profile_ready") = "hard_screening_pending"
      /\ After("hard_screening_pending", "run_hard_screening") = "hard_screening_running"
      /\ After("hard_screening_pending", "skip_hard_screening") = "submitted"
      /\ {"hard_screening_pending", "hard_screening_running", "submitted"} \subseteq Statuses
  BY MovesOfScreening DEF Taken
<1>2. /\ After("hard_screening_running", "complete_hard_screening_passed") = "submitted"
      /\ After("hard_screening_running", "complete_hard_screening_failed") = "closed_rejected"
      /\ After("hard_screening_running", "complete_hard_screening_review") = "hard_screening_review"
      /\ {"closed_rejected", "hard_screening_review"} \subseteq Statuses
  BY MovesOfScreening DEF Taken
<1>3. /\ After("hard_screening_review", "review_hard_screening_pass") = "submitted"
      /\ After("hard_screening_review", "review_hard_screening_reject") = "closed_rejected"
      /\ After("submitted", "run_scoring") = "screening_running"
      /\ After("screening_failed", "retry_scoring") = "screening_running"
      /\ "screening_running" \in Statuses
  BY MovesOfScreening DEF Taken
<1>4. /\ After("screening_running", "complete_scoring") = "department_review"
      /\ After("screening_running", "fail_scoring") = "screening_failed"
      /\ After("hard_screening_pending", "fail_hard_screening") = "hard_screening_review"
      /\ After("hard_screening_running", "fail_hard_screening") = "hard_screening_review"
      /\ {"department_review", "screening_failed"} \subseteq Statuses
  BY MovesOfScreening DEF Taken
<1>5. "waiting_job_profile" \in Statuses
  <2> DEFINE m == <<"waiting_job_profile", "job_profile_ready", "hard_screening_pending">>
  <2>1. m \in Moves
    BY DEF Moves, ScreeningMoves
  <2> QED
    BY <2>1 DEF Statuses
<1> QED
  BY <1>1, <1>2, <1>3, <1>4, <1>5

(***************************************************************************)
(* What the operators on rows return.                                      *)
(***************************************************************************)
\* Fields of the invariant that most operators leave alone.
Kept(p, q) ==
    /\ q.deleted = p.deleted /\ q.version = p.version
    /\ q.scoringFailed = p.scoringFailed

LEMMA MoveRow ==
  ASSUME NEW p \in Rows, NEW action, After(p.status, action) \in Statuses
  PROVE  LET q == Move(p, action)
         IN /\ q \in Rows /\ Kept(p, q) /\ q.status = After(p.status, action)
            /\ q.recovery = p.recovery /\ q.profile = p.profile
            /\ q.hard = p.hard /\ q.scoring = p.scoring
BY DEF Move, Rows, Kept

LEMMA ClearedRow ==
  ASSUME NEW p \in Rows
  PROVE  LET q == Cleared(p)
         IN /\ q \in Rows /\ Kept(p, q) /\ q.status = p.status
            /\ q.recovery = "none" /\ q.profile = p.profile
            /\ q.hard = p.hard /\ q.scoring = p.scoring
BY DEF Cleared, Rows, Kept, RecoveryCodes

LEMMA BoundRow ==
  ASSUME NEW p \in Rows, NEW profile \in 0 .. MaxProfile
  PROVE  LET q == [p EXCEPT !.profile = profile]
         IN /\ q \in Rows /\ Kept(p, q) /\ q.status = p.status
            /\ q.recovery = p.recovery
            /\ q.hard = p.hard /\ q.scoring = p.scoring
BY DEF Rows, Kept

LEMMA ReboundRow ==
  ASSUME NEW p \in Rows, TypeOK
  PROVE  LET q == Rebound(p)
         IN /\ q \in Rows /\ Kept(p, q) /\ q.status = p.status
            /\ q.recovery = p.recovery
            /\ q.hard = p.hard /\ q.scoring = p.scoring
<1>1. activeProfile \in 0 .. MaxProfile
  BY DEF TypeOK
<1> QED
  BY <1>1, BoundRow DEF Rebound, Kept

LEMMA HardRow ==
  ASSUME NEW p \in Rows, NEW run \in Runs
  PROVE  LET q == [p EXCEPT !.hard = run]
         IN /\ q \in Rows /\ Kept(p, q) /\ q.status = p.status
            /\ q.recovery = p.recovery /\ q.profile = p.profile
            /\ q.hard = run /\ q.scoring = p.scoring
BY DEF Rows, Kept

LEMMA ScoringRow ==
  ASSUME NEW p \in Rows, NEW run \in Runs
  PROVE  LET q == [p EXCEPT !.scoring = run]
         IN /\ q \in Rows /\ Kept(p, q) /\ q.status = p.status
            /\ q.recovery = p.recovery /\ q.profile = p.profile
            /\ q.hard = p.hard /\ q.scoring = run
BY DEF Rows, Kept

LEMMA CodeRow ==
  ASSUME NEW p \in Rows, NEW code \in RecoveryCodes
  PROVE  LET q == [p EXCEPT !.recovery = code]
         IN /\ q \in Rows /\ Kept(p, q) /\ q.status = p.status
            /\ q.recovery = code /\ q.profile = p.profile
            /\ q.hard = p.hard /\ q.scoring = p.scoring
BY DEF Rows, Kept

\* A queued scoring is active, is no repair and starts at the publishing step
\* only after a failure.
LEMMA QueuedScoring ==
  ASSUME NEW p \in Rows, NEW readable \in BOOLEAN, TypeOK,
         p.status \in {"submitted", "screening_failed"}, ~ p.scoringFailed.repair
  PROVE  LET q == QueueScoring(p, readable)
         IN /\ q \in Rows /\ Kept(p, q) /\ q.status = "screening_running"
            /\ q.recovery = "none" /\ q.hard = p.hard
            /\ Active(q.scoring) /\ ~ q.scoring.repair
            /\ p.status = "submitted" => q.scoring.step = "freeze"
<1> DEFINE action == IF p.status = "screening_failed" THEN "retry_scoring" ELSE "run_scoring"
           r == Rebound(p)
           s == Move(r, action)
           m == Cleared(s)
           again == p.status = "screening_failed" /\ MayPublishAgain(p.scoringFailed, readable)
           run == IF again THEN PublishAgain(p.scoringFailed) ELSE FreshRun
           q == [m EXCEPT !.scoring = run]
<1>1. /\ r \in Rows /\ Kept(p, r) /\ r.status = p.status /\ r.hard = p.hard
  BY ReboundRow
<1>2. After(r.status, action) = "screening_running" /\ "screening_running" \in Statuses
  BY <1>1, MovesTaken
<1> HIDE DEF r, action
<1>3. /\ s \in Rows /\ Kept(r, s) /\ s.status = "screening_running" /\ s.hard = r.hard
  BY <1>1, <1>2, MoveRow
<1> HIDE DEF s
<1>4. /\ m \in Rows /\ Kept(s, m) /\ m.status = s.status /\ m.recovery = "none"
      /\ m.hard = s.hard
  BY <1>3, ClearedRow
<1> HIDE DEF m
<1>5. p.scoringFailed \in Runs
  BY DEF Rows
<1>6. /\ run \in Runs /\ Active(run) /\ ~ run.repair
      /\ p.status = "submitted" => run.step = "freeze"
  BY <1>5, RunsTyped, RunOperators DEF Active
<1> HIDE DEF run
<1>7. /\ q \in Rows /\ Kept(m, q) /\ q.status = m.status
      /\ q.recovery = m.recovery /\ q.hard = m.hard /\ q.scoring = run
  BY <1>4, <1>6, ScoringRow
<1>8. QueueScoring(p, readable) = q
  BY DEF QueueScoring, q, m, s, r, action, run
<1> HIDE DEF q
<1> QED
  BY <1>1, <1>3, <1>4, <1>6, <1>7, <1>8 DEF Kept

\* A queued hard screening is active.
LEMMA QueuedHard ==
  ASSUME NEW p \in Rows
  PROVE  LET q == QueueHard(p)
         IN /\ q \in Rows /\ Kept(p, q) /\ q.status = p.status
            /\ q.recovery \in {"none", p.recovery}
            /\ Active(q.hard) /\ q.scoring = p.scoring
<1>1. CASE Active(p.hard)
  BY <1>1 DEF QueueHard, Kept
<1>2. CASE ~ Active(p.hard)
  <2> DEFINE m == Cleared(p)
             q == [m EXCEPT !.hard = FreshRun]
  <2>1. /\ m \in Rows /\ Kept(p, m) /\ m.status = p.status /\ m.scoring = p.scoring
        /\ m.recovery = "none"
    BY ClearedRow
  <2>2. QueueHard(p) = q
    BY <1>2 DEF QueueHard
  <2> HIDE DEF m
  <2>3. /\ q \in Rows /\ Kept(m, q) /\ q.status = m.status
        /\ q.hard = FreshRun /\ q.scoring = m.scoring /\ q.recovery = m.recovery
    BY <2>1, RunsTyped, HardRow
  <2> QED
    BY <2>1, <2>2, <2>3, RunsTyped DEF Kept, Active
<1> QED
  BY <1>1, <1>2
\* A row that goes to the scoring keeps the invariant,
LEMMA QueuedFits ==
  ASSUME NEW a \in Applications, NEW p \in Rows, NEW r \in Rows, NEW readable \in BOOLEAN,
         TypeOK, r.status \in {"submitted", "screening_failed"}, ~ r.scoringFailed.repair,
         p.version = r.version,
         a \notin SlowRebuild /\ r.deleted => r.status = "submitted"
  PROVE  Fits(a, p, QueueScoring(r, readable))
<1> DEFINE q == QueueScoring(r, readable)
<1>1. /\ q \in Rows /\ Kept(r, q) /\ q.status = "screening_running" /\ q.recovery = "none"
      /\ Active(q.scoring) /\ ~ q.scoring.repair
      /\ r.status = "submitted" => q.scoring.step = "freeze"
  BY QueuedScoring
<1> HIDE DEF q
<1>2. Sound(q)
  BY <1>1 DEF Sound, RunsFit, Blocked, StageFits, CodeFits, Kept, Active, Unscored, HardStage
<1>3. a \notin SlowRebuild => Stopped(q)
  BY <1>1 DEF Stopped, Kept
<1>4. q.version = p.version
  BY <1>1 DEF Kept
<1>5. Fits(a, p, q)
  BY <1>1, <1>2, <1>3, <1>4 DEF Fits, RowFits
<1> QED
  BY <1>5 DEF q

\* and so does one that goes to the first assessment.
Unstarted(p) ==
    /\ p.scoring.state = "none" /\ p.scoringFailed.state = "none"
    /\ ~ p.scoring.repair /\ ~ p.scoringFailed.repair

LEMMA Assessed ==
  ASSUME NEW p \in Rows, NEW readable \in BOOLEAN,
         TypeOK, p.status = "hard_screening_pending", Unstarted(p)
  PROVE  LET q == Assess(p, readable)
         IN /\ q \in Rows /\ Kept(p, q) /\ q.recovery \in {"none", p.recovery}
            /\ \/ q.status = "hard_screening_pending" /\ Active(q.hard) /\ q.scoring = p.scoring
               \/ /\ q.status = "screening_running"
                  /\ Active(q.scoring) /\ ~ q.scoring.repair /\ q.scoring.step = "freeze"
<1>1. CASE policyEnabled
  <2>1. Assess(p, readable) = QueueHard(p)
    BY <1>1 DEF Assess, HardFirst
  <2> QED
    BY <2>1, QueuedHard
<1>2. CASE ~ policyEnabled
  <2> DEFINE r == Move(p, "skip_hard_screening")
  <2>1. /\ r \in Rows /\ Kept(p, r) /\ r.status = "submitted"
    BY MoveRow, MovesTaken
  <2>2. Assess(p, readable) = QueueScoring(r, readable)
    BY <1>2 DEF Assess, HardFirst, SkipHard
  <2> HIDE DEF r
  <2>3. LET q == QueueScoring(r, readable)
        IN /\ q \in Rows /\ Kept(r, q) /\ q.status = "screening_running"
           /\ q.recovery = "none" /\ Active(q.scoring) /\ ~ q.scoring.repair /\ q.scoring.step = "freeze"
    BY <2>1, QueuedScoring DEF Kept, Unstarted
  <2> QED
    BY <2>1, <2>2, <2>3 DEF Kept
<1> QED
  BY <1>1, <1>2

LEMMA AssessedFits ==
  ASSUME NEW a \in Applications, NEW p \in Rows, NEW r \in Rows, NEW q \in Rows,
         Unstarted(r), Kept(r, q), p.version = r.version, q.recovery # "release",
         \/ q.status = "hard_screening_pending" /\ Active(q.hard) /\ q.scoring = r.scoring
         \/ /\ q.status = "screening_running"
            /\ Active(q.scoring) /\ ~ q.scoring.repair /\ q.scoring.step = "freeze"
  PROVE  Fits(a, p, q)
<1>1. q.scoringFailed = r.scoringFailed /\ q.version = p.version
  BY DEF Kept
<1>2. Sound(q)
  BY <1>1 DEF Sound, RunsFit, Blocked, StageFits, CodeFits, Active, Unscored, HardStage, Unstarted
<1>3. Stopped(q)
  BY DEF Stopped, Unstarted, Active
<1> QED
  BY <1>1, <1>2, <1>3 DEF Fits, RowFits

\* The row that _bind_profile_and_enqueue writes, and the same with a code that
\* is cleared.
LEMMA Released ==
  ASSUME NEW p \in Rows, NEW readable \in BOOLEAN, NEW profile \in 0 .. MaxProfile,
         TypeOK, p.status = "waiting_job_profile", Unstarted(p)
  PROVE  LET q == Release(p, profile, readable)
         IN /\ q \in Rows /\ Kept(p, q) /\ q.recovery = "none"
            /\ \/ q.status = "hard_screening_pending" /\ Active(q.hard) /\ q.scoring = p.scoring
               \/ /\ q.status = "screening_running"
                  /\ Active(q.scoring) /\ ~ q.scoring.repair /\ q.scoring.step = "freeze"
<1> DEFINE b == [p EXCEPT !.profile = profile]
           r == Bind(p, profile)
           s == Assess(r, readable)
<1>1. b \in Rows /\ Kept(p, b) /\ b.status = p.status /\ b.scoring = p.scoring
  BY BoundRow
<1>2. r = Move(b, "job_profile_ready")
  BY DEF Bind
<1> HIDE DEF b, r
<1>3. /\ r \in Rows /\ Kept(b, r) /\ r.status = "hard_screening_pending"
      /\ r.scoring = b.scoring
  BY <1>1, <1>2, MoveRow, MovesTaken
<1>4. Unstarted(r)
  BY <1>1, <1>3 DEF Unstarted, Kept
<1>5. /\ s \in Rows /\ Kept(r, s)
      /\ \/ s.status = "hard_screening_pending" /\ Active(s.hard) /\ s.scoring = r.scoring
         \/ /\ s.status = "screening_running"
            /\ Active(s.scoring) /\ ~ s.scoring.repair /\ s.scoring.step = "freeze"
  BY <1>3, <1>4, Assessed
<1>6. Release(p, profile, readable) = Cleared(s)
  BY DEF Release, s, r
<1> HIDE DEF s
<1>7. LET q == Cleared(s)
      IN /\ q \in Rows /\ Kept(s, q) /\ q.status = s.status /\ q.recovery = "none"
         /\ q.hard = s.hard /\ q.scoring = s.scoring
  BY <1>5, ClearedRow
<1> QED
  BY <1>1, <1>3, <1>5, <1>6, <1>7 DEF Kept

-----------------------------------------------------------------------------
(***************************************************************************)
(* The steps of one application                                            *)
(***************************************************************************)
\* What the invariant says of one row.
RowOf(a) ==
    /\ app[a] \in Rows /\ Sound(app[a])
    /\ app[a].recovery = "release" => Ready(activeProfile)
    /\ a \notin SlowRebuild => Stopped(app[a])

LEMMA RowsTyped == TypeOK <=> /\ app \in [Applications -> Rows]
                              /\ activeProfile \in 0 .. MaxProfile
                              /\ policyEnabled \in BOOLEAN /\ jobOpen \in BOOLEAN
BY DEF TypeOK, Rows

LEMMA RowHolds ==
  ASSUME IInv, NEW a \in Applications
  PROVE  RowOf(a)
BY RowsTyped DEF IInv, RowOf

\* Every action on one application is shown through the row it writes.
LEMMA Writes ==
  ASSUME IInv, NEW a \in Applications, NEW q, Fits(a, app[a], q), Set(a, q)
  PROVE  /\ IInv'
         /\ \A b \in Applications \ SlowRebuild :
              app'[b].version # app[b].version => Publishable(app[b])
<1>1. /\ app \in [Applications -> Rows]
      /\ activeProfile \in 0 .. MaxProfile /\ policyEnabled \in BOOLEAN /\ jobOpen \in BOOLEAN
  BY RowsTyped DEF IInv
<1>2. /\ app' = [app EXCEPT ![a] = q]
      /\ activeProfile' = activeProfile /\ policyEnabled' = policyEnabled /\ jobOpen' = jobOpen
  BY DEF Set
<1>3. q \in Rows
  BY DEF Fits, RowFits
<1>4. TypeOK'
  <2>1. app' \in [Applications -> Rows]
    BY <1>1, <1>2, <1>3
  <2> QED
    BY <1>1, <1>2, <2>1 DEF TypeOK, Rows
<1>5. /\ \A b \in Applications :
           Sound(app'[b]) /\ (app'[b].recovery = "release" => Ready(activeProfile))
      /\ \A b \in Applications \ SlowRebuild : Stopped(app'[b])
      /\ \A b \in Applications \ SlowRebuild :
           app'[b].version # app[b].version => Publishable(app[b])
  BY <1>1, <1>2 DEF IInv, Fits, RowFits
<1> QED
  BY <1>2, <1>4, <1>5 DEF IInv

\* A step of application a, as Writes wants it.
Step(a) == \E q : Fits(a, app[a], q) /\ Set(a, q)

\* Routing creates the application, or leaves it waiting for a profile.
LEMMA StepRoute ==
  ASSUME IInv, NEW a \in Applications, Route(a)
  PROVE  Step(a)
<1> DEFINE p == app[a]
<1>1. RowOf(a) /\ p.status = "none" /\ Unstarted(p) /\ p.recovery # "release"
  BY RowHolds DEF Route, RowOf, Sound, RunsFit, CodeFits, Unscored, Unstarted
<1>2. PICK seen \in Seen(a) : \E frozen \in 0 .. seen :
        LET profile == IF Ready(frozen) THEN frozen ELSE seen
            r == [p EXCEPT !.status = "hard_screening_pending", !.profile = profile]
        IN IF Ready(profile) THEN CanAssess(r) /\ Set(a, Assess(r, TRUE))
           ELSE Set(a, [p EXCEPT !.status = "waiting_job_profile"])
  BY DEF Route
<1>3. PICK frozen \in 0 .. seen :
        LET profile == IF Ready(frozen) THEN frozen ELSE seen
            r == [p EXCEPT !.status = "hard_screening_pending", !.profile = profile]
        IN IF Ready(profile) THEN CanAssess(r) /\ Set(a, Assess(r, TRUE))
           ELSE Set(a, [p EXCEPT !.status = "waiting_job_profile"])
  BY <1>2
<1>4. activeProfile \in 0 .. MaxProfile /\ FirstProfile \in Nat /\ MaxProfile \in Nat
  BY ScreeningAssumption DEF IInv, TypeOK
<1>5. seen \in 0 .. MaxProfile
  BY <1>4 DEF Seen
<1> DEFINE profile == IF Ready(frozen) THEN frozen ELSE seen
           r == [p EXCEPT !.status = "hard_screening_pending", !.profile = profile]
<1>6. profile \in 0 .. MaxProfile
  BY <1>4, <1>5
<1>7. CASE Ready(profile)
  <2>1. Set(a, Assess(r, TRUE))
    BY <1>3, <1>7
  <2> HIDE DEF profile
  <2>2. /\ r \in Rows /\ Kept(p, r) /\ r.status = "hard_screening_pending" /\ r.scoring = p.scoring
        /\ r.recovery = p.recovery
    BY <1>1, <1>6, MovesTaken DEF RowOf, Rows, Kept
  <2> HIDE DEF r
  <2>3. Unstarted(r)
    BY <1>1, <2>2 DEF Unstarted, Kept
  <2> DEFINE q == Assess(r, TRUE)
  <2>4. /\ q \in Rows /\ Kept(r, q) /\ q.recovery \in {"none", r.recovery}
        /\ \/ q.status = "hard_screening_pending" /\ Active(q.hard) /\ q.scoring = r.scoring
           \/ /\ q.status = "screening_running"
              /\ Active(q.scoring) /\ ~ q.scoring.repair /\ q.scoring.step = "freeze"
    BY <2>2, <2>3, Assessed DEF IInv
  <2> HIDE DEF q
  <2>5. Fits(a, p, q)
    BY <1>1, <2>2, <2>3, <2>4, AssessedFits DEF RowOf, Kept
  <2> QED
    BY <2>1, <2>5 DEF Step, q
<1>8. CASE ~ Ready(profile)
  <2> DEFINE q == [p EXCEPT !.status = "waiting_job_profile"]
  <2>1. Set(a, q)
    BY <1>3, <1>8
  <2>3. /\ q \in Rows /\ Kept(p, q) /\ q.status = "waiting_job_profile" /\ q.scoring = p.scoring
        /\ q.recovery = p.recovery
    BY <1>1, MovesTaken DEF RowOf, Rows, Kept
  <2> HIDE DEF q
  <2>4. Sound(q) /\ Stopped(q)
    BY <1>1, <2>3 DEF Sound, RunsFit, Blocked, StageFits, CodeFits, Stopped, Active, Kept, HardStage, Unstarted
  <2>5. Fits(a, p, q)
    BY <1>1, <2>3, <2>4 DEF Fits, RowFits, Kept
  <2> QED
    BY <2>1, <2>5 DEF Step
<1> QED
  BY <1>7, <1>8

\* A row of which only the hard screening run changes.
LEMMA HardFits ==
  ASSUME NEW a \in Applications, RowOf(a), NEW q \in Rows, Kept(app[a], q),
         q.status = app[a].status, q.recovery = app[a].recovery, q.scoring = app[a].scoring,
         Active(q.hard) \/ q.status \notin HardStage
  PROVE  Fits(a, app[a], q)
BY DEF RowOf, Fits, RowFits, Sound, RunsFit, Blocked, StageFits, CodeFits, Stopped, Exists, Kept

\* A row that leaves the waiting and scoring statuses alone and whose hard
\* screening has an end: the runs of the scoring stay as they are.
LEMMA HardEnds ==
  ASSUME NEW a \in Applications, RowOf(a), NEW q \in Rows, Kept(app[a], q),
         app[a].status \in Unscored \ {"waiting_job_profile"}, q.scoring = app[a].scoring,
         q.recovery \in {"none", app[a].recovery} \cup HardCodes,
         \/ q.status = "closed_rejected"
         \/ q.status = "hard_screening_review" /\ q.recovery \in HardCodes
         \/ q.status \in HardStage /\ Active(q.hard)
  PROVE  Fits(a, app[a], q)
<1>1. /\ q.scoring.state = "none" /\ q.scoringFailed.state = "none"
      /\ ~ q.scoring.repair /\ ~ q.scoringFailed.repair
  <2>1. app[a].status \in Early \cup {"none", "closed_cancelled"}
    BY DEF Unscored, HardStage, Early
  <2> QED
    BY <2>1 DEF RowOf, Sound, RunsFit, Kept
<1>2. q.recovery # "release"
  BY DEF RowOf, Sound, CodeFits, Unscored, HardStage, HardCodes
<1>3. Sound(q) /\ Stopped(q)
  BY <1>1, <1>2 DEF Sound, RunsFit, Blocked, StageFits, CodeFits, HardStage, Stopped, Active
<1> QED
  BY <1>2, <1>3 DEF Fits, RowFits, Kept

LEMMA StepHardFreezes ==
  ASSUME IInv, NEW a \in Applications, HardFreezes(a)
  PROVE  Step(a)
<1> DEFINE p == app[a]
           r == IF p.status = "hard_screening_running" THEN p
                ELSE Cleared(Move(p, "run_hard_screening"))
           run == [r.hard EXCEPT !.step = "compute"]
           q == [r EXCEPT !.hard = run]
<1>1. /\ RowOf(a) /\ p \in Rows /\ Active(p.hard)
      /\ p.status \in {"hard_screening_pending", "hard_screening_running"}
      /\ Set(a, q)
  BY RowHolds DEF HardFreezes, RowOf
<1>2. /\ r \in Rows /\ Kept(p, r) /\ r.status = "hard_screening_running"
      /\ r.recovery \in {"none", p.recovery}
      /\ r.hard = p.hard /\ r.scoring = p.scoring
  <2> DEFINE m == Move(p, "run_hard_screening")
  <2>1. CASE p.status = "hard_screening_running"
    BY <1>1, <2>1 DEF Kept
  <2>2. CASE p.status = "hard_screening_pending"
    <3>1. /\ m \in Rows /\ Kept(p, m) /\ m.status = "hard_screening_running"
          /\ m.hard = p.hard /\ m.scoring = p.scoring
      BY <1>1, <2>2, MoveRow, MovesTaken
    <3>2. r = Cleared(m)
      BY <2>2
    <3> HIDE DEF m, r
    <3> QED
      BY <3>1, <3>2, ClearedRow DEF Kept
  <2> QED
    BY <1>1, <2>1, <2>2
<1> HIDE DEF r
<1>3. run \in Runs /\ Active(run)
  BY <1>1, <1>2 DEF Rows, Runs, Active
<1> HIDE DEF run
<1>4. /\ q \in Rows /\ Kept(r, q) /\ q.status = r.status /\ q.recovery = r.recovery
      /\ q.hard = run /\ q.scoring = r.scoring
  BY <1>2, <1>3, HardRow
<1> HIDE DEF q
<1>5. Kept(p, q)
  BY <1>2, <1>4 DEF Kept
<1>6. Fits(a, p, q)
  BY <1>1, <1>2, <1>3, <1>4, <1>5, HardEnds DEF Unscored, HardStage
<1> QED
  BY <1>1, <1>6 DEF Step

LEMMA StepHardEvaluates ==
  ASSUME IInv, NEW a \in Applications, HardEvaluates(a)
  PROVE  Step(a)
<1> DEFINE p == app[a]
           run == [p.hard EXCEPT !.step = "publish"]
           q == [p EXCEPT !.hard = run]
<1>1. RowOf(a) /\ p \in Rows /\ Active(p.hard) /\ Set(a, q)
  BY RowHolds DEF HardEvaluates, RowOf
<1>2. run \in Runs /\ Active(run)
  BY <1>1 DEF Rows, Runs, Active
<1> HIDE DEF run
<1>3. /\ q \in Rows /\ Kept(p, q) /\ q.status = p.status /\ q.recovery = p.recovery
      /\ q.hard = run /\ q.scoring = p.scoring
  BY <1>1, <1>2, HardRow
<1> HIDE DEF q
<1> QED
  BY <1>1, <1>2, <1>3, HardFits DEF Step

LEMMA StepHardPublishes ==
  ASSUME IInv, NEW a \in Applications, HardPublishes(a)
  PROVE  Step(a)
<1> DEFINE p == app[a]
           done == [p EXCEPT !.hard = Over("completed")]
           passed == Cleared(Move(done, "complete_hard_screening_passed"))
<1>1. /\ RowOf(a) /\ p \in Rows /\ p.status = "hard_screening_running"
      /\ p.status \in Unscored \ {"waiting_job_profile"} /\ ~ p.scoringFailed.repair /\ TypeOK
  BY RowHolds DEF HardPublishes, RowOf, Unscored, HardStage, Sound, RunsFit, Early, IInv
<1>2. /\ done \in Rows /\ Kept(p, done) /\ done.status = p.status /\ done.scoring = p.scoring
  BY <1>1, HardRow, RunsTyped
<1>3. \/ CanQueueScoring(passed) /\ Set(a, QueueScoring(passed, TRUE))
      \/ Set(a, Cleared(Move(done, "complete_hard_screening_failed")))
      \/ \E code \in HardCodes :
           Set(a, [Move(done, "complete_hard_screening_review") EXCEPT !.recovery = code])
  BY DEF HardPublishes
<1> HIDE DEF done
<1>4. CASE Set(a, QueueScoring(passed, TRUE))
  <2> DEFINE m == Move(done, "complete_hard_screening_passed")
  <2>1. m \in Rows /\ Kept(done, m) /\ m.status = "submitted"
    BY <1>1, <1>2, MoveRow, MovesTaken
  <2> HIDE DEF m
  <2>2. Cleared(m) \in Rows /\ Kept(m, Cleared(m)) /\ Cleared(m).status = "submitted"
    BY <2>1, ClearedRow
  <2>3. Fits(a, p, QueueScoring(Cleared(m), TRUE))
    BY <1>1, <1>2, <2>1, <2>2, QueuedFits DEF Kept
  <2> QED
    BY <1>4, <2>3 DEF Step, m
<1>5. CASE Set(a, Cleared(Move(done, "complete_hard_screening_failed")))
  <2> DEFINE m == Move(done, "complete_hard_screening_failed")
  <2>1. m \in Rows /\ Kept(done, m) /\ m.status = "closed_rejected" /\ m.scoring = done.scoring
    BY <1>1, <1>2, MoveRow, MovesTaken
  <2> HIDE DEF m
  <2>2. /\ Cleared(m) \in Rows /\ Kept(m, Cleared(m)) /\ Cleared(m).status = "closed_rejected"
        /\ Cleared(m).scoring = m.scoring /\ Cleared(m).recovery = "none"
    BY <2>1, ClearedRow
  <2>3. Kept(p, Cleared(m))
    BY <1>2, <2>1, <2>2 DEF Kept
  <2>4. Fits(a, p, Cleared(m))
    BY <1>1, <1>2, <2>1, <2>2, <2>3, HardEnds
  <2> QED
    BY <1>5, <2>4 DEF Step, m
<1>6. ASSUME NEW code \in HardCodes,
             Set(a, [Move(done, "complete_hard_screening_review") EXCEPT !.recovery = code])
      PROVE  Step(a)
  <2> DEFINE m == Move(done, "complete_hard_screening_review")
             q == [m EXCEPT !.recovery = code]
  <2>1. m \in Rows /\ Kept(done, m) /\ m.status = "hard_screening_review" /\ m.scoring = done.scoring
    BY <1>1, <1>2, MoveRow, MovesTaken
  <2>2. Set(a, q)
    BY <1>6
  <2> HIDE DEF m
  <2>3. /\ q \in Rows /\ Kept(m, q) /\ q.status = "hard_screening_review"
        /\ q.scoring = m.scoring /\ q.recovery = code
    BY <2>1, CodeRow DEF RecoveryCodes
  <2> HIDE DEF q
  <2>4. Kept(p, q)
    BY <1>2, <2>1, <2>3 DEF Kept
  <2>5. Fits(a, p, q)
    BY <1>1, <1>2, <2>1, <2>3, <2>4, HardEnds
  <2> QED
    BY <2>2, <2>5 DEF Step
<1> QED
  BY <1>3, <1>4, <1>5, <1>6

LEMMA StepHardFails ==
  ASSUME IInv, NEW a \in Applications, HardFails(a)
  PROVE  Step(a)
<1> DEFINE p == app[a]
           run == Ended(p.hard, "failed")
           r == [p EXCEPT !.hard = run, !.hardFailed = run]
<1>1. RowOf(a) /\ p \in Rows /\ p.hard \in Runs
  BY RowHolds DEF RowOf, Rows
<1>2. run \in Runs
  BY <1>1, RunOperators
<1>3. IF p.status \in {"hard_screening_pending", "hard_screening_running"}
      THEN Set(a, [Move(r, "fail_hard_screening") EXCEPT !.recovery = "hard_rerun"])
      ELSE Set(a, r)
  BY DEF HardFails
<1> HIDE DEF run
<1>4. /\ r \in Rows /\ Kept(p, r) /\ r.status = p.status /\ r.recovery = p.recovery
      /\ r.scoring = p.scoring
  BY <1>1, <1>2 DEF Rows, Kept
<1> HIDE DEF r
<1>5. CASE p.status \in {"hard_screening_pending", "hard_screening_running"}
  <2>2. "hard_rerun" \in HardCodes /\ "hard_rerun" \in RecoveryCodes
    BY DEF HardCodes, RecoveryCodes
  <2> DEFINE m == Move(r, "fail_hard_screening")
             q == [m EXCEPT !.recovery = "hard_rerun"]
  <2>3. m \in Rows /\ Kept(r, m) /\ m.status = "hard_screening_review" /\ m.scoring = r.scoring
    BY <1>4, <1>5, MoveRow, MovesTaken
  <2> HIDE DEF m
  <2>4. /\ q \in Rows /\ Kept(m, q) /\ q.status = "hard_screening_review"
        /\ q.scoring = m.scoring /\ q.recovery = "hard_rerun"
    BY <2>2, <2>3, CodeRow
  <2>5. Kept(p, q)
    BY <1>4, <2>3, <2>4 DEF Kept
  <2>6. Set(a, q)
    BY <1>3, <1>5 DEF m
  <2> HIDE DEF q
  <2>7. Fits(a, p, q)
    BY <1>1, <1>4, <1>5, <2>2, <2>3, <2>4, <2>5, HardEnds DEF Unscored, HardStage
  <2> QED
    BY <2>6, <2>7 DEF Step
<1>6. CASE p.status \notin {"hard_screening_pending", "hard_screening_running"}
  <2>1. Fits(a, p, r)
    BY <1>1, <1>4, <1>6, HardFits DEF HardStage
  <2> QED
    BY <1>3, <1>6, <2>1 DEF Step
<1> QED
  BY <1>5, <1>6

\* A row of which only the scoring run changes.
LEMMA ScoringFits ==
  ASSUME NEW a \in Applications, RowOf(a), NEW q \in Rows, Kept(app[a], q),
         q.status = app[a].status, q.recovery = app[a].recovery, q.hard = app[a].hard,
         q.scoring.state = "none" <=> app[a].scoring.state = "none",
         q.scoring.repair = app[a].scoring.repair,
         q.scoring.state \in Blocked => q.scoring.step = "freeze",
         ~ q.deleted /\ q.status = "screening_running" => Active(q.scoring),
         a \notin SlowRebuild => Stopped(q)
  PROVE  Fits(a, app[a], q)
BY DEF RowOf, Fits, RowFits, Sound, RunsFit, Blocked, StageFits, CodeFits, Exists, Kept

LEMMA StepScoringFreezes ==
  ASSUME IInv, NEW a \in Applications, ScoringFreezes(a)
  PROVE  Step(a)
<1> DEFINE p == app[a]
           run == [p.scoring EXCEPT !.step = "compute", !.resume = p.resume]
           q == [p EXCEPT !.scoring = run]
<1>1. RowOf(a) /\ p \in Rows /\ Active(p.scoring) /\ Scorable(p)
  BY RowHolds DEF ScoringFreezes, RowOf
<1>2. Set(a, q)
  BY <1>1 DEF ScoringFreezes, Rows, Runs
<1>3. run \in Runs /\ Active(run) /\ run.repair = p.scoring.repair
  <2>1. p.resume \in 0 .. MaxResume /\ p.scoring \in Runs
    BY <1>1, Bounds DEF Rows
  <2> QED
    BY <1>1, <2>1 DEF Runs, Active
<1> HIDE DEF run
<1>4. /\ q \in Rows /\ Kept(p, q) /\ q.status = p.status /\ q.recovery = p.recovery
      /\ q.hard = p.hard /\ q.scoring = run
  BY <1>1, <1>3, ScoringRow
<1> HIDE DEF q
<1>5. ~ q.deleted
  BY <1>1, <1>4 DEF Scorable, Kept
<1>6. Fits(a, p, q)
  BY <1>1, <1>3, <1>4, <1>5, ScoringFits DEF Active, Blocked, Stopped
<1> QED
  BY <1>2, <1>6 DEF Step

LEMMA StepScoringComputes ==
  ASSUME IInv, NEW a \in Applications, ScoringComputes(a)
  PROVE  Step(a)
<1> DEFINE p == app[a]
           run == [p.scoring EXCEPT !.step = "publish"]
           q == [p EXCEPT !.scoring = run]
<1>1. RowOf(a) /\ p \in Rows /\ Active(p.scoring) /\ p.scoring.step = "compute" /\ Set(a, q)
  BY RowHolds DEF ScoringComputes, RowOf
<1>2. run \in Runs /\ Active(run) /\ run.repair = p.scoring.repair
  BY <1>1 DEF Rows, Runs, Active
<1> HIDE DEF run
<1>3. /\ q \in Rows /\ Kept(p, q) /\ q.status = p.status /\ q.recovery = p.recovery
      /\ q.hard = p.hard /\ q.scoring = run
  BY <1>1, <1>2, ScoringRow
<1> HIDE DEF q
<1>4. a \notin SlowRebuild => Stopped(q)
  BY <1>1, <1>3 DEF RowOf, Stopped, Kept
<1>5. Fits(a, p, q)
  BY <1>1, <1>2, <1>3, <1>4, ScoringFits DEF Active, Blocked
<1> QED
  BY <1>1, <1>5 DEF Step

LEMMA StepScoringPublishes ==
  ASSUME IInv, NEW a \in Applications, ScoringPublishes(a)
  PROVE  Step(a)
<1> DEFINE p == app[a]
           over == Over("completed")
           done == [p EXCEPT !.scoring = over, !.version = p.scoring.resume]
           m == Move(done, "complete_scoring")
<1>1. /\ RowOf(a) /\ p \in Rows /\ Active(p.scoring) /\ p.scoring.step = "publish"
      /\ p.scoring.repair \/ p.status = "screening_running"
      /\ Set(a, IF p.scoring.repair THEN done ELSE Cleared(m))
  BY RowHolds DEF ScoringPublishes, RowOf
<1>2. over \in Runs /\ over.state = "completed" /\ ~ over.repair /\ over.step = "freeze"
  BY RunsTyped
<1> HIDE DEF over
<1>3. /\ done \in Rows /\ done.deleted = p.deleted /\ done.scoringFailed = p.scoringFailed
      /\ done.status = p.status /\ done.recovery = p.recovery
      /\ done.hard = p.hard /\ done.scoring = over
  <2>1. p.scoring.resume \in 0 .. MaxResume
    BY <1>1 DEF Rows, Runs
  <2> QED
    BY <1>1, <1>2, <2>1 DEF Rows
<1> HIDE DEF done
<1>4. p.status \notin Unscored
  BY <1>1 DEF RowOf, Sound, RunsFit, Active
<1>5. p.status \in Early \cup {"none", "closed_cancelled"} =>
        ~ p.scoring.repair /\ ~ p.scoringFailed.repair
  BY <1>1 DEF RowOf, Sound, RunsFit
<1>6. a \notin SlowRebuild => Publishable(p)
  <2>1. a \notin SlowRebuild => ~ p.deleted
    BY <1>1 DEF RowOf, Stopped
  <2> QED
    BY <1>1, <1>5, <2>1 DEF Publishable
<1>7. CASE p.scoring.repair
  <2>1. p.status \notin Early \cup {"none", "closed_cancelled"}
    BY <1>5, <1>7
  <2>2. Sound(done)
    BY <1>1, <1>2, <1>3, <1>4, <2>1
    DEF RowOf, Sound, RunsFit, Blocked, StageFits, CodeFits, HardStage, Unscored, Early
  <2>3. Stopped(done)
    BY <1>2, <1>3, <2>1 DEF Stopped, Active, Early
  <2>4. Fits(a, p, done)
    BY <1>3, <1>6, <2>2, <2>3 DEF Fits, RowFits
  <2> QED
    BY <1>1, <1>7, <2>4 DEF Step
<1>8. CASE ~ p.scoring.repair
  <2>1. /\ m \in Rows /\ Kept(done, m) /\ m.status = "department_review" /\ m.scoring = done.scoring
    BY <1>1, <1>3, <1>8, MoveRow, MovesTaken
  <2> HIDE DEF m
  <2> DEFINE q == Cleared(m)
  <2>2. /\ q \in Rows /\ Kept(m, q) /\ q.status = "department_review" /\ q.scoring = m.scoring
        /\ q.recovery = "none"
    BY <2>1, ClearedRow
  <2> HIDE DEF q
  <2>3. ~ p.scoringFailed.repair
    BY <1>1, <1>5, <1>8 DEF Early
  <2>4. Sound(q)
    BY <1>2, <1>3, <2>1, <2>2, <2>3
    DEF Sound, RunsFit, Blocked, StageFits, CodeFits, HardStage, Unscored, Kept
  <2>5. Stopped(q)
    BY <1>2, <1>3, <2>1, <2>2 DEF Stopped, Active
  <2>6. Fits(a, p, q)
    BY <1>3, <1>6, <2>1, <2>2, <2>4, <2>5 DEF Fits, RowFits, Kept
  <2> QED
    BY <1>1, <1>8, <2>6 DEF Step, q
<1> QED
  BY <1>7, <1>8

\* A scoring run that has ended and what it leaves: the row of the application
\* with the end of its run, and the one that tells of it.
LEMMA StepGivesUp ==
  ASSUME IInv, NEW a \in Applications, NEW r \in Rows, NEW codes \in SUBSET ScoringCodes,
         GiveUp(a, r, codes), Active(app[a].scoring),
         r.deleted = app[a].deleted, r.version = app[a].version, r.status = app[a].status,
         r.recovery = app[a].recovery, r.hard = app[a].hard,
         ~ Active(r.scoring), r.scoring.repair = app[a].scoring.repair,
         r.scoring.state \in Blocked => r.scoring.step = "freeze",
         r.scoringFailed.repair => app[a].scoring.repair \/ app[a].scoringFailed.repair
  PROVE  Step(a)
<1> DEFINE p == app[a]
<1>1. RowOf(a) /\ p \in Rows /\ p.status \notin Unscored
  BY RowHolds DEF RowOf, Sound, RunsFit, Active
<1>2. RunsFit(r)
  BY <1>1 DEF RowOf, Sound, RunsFit
<1>3. CASE p.status = "screening_running"
  <2> DEFINE m == Move(r, "fail_scoring")
  <2>1. PICK code \in codes : Set(a, [m EXCEPT !.recovery = code])
    BY <1>3 DEF GiveUp
  <2>2. code \in ScoringCodes /\ code \in RecoveryCodes
    BY <2>1 DEF RecoveryCodes
  <2>3. m \in Rows /\ Kept(r, m) /\ m.status = "screening_failed" /\ m.scoring = r.scoring
    BY <1>3, MoveRow, MovesTaken
  <2> HIDE DEF m
  <2> DEFINE q == [m EXCEPT !.recovery = code]
  <2>4. /\ q \in Rows /\ Kept(m, q) /\ q.status = "screening_failed"
        /\ q.scoring = m.scoring /\ q.recovery = code /\ q.recovery # "release"
    BY <2>2, <2>3, CodeRow DEF ScoringCodes
  <2>5. Set(a, q)
    BY <2>1
  <2> HIDE DEF q
  <2>6. RunsFit(q)
    BY <1>2, <1>3, <2>3, <2>4 DEF RunsFit, Early, Unscored, HardStage, Kept
  <2>7. Sound(q)
    BY <2>2, <2>4, <2>6 DEF Sound, StageFits, CodeFits, HardStage
  <2>8. Stopped(q)
    BY <2>3, <2>4 DEF Stopped
  <2>9. Fits(a, p, q)
    BY <2>3, <2>4, <2>7, <2>8 DEF Fits, RowFits, Kept
  <2> QED
    BY <2>5, <2>9 DEF Step
<1>4. CASE p.status # "screening_running"
  <2>1. Set(a, r)
    BY <1>4 DEF GiveUp
  <2>2. Sound(r)
    BY <1>1, <1>2, <1>4 DEF RowOf, Sound, StageFits, CodeFits
  <2>3. a \notin SlowRebuild => Stopped(r)
    BY <1>1 DEF RowOf, Stopped, Exists
  <2>4. Fits(a, p, r)
    BY <2>2, <2>3 DEF Fits, RowFits
  <2> QED
    BY <2>1, <2>4 DEF Step
<1> QED
  BY <1>3, <1>4

LEMMA StepScoringFails ==
  ASSUME IInv, NEW a \in Applications, ScoringFails(a)
  PROVE  Step(a)
<1> DEFINE p == app[a]
           run == Ended(p.scoring, "failed")
           r == [p EXCEPT !.scoring = run, !.scoringFailed = run]
<1>1. p \in Rows /\ p.scoring \in Runs /\ Active(p.scoring) /\ GiveUp(a, r, ScoringCode(p.scoring.step))
      /\ ScoringCode(p.scoring.step) \in SUBSET ScoringCodes
  BY RowHolds DEF RowOf, Rows, ScoringFails, ScoringCode, ScoringCodes
<1>2. run \in Runs /\ run.state = "failed" /\ run.repair = p.scoring.repair
  BY <1>1, RunOperators DEF Blocked
<1> HIDE DEF run
<1>3. /\ r \in Rows /\ r.deleted = p.deleted /\ r.version = p.version /\ r.status = p.status
      /\ r.recovery = p.recovery /\ r.hard = p.hard /\ r.scoring = run /\ r.scoringFailed = run
  BY <1>1, <1>2 DEF Rows
<1> HIDE DEF r
<1> QED
  BY <1>1, <1>2, <1>3, StepGivesUp DEF Active, Blocked

LEMMA StepScoringIsBlocked ==
  ASSUME IInv, NEW a \in Applications, ScoringIsBlocked(a)
  PROVE  Step(a)
<1> DEFINE p == app[a]
<1>1. /\ p \in Rows /\ p.scoring \in Runs /\ Active(p.scoring) /\ p.scoring.step = "freeze"
      /\ \E state \in Blocked : \E codes \in SUBSET ScoringCodes :
           GiveUp(a, [p EXCEPT !.scoring = Ended(@, state)], codes)
  BY RowHolds DEF RowOf, Rows, ScoringIsBlocked, Blocked, ScoringCodes
<1>2. PICK state \in Blocked : \E codes \in SUBSET ScoringCodes :
        GiveUp(a, [p EXCEPT !.scoring = Ended(@, state)], codes)
  BY <1>1
<1>3. PICK codes \in SUBSET ScoringCodes :
        GiveUp(a, [p EXCEPT !.scoring = Ended(@, state)], codes)
  BY <1>2
<1> DEFINE run == Ended(p.scoring, state)
           r == [p EXCEPT !.scoring = run]
<1>4. /\ run \in Runs /\ run.state \in Blocked /\ run.step = "freeze"
      /\ run.repair = p.scoring.repair
  <2>1. state \in {"failed"} \cup Blocked
    BY <1>2
  <2>2. /\ run \in Runs /\ run.state = state
        /\ run.step = p.scoring.step /\ run.repair = p.scoring.repair
    BY <1>1, <2>1, RunOperators
  <2> QED
    BY <1>1, <1>2, <2>2
<1>5. GiveUp(a, r, codes)
  BY <1>3
<1> HIDE DEF run
<1>6. /\ r \in Rows /\ Kept(p, r) /\ r.status = p.status
      /\ r.recovery = p.recovery /\ r.hard = p.hard /\ r.scoring = run
  BY <1>1, <1>4, ScoringRow
<1> HIDE DEF r
<1> QED
  BY <1>1, <1>4, <1>5, <1>6, StepGivesUp DEF Active, Blocked, Kept

-----------------------------------------------------------------------------
(***************************************************************************)
(* The commands                                                            *)
(***************************************************************************)
\* A failed scoring is queued with another profile, or with the same.
LEMMA StepRequeues ==
  ASSUME IInv, NEW a \in Applications, NEW profile \in 0 .. MaxProfile, NEW readable \in BOOLEAN,
         Exists(app[a]), app[a].status \in {"submitted", "screening_failed"}
  PROVE  /\ Fits(a, app[a], QueueScoring([app[a] EXCEPT !.profile = profile], readable))
         /\ Fits(a, app[a], QueueScoring(app[a], readable))
<1> DEFINE p == app[a]
           b == [p EXCEPT !.profile = profile]
<1>1. p \in Rows /\ TypeOK /\ ~ p.deleted /\ ~ p.scoringFailed.repair
  BY RowHolds DEF RowOf, Sound, RunsFit, IInv, Exists, Early
<1>2. b \in Rows /\ Kept(p, b) /\ b.status = p.status
  BY <1>1, BoundRow
<1>3. Fits(a, p, QueueScoring(p, readable))
  BY <1>1, QueuedFits
<1> HIDE DEF b
<1>4. Fits(a, p, QueueScoring(b, readable))
  BY <1>1, <1>2, QueuedFits DEF Kept
<1> QED
  BY <1>3, <1>4 DEF b

LEMMA StepRunScoring ==
  ASSUME IInv, NEW a \in Applications, RunScoring(a)
  PROVE  Step(a)
<1> DEFINE p == app[a]
           r == Rebound(p)
<1>1. RowOf(a) /\ p \in Rows /\ TypeOK /\ Exists(p) /\ 0 \in 0 .. MaxProfile
  BY RowHolds, Bounds DEF RowOf, IInv, RunScoring
<1>2. ASSUME NEW readable \in BOOLEAN, CanQueueScoring(p), Set(a, QueueScoring(p, readable))
      PROVE  Step(a)
  BY <1>1, <1>2, StepRequeues DEF CanQueueScoring, Step
<1>3. CASE Set(a, r)
  <2>1. /\ r \in Rows /\ Kept(p, r) /\ r.status = p.status /\ r.recovery = p.recovery
        /\ r.hard = p.hard /\ r.scoring = p.scoring
    BY <1>1, ReboundRow
  <2> HIDE DEF r
  <2>2. Fits(a, p, r)
    BY <1>1, <2>1
    DEF RowOf, Fits, RowFits, Sound, RunsFit, Blocked, StageFits, CodeFits, Stopped, Exists, Kept
  <2> QED
    BY <1>3, <2>2 DEF Step
<1> QED
  BY <1>2, <1>3 DEF RunScoring

LEMMA StepRetryInitial ==
  ASSUME IInv, NEW a \in Applications, RetryInitial(a)
  PROVE  Step(a)
<1> DEFINE p == app[a]
           b == [p EXCEPT !.profile = activeProfile]
<1>1. RowOf(a) /\ p \in Rows /\ TypeOK /\ Exists(p) /\ activeProfile \in 0 .. MaxProfile
  BY RowHolds DEF RowOf, IInv, RetryInitial, CanRestart, TypeOK
<1>2. p.status \in Unscored => Unstarted(p)
  BY <1>1 DEF RowOf, Sound, RunsFit, Unstarted, Unscored, HardStage, Early
<1>3. ASSUME NEW r \in BOOLEAN, p.status = "waiting_job_profile",
             Set(a, Release(p, activeProfile, r))
      PROVE  Step(a)
  <2> DEFINE q == Release(p, activeProfile, r)
  <2>1. /\ q \in Rows /\ Kept(p, q) /\ q.recovery = "none"
        /\ \/ q.status = "hard_screening_pending" /\ Active(q.hard) /\ q.scoring = p.scoring
           \/ /\ q.status = "screening_running"
              /\ Active(q.scoring) /\ ~ q.scoring.repair /\ q.scoring.step = "freeze"
    BY <1>1, <1>2, <1>3, Released DEF Unscored
  <2> HIDE DEF q
  <2>2. Fits(a, p, q)
    BY <1>1, <1>2, <1>3, <2>1, AssessedFits DEF Unscored
  <2> QED
    BY <1>3, <2>2 DEF Step, q
<1>4. ASSUME NEW r \in BOOLEAN, p.status = "hard_screening_pending",
             Set(a, Cleared(Assess(b, r)))
      PROVE  Step(a)
  <2>1. b \in Rows /\ Kept(p, b) /\ b.status = p.status /\ b.scoring = p.scoring
    BY <1>1, BoundRow
  <2> HIDE DEF b
  <2>2. Unstarted(b)
    BY <1>2, <1>4, <2>1 DEF Unscored, HardStage, Unstarted, Kept
  <2> DEFINE s == Assess(b, r)
             q == Cleared(s)
  <2>3. /\ s \in Rows /\ Kept(b, s)
        /\ \/ s.status = "hard_screening_pending" /\ Active(s.hard) /\ s.scoring = b.scoring
           \/ /\ s.status = "screening_running"
              /\ Active(s.scoring) /\ ~ s.scoring.repair /\ s.scoring.step = "freeze"
    BY <1>1, <1>4, <2>1, <2>2, Assessed
  <2> HIDE DEF s
  <2>4. /\ q \in Rows /\ Kept(s, q) /\ q.status = s.status /\ q.recovery = "none"
        /\ q.hard = s.hard /\ q.scoring = s.scoring
    BY <2>3, ClearedRow
  <2> HIDE DEF q
  <2>5. Kept(b, q) /\ p.version = b.version
    BY <2>1, <2>3, <2>4 DEF Kept
  <2>6. Fits(a, p, q)
    BY <1>1, <2>1, <2>2, <2>3, <2>4, <2>5, AssessedFits
  <2> QED
    BY <1>4, <2>6 DEF Step, q, s
<1>5. ASSUME NEW r \in BOOLEAN, p.status = "screening_failed", Set(a, QueueScoring(b, r))
      PROVE  Step(a)
  BY <1>1, <1>5, StepRequeues DEF Step
<1>6. PICK r \in BOOLEAN : Set(a, Restarted(p, r))
  BY DEF RetryInitial
<1>7. p.status \in {"waiting_job_profile", "hard_screening_pending", "screening_failed"}
  BY DEF RetryInitial, CanRestart, Restartable
<1> QED
  BY <1>3, <1>4, <1>5, <1>6, <1>7 DEF Restarted

LEMMA StepRetryHard ==
  ASSUME IInv, NEW a \in Applications, RetryHard(a)
  PROVE  Step(a)
<1> DEFINE p == app[a]
           m == Move(p, "retry_hard_screening")
           run == PublishAgain(p.hardFailed)
           c == Cleared(m)
           again == [c EXCEPT !.hard = run]
<1>1. RowOf(a) /\ p \in Rows /\ p.status = "hard_screening_review" /\ p.hardFailed \in Runs
  BY RowHolds DEF RowOf, RetryHard, Rows
<1>2. \/ Set(a, again)
      \/ Set(a, QueueHard(m))
  BY DEF RetryHard
<1>3. /\ m \in Rows /\ Kept(p, m) /\ m.recovery = p.recovery
      /\ m.status = "hard_screening_pending" /\ m.scoring = p.scoring
  BY <1>1, MoveRow, MovesOfScreening, MovesTaken
<1> HIDE DEF m
<1>4. CASE Set(a, again)
  <2>1. run \in Runs /\ Active(run)
    BY <1>1, RunOperators
  <2> HIDE DEF run
  <2>2. c \in Rows /\ Kept(m, c) /\ c.status = m.status /\ c.scoring = m.scoring
        /\ c.recovery = "none"
    BY <1>3, ClearedRow
  <2> HIDE DEF c
  <2>3. /\ again \in Rows /\ Kept(c, again) /\ again.status = c.status
        /\ again.recovery = c.recovery
        /\ again.scoring = c.scoring /\ again.hard = run
    BY <2>1, <2>2, HardRow
  <2> HIDE DEF again
  <2>4. Kept(p, again)
    BY <1>3, <2>2, <2>3 DEF Kept
  <2>5. Fits(a, p, again)
    BY <1>1, <1>3, <2>1, <2>2, <2>3, <2>4, HardEnds DEF Unscored, HardStage
  <2> QED
    BY <1>4, <2>5 DEF Step
<1>5. CASE Set(a, QueueHard(m))
  <2> DEFINE q == QueueHard(m)
  <2>1. /\ q \in Rows /\ Kept(m, q) /\ q.status = m.status
        /\ q.recovery \in {"none", m.recovery}
        /\ Active(q.hard) /\ q.scoring = m.scoring
    BY <1>3, QueuedHard
  <2> HIDE DEF q
  <2>2. Kept(p, q)
    BY <1>3, <2>1 DEF Kept
  <2>3. Fits(a, p, q)
    BY <1>1, <1>3, <2>1, <2>2, HardEnds DEF Unscored, HardStage
  <2> QED
    BY <1>5, <2>3 DEF Step, q
<1> QED
  BY <1>2, <1>4, <1>5

LEMMA StepReviewHard ==
  ASSUME IInv, NEW a \in Applications, ReviewHard(a)
  PROVE  Step(a)
<1> DEFINE p == app[a]
           m == Move(p, "review_hard_screening_pass")
           n == Move(p, "review_hard_screening_reject")
<1>1. /\ RowOf(a) /\ p \in Rows /\ p.status = "hard_screening_review" /\ TypeOK
      /\ ~ p.scoringFailed.repair
  BY RowHolds DEF RowOf, ReviewHard, IInv, Sound, RunsFit, Early
<1>2. \/ Set(a, QueueScoring(Cleared(m), TRUE))
      \/ Set(a, Cleared(n))
  BY DEF ReviewHard
<1>3. m \in Rows /\ Kept(p, m) /\ m.status = "submitted"
  BY <1>1, MoveRow, MovesTaken
<1>4. n \in Rows /\ Kept(p, n) /\ n.status = "closed_rejected" /\ n.scoring = p.scoring
  BY <1>1, MoveRow, MovesTaken
<1> HIDE DEF m, n
<1>5. CASE Set(a, QueueScoring(Cleared(m), TRUE))
  <2>1. Cleared(m) \in Rows /\ Kept(m, Cleared(m)) /\ Cleared(m).status = "submitted"
    BY <1>3, ClearedRow
  <2>2. Fits(a, p, QueueScoring(Cleared(m), TRUE))
    BY <1>1, <1>3, <2>1, QueuedFits DEF Kept
  <2> QED
    BY <1>5, <2>2 DEF Step
<1>6. CASE Set(a, Cleared(n))
  <2>1. /\ Cleared(n) \in Rows /\ Kept(n, Cleared(n)) /\ Cleared(n).status = "closed_rejected"
        /\ Cleared(n).scoring = n.scoring /\ Cleared(n).recovery = "none"
    BY <1>4, ClearedRow
  <2>2. Kept(p, Cleared(n))
    BY <1>4, <2>1 DEF Kept
  <2>3. Fits(a, p, Cleared(n))
    BY <1>1, <1>4, <2>1, <2>2, HardEnds DEF Unscored
  <2> QED
    BY <1>6, <2>3 DEF Step
<1> QED
  BY <1>2, <1>5, <1>6

LEMMA StepRecoverProfile ==
  ASSUME IInv, NEW a \in Applications, RecoverProfile(a)
  PROVE  Step(a)
<1> DEFINE p == app[a]
           b == [p EXCEPT !.profile = activeProfile]
           q == [p EXCEPT !.profile = 0, !.recovery = "profile"]
<1>1. /\ RowOf(a) /\ p \in Rows /\ Exists(p) /\ p.status = "screening_failed"
      /\ activeProfile \in 0 .. MaxProfile
  BY RowHolds DEF RowOf, IInv, RecoverProfile, TypeOK
<1>2. \/ \E r \in BOOLEAN : Set(a, QueueScoring(b, r))
      \/ Set(a, q)
  BY DEF RecoverProfile
<1>3. ASSUME NEW r \in BOOLEAN, Set(a, QueueScoring(b, r))
      PROVE  Step(a)
  BY <1>1, <1>3, StepRequeues DEF Step
<1>4. CASE Set(a, q)
  <2>1. /\ q \in Rows /\ Kept(p, q) /\ q.status = p.status /\ q.recovery = "profile"
        /\ q.hard = p.hard /\ q.scoring = p.scoring
    BY <1>1, Bounds DEF Rows, Kept, RecoveryCodes, ScoringCodes
  <2> HIDE DEF q
  <2>2. Fits(a, p, q)
    BY <1>1, <2>1
    DEF RowOf, Fits, RowFits, Sound, RunsFit, Blocked, StageFits, CodeFits, ScoringCodes, Stopped, Exists, Kept
  <2> QED
    BY <1>4, <2>2 DEF Step
<1> QED
  BY <1>2, <1>3, <1>4

LEMMA StepRebuildScreening ==
  ASSUME IInv, NEW a \in Applications, RebuildScreening(a)
  PROVE  Step(a)
<1> DEFINE p == app[a]
           run == [FreshRun EXCEPT !.repair = TRUE]
           q == [p EXCEPT !.scoring = run]
<1>1. /\ RowOf(a) /\ p \in Rows /\ Exists(p) /\ p.status \in {"hr_second_review", "final_review"}
      /\ Set(a, q)
  BY RowHolds DEF RowOf, RebuildScreening
<1>2. run \in Runs /\ run.state = "active"
  BY RunsTyped DEF Runs
<1> HIDE DEF run
<1>3. /\ q \in Rows /\ Kept(p, q) /\ q.status = p.status /\ q.recovery = p.recovery
      /\ q.hard = p.hard /\ q.scoring = run
  BY <1>1, <1>2, ScoringRow
<1> HIDE DEF q
<1>4. Sound(q)
  BY <1>1, <1>2, <1>3
  DEF RowOf, Sound, RunsFit, Blocked, StageFits, CodeFits, Early, Unscored, HardStage
<1>5. Stopped(q)
  BY <1>1, <1>3 DEF Stopped, Exists, Kept
<1>6. Fits(a, p, q)
  BY <1>3, <1>4, <1>5 DEF Fits, RowFits, Kept
<1> QED
  BY <1>1, <1>6 DEF Step

LEMMA StepAdminRetryHard ==
  ASSUME IInv, NEW a \in Applications, AdminRetryHard(a)
  PROVE  Step(a)
<1> DEFINE p == app[a]
           m == Move(p, "retry_hard_screening")
           run == Again(p.hardFailed)
           q == [m EXCEPT !.hard = run]
<1>1. /\ RowOf(a) /\ p \in Rows /\ Allowed(p.status, "retry_hard_screening") /\ Set(a, q)
      /\ p.hardFailed \in Runs
  BY RowHolds DEF RowOf, AdminRetryHard, Rows
<1>2. /\ p.status \in Unscored \ {"waiting_job_profile"}
      /\ After(p.status, "retry_hard_screening") = "hard_screening_pending"
  BY <1>1, MovesOfScreening DEF Unscored, HardStage
<1>3. /\ m \in Rows /\ Kept(p, m) /\ m.status = "hard_screening_pending" /\ m.scoring = p.scoring
      /\ m.recovery = p.recovery
  BY <1>1, <1>2, MoveRow, MovesOfScreening
<1>4. run \in Runs /\ Active(run)
  BY <1>1, RunOperators
<1> HIDE DEF m, run
<1>5. /\ q \in Rows /\ Kept(m, q) /\ q.status = m.status
      /\ q.hard = run /\ q.scoring = m.scoring /\ q.recovery = m.recovery
  BY <1>3, <1>4, HardRow
<1> HIDE DEF q
<1>6. Kept(p, q)
  BY <1>3, <1>5 DEF Kept
<1>7. Fits(a, p, q)
  BY <1>1, <1>2, <1>3, <1>4, <1>5, <1>6, HardEnds DEF HardStage
<1> QED
  BY <1>1, <1>7 DEF Step

LEMMA StepAdminRetryScoring ==
  ASSUME IInv, NEW a \in Applications, AdminRetryScoring(a)
  PROVE  Step(a)
<1> DEFINE p == app[a]
           m == IF p.status = "screening_failed" THEN Move(p, "retry_scoring") ELSE p
           run == Again(p.scoringFailed)
           q == [m EXCEPT !.scoring = run]
<1>1. /\ RowOf(a) /\ p \in Rows /\ p.scoringFailed.state = "failed" /\ Set(a, q)
      /\ p.scoringFailed \in Runs
  BY RowHolds DEF RowOf, AdminRetryScoring, Rows
<1>2. run \in Runs /\ Active(run) /\ run.step = "freeze" /\ run.repair = p.scoringFailed.repair
  BY <1>1, RunOperators
<1> HIDE DEF run
<1>3. p.status \notin Unscored
  BY <1>1 DEF RowOf, Sound, RunsFit
<1>4. /\ m \in Rows /\ Kept(p, m) /\ m.hard = p.hard
      /\ m.status = IF p.status = "screening_failed" THEN "screening_running" ELSE p.status
      /\ m.recovery = p.recovery
  <2>1. CASE p.status = "screening_failed"
    BY <1>1, <2>1, MoveRow, MovesTaken
  <2>2. CASE p.status # "screening_failed"
    BY <1>1, <2>2 DEF Kept
  <2> QED
    BY <2>1, <2>2
<1> HIDE DEF m
<1>5. /\ q \in Rows /\ Kept(m, q) /\ q.status = m.status /\ q.recovery = m.recovery
      /\ q.hard = m.hard /\ q.scoring = run
  BY <1>2, <1>4, ScoringRow
<1> HIDE DEF q
<1>6. Sound(q)
  BY <1>1, <1>2, <1>3, <1>4, <1>5
  DEF RowOf, Sound, RunsFit, Blocked, StageFits, CodeFits, Early, Unscored, HardStage, Kept, Active
<1>7. Stopped(q)
  BY <1>2, <1>3, <1>4, <1>5 DEF Stopped, Unscored
<1>8. Fits(a, p, q)
  BY <1>4, <1>5, <1>6, <1>7 DEF Fits, RowFits, Kept
<1> QED
  BY <1>1, <1>8 DEF Step

LEMMA StepAdminResume ==
  ASSUME IInv, NEW a \in Applications, AdminResume(a)
  PROVE  Step(a)
<1> DEFINE p == app[a]
           run == [p.scoring EXCEPT !.state = "active"]
           q == [p EXCEPT !.scoring = run]
<1>1. /\ RowOf(a) /\ p \in Rows /\ p.scoring.state \in Blocked /\ Set(a, q)
  BY RowHolds DEF RowOf, AdminResume
<1>2. p.scoring.step = "freeze"
  BY <1>1 DEF RowOf, Sound, RunsFit
<1>3. /\ run \in Runs /\ run.state = "active" /\ run.step = "freeze"
      /\ run.repair = p.scoring.repair
  BY <1>1, <1>2 DEF Rows, Runs
<1> HIDE DEF run
<1>4. /\ q \in Rows /\ Kept(p, q) /\ q.status = p.status /\ q.recovery = p.recovery
      /\ q.hard = p.hard /\ q.scoring = run
  BY <1>1, <1>3, ScoringRow
<1> HIDE DEF q
<1>5. Fits(a, p, q)
  BY <1>1, <1>3, <1>4, ScoringFits DEF Active, Blocked, Stopped
<1> QED
  BY <1>1, <1>5 DEF Step

LEMMA StepRebuildResume ==
  ASSUME IInv, NEW a \in Applications, RebuildResume(a)
  PROVE  Step(a)
<1> DEFINE p == app[a]
           next == p.resume + 1
           r == [p EXCEPT !.resume = next]
<1>1. /\ RowOf(a) /\ p \in Rows /\ p.resume < MaxResume /\ TypeOK
      /\ p.deleted => a \in SlowRebuild
  BY RowHolds DEF RowOf, RebuildResume, IInv
<1>2. IF r.status \in {"submitted", "screening_failed"}
      THEN \E readable \in BOOLEAN :
             Set(a, [QueueScoring(r, readable) EXCEPT !.demanded = r.resume])
      ELSE Set(a, r)
  BY DEF RebuildResume
<1>3. next \in 1 .. MaxResume /\ next \in 0 .. MaxResume
  BY <1>1, Bounds DEF Rows
<1> HIDE DEF next
<1>4. /\ r \in Rows /\ Kept(p, r) /\ r.status = p.status /\ r.recovery = p.recovery
      /\ r.hard = p.hard /\ r.scoring = p.scoring /\ r.resume = next
  BY <1>1, <1>3 DEF Rows, Kept
<1> HIDE DEF r
<1>5. CASE r.status \in {"submitted", "screening_failed"}
  <2>1. PICK readable \in BOOLEAN :
          Set(a, [QueueScoring(r, readable) EXCEPT !.demanded = r.resume])
    BY <1>2, <1>5
  <2> DEFINE s == QueueScoring(r, readable)
             q == [s EXCEPT !.demanded = r.resume]
  <2>2. ~ r.scoringFailed.repair
    BY <1>1, <1>4, <1>5 DEF RowOf, Sound, RunsFit, Early, Kept
  <2>3. Fits(a, p, s)
    BY <1>1, <1>4, <1>5, <2>2, QueuedFits DEF Kept
  <2> HIDE DEF s
  <2>4. /\ q \in Rows /\ Kept(s, q) /\ q.status = s.status /\ q.recovery = s.recovery
        /\ q.hard = s.hard /\ q.scoring = s.scoring
    BY <1>3, <1>4, <2>3 DEF Rows, Kept, Fits, RowFits
  <2>5. Set(a, q)
    BY <2>1 DEF s
  <2> HIDE DEF q
  <2>6. Fits(a, p, q)
    BY <2>3, <2>4
    DEF Fits, RowFits, Sound, RunsFit, Blocked, StageFits, CodeFits, Stopped, Exists, Kept
  <2> QED
    BY <2>5, <2>6 DEF Step
<1>6. CASE r.status \notin {"submitted", "screening_failed"}
  <2>1. Fits(a, p, r)
    BY <1>1, <1>4
    DEF RowOf, Fits, RowFits, Sound, RunsFit, Blocked, StageFits, CodeFits, Stopped, Exists, Kept
  <2> QED
    BY <1>2, <1>6, <2>1 DEF Step
<1> QED
  BY <1>5, <1>6

LEMMA StepDelete ==
  ASSUME IInv, NEW a \in Applications, Delete(a)
  PROVE  Step(a)
<1> DEFINE p == app[a]
           h == CancelRun(p.hard)
           s == CancelRun(p.scoring)
           q == [p EXCEPT !.deleted = TRUE, !.hard = h, !.scoring = s]
<1>1. RowOf(a) /\ p \in Rows /\ Set(a, q) /\ p.hard \in Runs /\ p.scoring \in Runs
  BY RowHolds DEF RowOf, Delete, Rows
<1>2. /\ h \in Runs /\ s \in Runs /\ ~ Active(s)
      /\ s.state = "none" <=> p.scoring.state = "none"
      /\ s.state \in Blocked => p.scoring.state \in Blocked /\ s = p.scoring
      /\ s.repair => p.scoring.repair
  BY <1>1, RunOperators
<1> HIDE DEF h, s
<1>3. /\ q \in Rows /\ q.deleted /\ q.status = p.status /\ q.recovery = p.recovery
      /\ q.version = p.version /\ q.scoringFailed = p.scoringFailed /\ q.scoring = s
  BY <1>1, <1>2 DEF Rows
<1> HIDE DEF q
<1>4. Sound(q)
  BY <1>1, <1>2, <1>3 DEF RowOf, Sound, RunsFit, Blocked, StageFits, CodeFits
<1>5. Fits(a, p, q)
  BY <1>2, <1>3, <1>4 DEF Fits, RowFits, Stopped, Exists
<1> QED
  BY <1>1, <1>5 DEF Step

LEMMA StepInterviewed ==
  ASSUME IInv, NEW a \in Applications, Interviewed(a)
  PROVE  Step(a)
<1> DEFINE p == app[a]
<1>1. RowOf(a) /\ p \in Rows /\ ~ p.deleted
  BY RowHolds DEF RowOf, Interviewed, Exists
<1>2. PICK m \in InterviewMoves :
        m[1] = p.status /\ m[3] \notin {"on_hold", "manual_review"} /\ Set(a, [p EXCEPT !.status = m[3]])
  BY DEF Interviewed
<1>3. /\ p.recovery # "release"
      /\ m[3] \in Statuses /\ m[3] \notin Early \cup {"none", "closed_cancelled"}
  BY <1>1, <1>2, MovesOfScreening DEF RowOf, Sound, CodeFits
<1> DEFINE q == [p EXCEPT !.status = m[3]]
<1>4. /\ q \in Rows /\ Kept(p, q) /\ q.status = m[3] /\ q.scoring = p.scoring
      /\ q.recovery = p.recovery
  BY <1>1, <1>3 DEF Rows, Kept
<1> HIDE DEF q
<1>5. Sound(q)
  BY <1>1, <1>3, <1>4
  DEF RowOf, Sound, RunsFit, Blocked, StageFits, CodeFits, Early, Unscored, HardStage
<1>6. Stopped(q)
  BY <1>1, <1>3, <1>4 DEF Stopped, Early, Kept
<1>7. Fits(a, p, q)
  BY <1>4, <1>5, <1>6 DEF Fits, RowFits, Kept
<1> QED
  BY <1>2, <1>7 DEF Step, q

-----------------------------------------------------------------------------
(***************************************************************************)
(* The steps of all applications at once                                   *)
(***************************************************************************)
LEMMA WritesAll ==
  ASSUME IInv, DOMAIN app' = Applications, app' = [a \in Applications |-> app'[a]],
         \A a \in Applications :
           /\ RowFits(a, app[a], app'[a])
           /\ app'[a].recovery = "release" => Ready(activeProfile'),
         FirstProfile <= activeProfile',
         activeProfile' \in 0 .. MaxProfile, policyEnabled' \in BOOLEAN, jobOpen' \in BOOLEAN
  PROVE  /\ IInv'
         /\ \A a \in Applications \ SlowRebuild :
              app'[a].version # app[a].version => Publishable(app[a])
<1>1. \A a \in Applications : app'[a] \in Rows
  BY DEF RowFits
<1>2. app' \in [Applications -> Rows]
  BY <1>1
<1>3. TypeOK'
  BY <1>2 DEF TypeOK, Rows
<1>4. /\ \A a \in Applications : Sound(app'[a])
      /\ \A a \in Applications \ SlowRebuild : Stopped(app'[a])
      /\ \A a \in Applications \ SlowRebuild :
           app'[a].version # app[a].version => Publishable(app[a])
  BY DEF RowFits
<1> QED
  BY <1>3, <1>4 DEF IInv

LEMMA RowStays ==
  ASSUME NEW a \in Applications, RowOf(a)
  PROVE  Fits(a, app[a], app[a])
BY DEF RowOf, Fits, RowFits

\* The release of one application, or the code that it failed.
LEMMA ReleaseFits ==
  ASSUME IInv, NEW a \in Applications, NEW profile \in 0 .. MaxProfile,
         NEW q \in ReleaseOutcomes(app[a], profile)
  PROVE  RowFits(a, app[a], q)
<1> DEFINE p == app[a]
           b == [p EXCEPT !.profile = profile]
           coded == [p EXCEPT !.recovery = "release"]
<1>1. RowOf(a) /\ p \in Rows /\ TypeOK
  BY RowHolds DEF RowOf, IInv
<1>2. CASE ~ HeldByProfile(p)
  <2>1. q = p
    BY <1>2 DEF ReleaseOutcomes
  <2> QED
    BY <1>1, <2>1, RowStays DEF Fits
<1>3. CASE HeldByProfile(p) /\ q = coded
  <2>1. /\ coded \in Rows /\ Kept(p, coded) /\ coded.status = p.status
        /\ coded.recovery = "release" /\ coded.hard = p.hard /\ coded.scoring = p.scoring
    BY <1>1, CodeRow DEF RecoveryCodes
  <2>2. p.status \in {"waiting_job_profile", "screening_failed"}
    BY <1>3 DEF HeldByProfile
  <2> HIDE DEF coded
  <2>3. RowFits(a, p, coded)
    BY <1>1, <2>1, <2>2
    DEF RowOf, Fits, RowFits, Sound, RunsFit, Blocked, StageFits, CodeFits, Stopped, Kept
  <2> QED
    BY <1>3, <2>1, <2>3
<1>4. CASE HeldByProfile(p) /\ p.status = "waiting_job_profile" /\ q # coded
  <2>1. PICK r \in BOOLEAN : q = Release(p, profile, r)
    BY <1>4 DEF ReleaseOutcomes
  <2>2. Unstarted(p)
    BY <1>1, <1>4 DEF RowOf, Sound, RunsFit, Unstarted, Unscored, Early
  <2>3. /\ q \in Rows /\ Kept(p, q) /\ q.recovery = "none"
        /\ \/ q.status = "hard_screening_pending" /\ Active(q.hard) /\ q.scoring = p.scoring
           \/ /\ q.status = "screening_running"
              /\ Active(q.scoring) /\ ~ q.scoring.repair /\ q.scoring.step = "freeze"
    BY <1>1, <1>4, <2>1, <2>2, Released
  <2>4. Fits(a, p, q)
    BY <1>1, <2>2, <2>3, AssessedFits
  <2> QED
    BY <2>4 DEF Fits
<1>5. CASE HeldByProfile(p) /\ p.status # "waiting_job_profile" /\ q # coded
  <2>1. PICK r \in BOOLEAN : q = QueueScoring(b, r)
    BY <1>5 DEF ReleaseOutcomes
  <2>2. Exists(p) /\ p.status = "screening_failed" /\ ~ p.scoringFailed.repair
    BY <1>1, <1>5 DEF HeldByProfile, RowOf, Sound, RunsFit, Early
  <2>3. b \in Rows /\ Kept(p, b) /\ b.status = p.status
    BY <1>1, BoundRow
  <2>4. Fits(a, p, q)
    BY <2>1, <2>2, StepRequeues
  <2> QED
    BY <2>4 DEF Fits
<1> QED
  BY <1>2, <1>3, <1>4, <1>5

LEMMA StepPublishProfile ==
  ASSUME IInv, PublishProfile
  PROVE  /\ IInv'
         /\ \A a \in Applications \ SlowRebuild :
              app'[a].version # app[a].version => Publishable(app[a])
<1>1. /\ app \in [Applications -> Rows]
      /\ activeProfile \in 0 .. MaxProfile /\ policyEnabled \in BOOLEAN /\ jobOpen \in BOOLEAN
  BY RowsTyped DEF IInv
<1> DEFINE profile == activeProfile + 1
           outcomes == [a \in Applications |-> ReleaseOutcomes(app[a], profile)]
<1>2. /\ profile \in 0 .. MaxProfile /\ activeProfile' = profile
      /\ policyEnabled' = policyEnabled /\ jobOpen' = jobOpen
      /\ FirstProfile <= profile /\ Ready(profile)
  BY <1>1, Bounds, ScreeningAssumption DEF PublishProfile, IInv, Ready
<1>3. /\ app' \in [Applications -> UNION {outcomes[a] : a \in Applications}]
      /\ \A a \in Applications : app'[a] \in outcomes[a]
  BY DEF PublishProfile
<1> HIDE DEF profile
<1>4. \A a \in Applications : app'[a] \in ReleaseOutcomes(app[a], profile)
  BY <1>3
<1>5. \A a \in Applications : RowFits(a, app[a], app'[a])
  BY <1>2, <1>4, ReleaseFits
<1>6. DOMAIN app' = Applications /\ app' = [a \in Applications |-> app'[a]]
  BY <1>3
<1> QED
  BY <1>1, <1>2, <1>5, <1>6, WritesAll

LEMMA StepDeleteJob ==
  ASSUME IInv, DeleteJob
  PROVE  /\ IInv'
         /\ \A a \in Applications \ SlowRebuild :
              app'[a].version # app[a].version => Publishable(app[a])
<1>1. /\ app \in [Applications -> Rows]
      /\ activeProfile \in 0 .. MaxProfile /\ policyEnabled \in BOOLEAN
  BY RowsTyped DEF IInv
<1>2. /\ activeProfile' = activeProfile /\ policyEnabled' = policyEnabled /\ jobOpen' = FALSE
      /\ FirstProfile <= activeProfile
  BY DEF DeleteJob, IInv
<1>3. app' = [a \in Applications |->
                IF Exists(app[a]) /\ Allowed(app[a].status, "cancel_recruitment")
                THEN [Move(app[a], "cancel_recruitment")
                        EXCEPT !.hard = CancelRun(@), !.scoring = CancelRun(@)]
                ELSE app[a]]
  BY DEF DeleteJob
<1>4. ASSUME NEW a \in Applications
      PROVE  /\ Fits(a, app[a], app'[a])
             /\ app[a].recovery = "release" => Ready(activeProfile)
  <2> DEFINE p == app[a]
             m == Move(p, "cancel_recruitment")
             h == CancelRun(m.hard)
             s == CancelRun(m.scoring)
             q == [m EXCEPT !.hard = h, !.scoring = s]
  <2>1. RowOf(a) /\ p \in Rows
    BY RowHolds DEF RowOf
  <2>2. app'[a] = IF Exists(p) /\ Allowed(p.status, "cancel_recruitment") THEN q ELSE p
    BY <1>3
  <2>3. CASE Exists(p) /\ Allowed(p.status, "cancel_recruitment")
    <3>1. p.status \in Early /\ After(p.status, "cancel_recruitment") = "closed_cancelled"
      BY <2>3, MovesOfScreening
    <3>2. /\ m \in Rows /\ Kept(p, m) /\ m.status = "closed_cancelled" /\ m.scoring = p.scoring
          /\ m.recovery = p.recovery
          /\ m.hard \in Runs /\ m.scoring \in Runs
      <4>1. /\ m \in Rows /\ Kept(p, m) /\ m.status = "closed_cancelled" /\ m.scoring = p.scoring
            /\ m.recovery = p.recovery
        BY <2>1, <3>1, MoveRow, MovesOfScreening
      <4> HIDE DEF m
      <4> QED
        BY <4>1 DEF Rows
    <3> HIDE DEF m
    <3>3. /\ h \in Runs /\ s \in Runs /\ ~ Active(s)
          /\ s.state \in Blocked => m.scoring.state \in Blocked /\ s = m.scoring
          /\ s.repair => m.scoring.repair
      BY <3>2, RunOperators
    <3> HIDE DEF h, s
    <3>4. /\ q \in Rows /\ Kept(m, q) /\ q.status = "closed_cancelled" /\ q.scoring = s
          /\ q.recovery = m.recovery
      BY <3>2, <3>3 DEF Rows, Kept
    <3> HIDE DEF q
    <3>5. RunsFit(q)
      BY <2>1, <3>1, <3>2, <3>3, <3>4 DEF RowOf, Sound, RunsFit, Unscored, HardStage, Kept
    <3>6. Sound(q)
      BY <3>4, <3>5 DEF Sound, StageFits, CodeFits, HardStage
    <3>7. Stopped(q)
      BY <3>3, <3>4 DEF Stopped
    <3>8. Fits(a, p, q)
      BY <3>2, <3>4, <3>6, <3>7 DEF Fits, RowFits, Kept
    <3> QED
      BY <2>1, <2>2, <2>3, <3>8 DEF RowOf
  <2>4. CASE ~ (Exists(p) /\ Allowed(p.status, "cancel_recruitment"))
    <3>1. app'[a] = p
      BY <2>2, <2>4
    <3> QED
      BY <2>1, <3>1, RowStays DEF RowOf
  <2> QED
    BY <2>3, <2>4
<1>5. DOMAIN app' = Applications /\ app' = [a \in Applications |-> app'[a]]
  BY <1>3
<1> QED
  BY <1>1, <1>2, <1>4, <1>5, WritesAll DEF Fits, RowFits

-----------------------------------------------------------------------------
(***************************************************************************)
(* The theorems                                                            *)
(***************************************************************************)
LEMMA InitHolds == Init => IInv
<1> SUFFICES ASSUME Init PROVE IInv
  OBVIOUS
<1>1. /\ NoRun \in Runs /\ NoRun.state = "none" /\ ~ NoRun.repair
      /\ FreshRun \in Runs /\ FreshRun.state = "active" /\ FreshRun.step = "freeze"
      /\ ~ FreshRun.repair
  BY RunsTyped DEF NoRun
<1>2. /\ Absent \in Rows /\ Absent.status = "none" /\ Absent.scoring = NoRun
      /\ Absent.scoringFailed = NoRun /\ ~ Absent.deleted /\ Absent.profile = 0
      /\ Absent.recovery = "none"
  BY <1>1, Bounds DEF Absent, Rows, RecoveryCodes
<1>3. /\ Legacy \in Rows /\ Legacy.status = "screening_running" /\ Legacy.scoring = FreshRun
      /\ Legacy.scoringFailed = NoRun /\ ~ Legacy.deleted /\ Legacy.recovery = "none"
  <2> HIDE DEF Absent
  <2> QED
    BY <1>1, <1>2, Bounds, MovesTaken DEF Legacy, Rows
<1>4. \A p \in {Absent, Legacy} :
        /\ p \in Rows /\ Sound(p) /\ Stopped(p) /\ p.recovery = "none"
  BY <1>1, <1>2, <1>3
  DEF Sound, RunsFit, Blocked, StageFits, CodeFits, Stopped, Unscored, HardStage, Active
<1>5. \A a \in Applications : app[a] \in {Absent, Legacy}
  BY DEF Init
<1>6. app \in [Applications -> Rows]
  <2>1. app \in [Applications -> {Absent, Legacy}]
    BY DEF Init
  <2> QED
    BY <1>4, <2>1
<1>7. TypeOK
  BY <1>6, Bounds, RowsTyped DEF Init
<1> QED
  BY <1>4, <1>5, <1>7, ScreeningAssumption DEF IInv, Init

LEMMA NextHolds ==
  ASSUME IInv, [Next]_vars
  PROVE  /\ IInv'
         /\ \A a \in Applications \ SlowRebuild :
              app'[a].version # app[a].version => Publishable(app[a])
<1>1. ASSUME NEW a \in Applications, Step(a)
      PROVE  /\ IInv'
             /\ \A b \in Applications \ SlowRebuild :
                  app'[b].version # app[b].version => Publishable(app[b])
  BY <1>1, Writes DEF Step
<1>2. ASSUME NEW a \in Applications, HardStep(a)
      PROVE  Step(a)
  BY <1>2, StepHardFreezes, StepHardEvaluates, StepHardPublishes, StepHardFails DEF HardStep
<1>3. ASSUME NEW a \in Applications, ScoringStep(a)
      PROVE  Step(a)
  BY <1>3, StepScoringFreezes, StepScoringComputes, StepScoringPublishes, StepScoringFails,
     StepScoringIsBlocked DEF ScoringStep
<1>4. ASSUME NEW a \in Applications, Command(a)
      PROVE  Step(a)
  BY <1>4, StepRunScoring, StepRetryInitial, StepRetryHard, StepReviewHard, StepRecoverProfile,
     StepRebuildScreening, StepAdminRetryHard, StepAdminRetryScoring, StepAdminResume,
     StepRebuildResume, StepDelete, StepInterviewed DEF Command
<1>5. CASE SavePolicy \/ UNCHANGED vars
  <2>1. /\ app' = app /\ activeProfile' = activeProfile /\ jobOpen' = jobOpen
        /\ policyEnabled' \in BOOLEAN
    BY <1>5 DEF SavePolicy, vars, IInv, TypeOK
  <2>2. IInv'
    BY <2>1 DEF IInv, TypeOK
  <2> QED
    BY <2>1, <2>2
<1> QED
  BY <1>1, <1>2, <1>3, <1>4, <1>5, StepRoute, StepPublishProfile, StepDeleteJob DEF Next

\* The inductive invariant holds from the start through every step.
THEOREM Invariant == Spec => []IInv
<1>1. IInv /\ [Next]_vars => IInv'
  BY NextHolds
<1> QED
  BY <1>1, InitHolds, PTL DEF Spec

\* What waits for a worker has an active run: an application in hard screening
\* one of hard screening and none of scoring, one that is being scored one of
\* scoring, through every retry, release, deletion and administration.
THEOREM StagesHaveRuns == Spec => []StageHasRun
<1>1. IInv => StageHasRun
  BY DEF IInv, Sound, StageFits, RunsFit, StageHasRun, Exists, HardStage, Unscored, Active
<1> QED
  BY <1>1, Invariant, PTL

\* Whoever gives an application up leaves a code of that stage with it, also for
\* those that are deleted meanwhile.
THEOREM FailuresAreExplained == Spec => []FailureIsExplained
<1>1. IInv => FailureIsExplained
  BY DEF IInv, Sound, CodeFits, FailureIsExplained
<1> QED
  BY <1>1, Invariant, PTL

\* What the list offers to start is accepted: a failed release leaves its code
\* only where an assessment can still be started, and only beside a profile to
\* start it with, however often profiles are published, runs fail and are retried.
THEOREM OfferedStartsAreAccepted == Spec => []OfferedStartAccepted
<1>1. ASSUME IInv, NEW a \in Applications, StartOffered(app[a]),
             ~ Active(app[a].hard), ~ Active(app[a].scoring)
      PROVE  CanRestart(app[a])
  <2> DEFINE p == app[a]
             b == [p EXCEPT !.profile = activeProfile]
             m == Move(b, "job_profile_ready")
  <2>1. RowOf(a) /\ p \in Rows /\ Exists(p) /\ activeProfile \in 0 .. MaxProfile
    BY <1>1, RowHolds DEF RowOf, IInv, TypeOK, StartOffered
  <2>2. Ready(activeProfile) /\ p.status \in {"waiting_job_profile", "screening_failed"}
    BY <1>1, <2>1 DEF StartOffered, RowOf, Sound, StageFits, CodeFits, Exists
  <2>3. /\ b \in Rows /\ b.status = p.status /\ b.scoring = p.scoring
    BY <2>1, BoundRow
  <2>4. b.profile = activeProfile
    BY <2>1 DEF Rows
  <2> HIDE DEF b
  <2>5. ASSUME p.status = "waiting_job_profile"
        PROVE  CanRelease(p, activeProfile)
    <3>1. /\ m \in Rows /\ m.status = "hard_screening_pending" /\ m.scoring = b.scoring
      BY <2>3, <2>5, MoveRow, MovesTaken
    <3>2. Bind(p, activeProfile) = m
      BY DEF Bind, b
    <3> HIDE DEF m
    <3> DEFINE k == Move(m, "skip_hard_screening")
    <3>3. k.status = "submitted" /\ k.scoring = m.scoring
      BY <3>1, MoveRow, MovesTaken
    <3>4. SkipHard(m) = k
      BY <3>1 DEF SkipHard
    <3> HIDE DEF k
    <3>5. CanQueueScoring(k)
      BY <1>1, <2>3, <3>1, <3>3 DEF CanQueueScoring
    <3> QED
      BY <3>1, <3>2, <3>4, <3>5 DEF CanRelease, CanAssess, CanQueueHard
  <2>6. ASSUME p.status = "screening_failed"
        PROVE  CanQueueScoring(b)
    BY <1>1, <2>2, <2>3, <2>4, <2>6 DEF CanQueueScoring
  <2> QED
    BY <2>1, <2>2, <2>5, <2>6 DEF CanRestart, Restartable, b
<1>2. IInv => OfferedStartAccepted
  BY <1>1 DEF OfferedStartAccepted
<1> QED
  BY <1>2, Invariant, PTL

\* If no rebuild is overtaken by a deletion, no V1 is published for an application
\* that is deleted, cancelled or, unless as a repair, rejected.
THEOREM NothingComesTooLate ==
  ASSUME SlowRebuild = {}
  PROVE  Spec => NothingPublishedWhenOver
<1> DEFINE Quiet == \A a \in Applications :
                      \/ app[a].deleted
                      \/ app[a].status = "closed_cancelled"
                      \/ app[a].status = "closed_rejected" /\ ~ app[a].scoring.repair
                      => app'[a].version = app[a].version
<1>1. IInv /\ [Next]_vars => [Quiet]_vars
  <2> SUFFICES ASSUME IInv, [Next]_vars PROVE Quiet
    OBVIOUS
  <2>1. \A a \in Applications : app'[a].version # app[a].version => Publishable(app[a])
    BY NextHolds
  <2> QED
    BY <2>1 DEF Publishable
<1> QED
  BY <1>1, Invariant, PTL DEF Spec, NothingPublishedWhenOver
=============================================================================
