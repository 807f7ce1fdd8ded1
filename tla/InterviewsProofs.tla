-------------------------- MODULE InterviewsProofs ---------------------------
(***************************************************************************)
(* What Interviews keeps for every number of requests, interventions and   *)
(* versions.  The properties that the runs check are not inductive: they   *)
(* rest on which rounds have begun at which stage (Stages), on what a run  *)
(* that is stopped may still be restarted with (SourcesFit) and on which   *)
(* request each version belongs to (FeedbackFits).                         *)
(***************************************************************************)
EXTENDS Interviews, FiniteSetTheorems, TLAPS

(***************************************************************************)
(* Types                                                                   *)
(***************************************************************************)
RunRecords == [state : States, step : 1 .. 3, source : Nat,
               feedback : 0 .. MaxRequests + 1, request : 0 .. MaxRequests, admin : BOOLEAN]

Interviewings == {"none", "created", "recording", "submitted", "scoring", "completed", "failed"}

PublishedKeys == (0 .. MaxRequests) \X Nat \X (0 .. MaxRequests + 1)

RoundRecords == [interview : Interviewings, run : RunRecords, replaced : RunRecords,
                 feedback : 0 .. MaxRequests + 1,
                 version : Nat, basis : Nat, published : SUBSET PublishedKeys]

Recoveries == [of : {"none", "planning"} \cup Rounds,
               kind : {"none", "assessment", "retry", "publish", "source"},
               since : Nat, renew : BOOLEAN]

Tasks == {"department_review", "confirm_first_guide", "review_for_second_interview",
          "make_final_decision"} \cup Rounds

Plannings == [state : States \ {"blocked"}, publishing : BOOLEAN, stoppedOnce : BOOLEAN]

Screenings == [version : 1 .. MaxVersion, repairing : BOOLEAN, condemned : 0 .. MaxVersion,
               forgotten : BOOLEAN]

\* The stages before the first round is over, between the rounds, and all.
FirstStage == {"department_review", "first_interview_planning",
               "first_interview_in_progress", "first_interview_evaluation"}
SecondStage == {"hr_second_review", "second_interview_in_progress", "second_interview_evaluation"}
Reached == FirstStage \cup SecondStage \cup {"final_review", "offer_process", "closed_rejected"}

Typed ==
    /\ status \in Reached
    /\ recovery \in Recoveries
    /\ tasks \subseteq Tasks
    /\ plan \in {"none", "draft", "confirmed"}
    /\ planning \in Plannings
    /\ screening \in Screenings
    /\ screening.repairing => screening.version < MaxVersion
    /\ asked \in [requests : 0 .. MaxRequests, interventions : 0 .. MaxInterventions]
    /\ round \in [Rounds -> RoundRecords]
    /\ \A r \in Rounds : round[r].feedback <= asked.requests + 1
    /\ round["first"].run.source <= screening.version

(***************************************************************************)
(* The inductive invariant                                                 *)
(***************************************************************************)
\* A round that has not been submitted has no run and no version.
Untouched(r) ==
    /\ round[r].run.state = "none" /\ round[r].replaced.state = "none"
    /\ round[r].published = {}

Stages ==
    /\ status \in FirstStage => Untouched("first")
    /\ status \in FirstStage \cup SecondStage => Untouched("second")
    /\ plan = "confirmed" => status \notin {"department_review", "first_interview_planning"}

\* A version of a round has made the task of the decision that follows it.
VersionsAreTold ==
    /\ status = "hr_second_review" /\ round["first"].published # {}
         => "review_for_second_interview" \in tasks
    /\ status = "final_review" /\ round["second"].published # {}
         => "make_final_decision" \in tasks

\* An interview follows its run, and versions are counted.
RoundFits(r) ==
    /\ round[r].interview \in {"submitted", "scoring"} /\ ~ Closed
         => round[r].run.state \in {"active", "blocked"}
    /\ round[r].interview = "completed"
         => round[r].run.state = "completed" /\ round[r].version > 0
    /\ IsFiniteSet(round[r].published) /\ round[r].version = Cardinality(round[r].published)

\* A run that nobody but people has started is of the latest feedback, and its
\* request has no version as long as it is under way.
FeedbackFits(r) ==
    LET run == round[r].run
    IN /\ run.state # "none" /\ ~ run.admin => run.feedback = round[r].feedback
       /\ run.state = "completed" /\ ~ run.admin => round[r].basis = round[r].feedback
       /\ run.request <= asked.requests /\ round[r].replaced.request <= asked.requests
       /\ \A key \in round[r].published : key[1] <= asked.requests
       /\ Active(run) /\ ~ run.admin => \A key \in round[r].published : key[1] # run.request

\* What is found of a V1 is remembered by the recovery code alone.
Remembered == ~ screening.forgotten /\ ~ Closed

\* As long as it is remembered and the application is open: a V1 found unusable
\* is behind the latest one unless the recovery code asks for a newer, and a run
\* that is under way or may go on where it stopped has not read it.  It is
\* forgotten in the second round only, and with it the request for a newer one.
SourcesFit ==
    /\ screening.forgotten => round["second"].run.state # "none" /\ ~ Renews
    /\ Remembered =>
        LET run == round["first"].run
        IN /\ run.state = "none" => screening.condemned = 0
           /\ Active(run) \/ ~ Renews => screening.condemned < screening.version
           /\ Renews => /\ recovery.kind = "source"
                        /\ screening.condemned <= recovery.since
                        /\ recovery.since <= screening.version
           /\ run.source # 0 /\ (Active(run) \/ (Stopped(run) /\ ~ Renews))
                => run.source > screening.condemned

IInv ==
    /\ Typed
    /\ Stages
    /\ SomebodyIsTold
    /\ VersionsAreTold
    /\ \A r \in Rounds : RoundFits(r) /\ FeedbackFits(r)
    /\ SourcesFit
    /\ FailureIsExplained
-----------------------------------------------------------------------------
(***************************************************************************)
(* The moves of the interviews                                             *)
(***************************************************************************)
\* What After chooses is a move of the table.
LEMMA AfterIsAMove ==
  ASSUME NEW from, NEW action, Allowed(from, action)
  PROVE  \E m \in Moves : m[1] = from /\ m[2] = action /\ m[3] = After(from, action)
<1> DEFINE good(m) == m[1] = from /\ m[2] = action
           chosen == CHOOSE m : m \in Moves /\ good(m)
<1>1. \E m \in Moves : good(m)
  BY DEF Allowed
<1>2. chosen \in Moves /\ good(chosen)
  BY <1>1
<1>3. After(from, action) = chosen[3]
  BY DEF After
<1> QED
  BY <1>2, <1>3

\* The moves that the actions take: where they start and where they lead.
Taken == {<<"approve_first_interview", {"department_review"}, "first_interview_planning">>,
          <<"confirm_first_guide", {"first_interview_planning"}, "first_interview_in_progress">>,
          <<"continue_first_interview_manually", {"first_interview_planning"},
            "first_interview_in_progress">>,
          <<"finish_first_interview", {"first_interview_in_progress"}, "first_interview_evaluation">>,
          <<"finish_second_interview", {"second_interview_in_progress"},
            "second_interview_evaluation">>,
          <<"complete_first_interview_pass",
            {"first_interview_in_progress", "first_interview_evaluation"}, "hr_second_review">>,
          <<"complete_first_interview_reject",
            {"first_interview_in_progress", "first_interview_evaluation"}, "closed_rejected">>,
          <<"submit_first_feedback", {"first_interview_evaluation"}, "hr_second_review">>,
          <<"approve_second_interview", {"hr_second_review"}, "second_interview_in_progress">>,
          <<"complete_second_interview_pass",
            {"second_interview_in_progress", "second_interview_evaluation"}, "final_review">>,
          <<"complete_second_interview_reject",
            {"second_interview_in_progress", "second_interview_evaluation"}, "closed_rejected">>,
          <<"submit_second_feedback", {"second_interview_evaluation"}, "final_review">>,
          <<"reject", {"department_review", "hr_second_review", "final_review"}, "closed_rejected">>,
          <<"offer", {"final_review"}, "offer_process">>}

LEMMA MovesTaken ==
  ASSUME NEW t \in Taken, Move(t[1])
  PROVE  status \in t[2] /\ status' = t[3]
<1>1. PICK m \in Moves : m[1] = status /\ m[2] = t[1] /\ m[3] = status'
  BY AfterIsAMove DEF Move
<1>2. \A n \in ScreeningMoves : n[2] # t[1]
  BY SMTT(60) DEF ScreeningMoves, Taken
<1>3. \A n \in Early \X {"cancel_recruitment"} \X {"closed_cancelled"} : n[2] # t[1]
  BY SMTT(60) DEF Taken
<1>4. m \in InterviewMoves
  BY <1>1, <1>2, <1>3 DEF Moves
<1>5. \A n \in InterviewMoves : n[2] = t[1] => n[1] \in t[2] /\ n[3] = t[3]
  BY SMTT(60) DEF InterviewMoves, Taken
<1> QED
  BY <1>1, <1>4, <1>5

-----------------------------------------------------------------------------
(***************************************************************************)
(* Steps that leave the rounds alone                                       *)
(***************************************************************************)
LEMMA Bounds == MaxVersion \in Nat \ {0} /\ MaxRequests \in Nat /\ MaxInterventions \in Nat
BY InterviewsAssumption

\* In the first stage no round has been submitted.
LEMMA AtFirst ==
  ASSUME IInv, status \in FirstStage
  PROVE  /\ Untouched("first") /\ Untouched("second") /\ ~ Closed
         /\ screening.condemned = 0 /\ ~ screening.forgotten
BY DEF IInv, Stages, FirstStage, Closed, SourcesFit, Remembered, Untouched

\* A step of the planning, which leaves the status alone and writes the recovery
\* code in the planning stage only.
LEMMA PlanningKeeps ==
  ASSUME IInv, status' = status, tasks' = tasks, round' = round, screening' = screening,
         asked' \in [requests : 0 .. MaxRequests, interventions : 0 .. MaxInterventions],
         asked'.requests = asked.requests,
         planning' \in Plannings, plan' \in {"none", "draft", "confirmed"},
         recovery' \in Recoveries,
         plan' = "confirmed" => plan = "confirmed",
         \/ recovery' = recovery
         \/ status = "first_interview_planning" /\ recovery'.of \in {"none", "planning"},
         status = "first_interview_planning" /\ Stopped(planning') /\ plan' # "draft"
           => recovery'.of = "planning"
  PROVE  IInv'
<1>1. Typed'
  BY DEF IInv, Typed
<1>2. Stages'
  BY DEF IInv, Stages, Untouched
<1>3. SomebodyIsTold' /\ VersionsAreTold'
  BY DEF IInv, SomebodyIsTold, VersionsAreTold
<1>4. \A r \in Rounds : (RoundFits(r) /\ FeedbackFits(r))'
  BY DEF IInv, RoundFits, FeedbackFits, Closed
<1>5. SourcesFit'
  <2>1. CASE recovery' = recovery
    BY <2>1 DEF IInv, SourcesFit, Remembered, Closed, Renews
  <2>2. CASE status = "first_interview_planning" /\ recovery'.of \in {"none", "planning"}
    <3>1. Untouched("first") /\ screening.condemned = 0 /\ ~ screening.forgotten
      BY <2>2, AtFirst DEF FirstStage
    <3>2. screening.version \in 1 .. MaxVersion
      BY DEF IInv, Typed, Screenings
    <3> QED
      BY <2>2, <3>1, <3>2, Bounds
      DEF SourcesFit, Remembered, Untouched, Closed, Renews, Active, Stopped
  <2> QED
    BY <2>1, <2>2
<1>6. FailureIsExplained'
  <2>1. status = "first_interview_planning" => Untouched("first")
    BY AtFirst DEF FirstStage
  <2> QED
    BY <2>1 DEF IInv, FailureIsExplained, Closed, Stopped, Untouched
<1> QED
  BY <1>1, <1>2, <1>3, <1>4, <1>5, <1>6 DEF IInv

LEMMA PlanningTyped ==
  ASSUME IInv
  PROVE  /\ planning \in Plannings /\ recovery \in Recoveries /\ NoRecovery \in Recoveries
         /\ NoRecovery.of = "none" /\ ~ NoRecovery.renew
         /\ asked \in [requests : 0 .. MaxRequests, interventions : 0 .. MaxInterventions]
         /\ plan \in {"none", "draft", "confirmed"}
BY DEF IInv, Typed, NoRecovery, Recoveries

LEMMA KeepsRequestPlanning == IInv /\ RequestPlanning => IInv'
<1> SUFFICES ASSUME IInv, RequestPlanning PROVE IInv'
  OBVIOUS
<1>1. /\ planning' \in Plannings /\ ~ Stopped(planning')
      /\ recovery' = NoRecovery
  BY PlanningTyped DEF RequestPlanning, Plannings, States, Stopped
<1> QED
  BY <1>1, PlanningTyped, PlanningKeeps DEF RequestPlanning

LEMMA KeepsPlanIsDrafted == IInv /\ PlanIsDrafted => IInv'
<1> SUFFICES ASSUME IInv, PlanIsDrafted PROVE IInv'
  OBVIOUS
<1>1. planning' \in Plannings /\ ~ Stopped(planning')
  BY PlanningTyped DEF PlanIsDrafted, Plannings, States, Stopped, Active
<1> QED
  BY <1>1, PlanningTyped, PlanningKeeps DEF PlanIsDrafted

LEMMA KeepsPlanIsPublished == IInv /\ PlanIsPublished => IInv'
<1> SUFFICES ASSUME IInv, PlanIsPublished PROVE IInv'
  OBVIOUS
<1>1. planning' \in Plannings /\ ~ Stopped(planning')
  BY PlanningTyped DEF PlanIsPublished, Plannings, States, Stopped
<1> QED
  BY <1>1, PlanningTyped, PlanningKeeps DEF PlanIsPublished

LEMMA KeepsPlanStops == IInv /\ PlanStops => IInv'
<1> SUFFICES ASSUME IInv, PlanStops PROVE IInv'
  OBVIOUS
<1>1. planning' \in Plannings
  BY DEF PlanStops, Plannings, States
<1>2. CASE status # "first_interview_planning"
  BY <1>1, <1>2, PlanningTyped, PlanningKeeps DEF PlanStops
<1>3. CASE status = "first_interview_planning"
  <2>1. PICK kind \in {"publish", "retry", "assessment"} :
          recovery' = [NoRecovery EXCEPT !.of = "planning", !.kind = kind]
    BY <1>3 DEF PlanStops
  <2>2. recovery' \in Recoveries /\ recovery'.of = "planning"
    BY <2>1 DEF NoRecovery, Recoveries
  <2> QED
    BY <1>1, <1>3, <2>2, PlanningTyped, PlanningKeeps DEF PlanStops
<1> QED
  BY <1>2, <1>3

LEMMA KeepsAdminRetriesPlanning == IInv /\ AdminRetriesPlanning => IInv'
<1> SUFFICES ASSUME IInv, AdminRetriesPlanning PROVE IInv'
  OBVIOUS
<1>1. planning' \in Plannings /\ ~ Stopped(planning')
  BY PlanningTyped DEF AdminRetriesPlanning, Plannings, States, Stopped
<1>2. /\ asked' \in [requests : 0 .. MaxRequests, interventions : 0 .. MaxInterventions]
      /\ asked'.requests = asked.requests
  BY PlanningTyped, Bounds DEF AdminRetriesPlanning, NextIntervention
<1> QED
  BY <1>1, <1>2, PlanningTyped, PlanningKeeps DEF AdminRetriesPlanning

\* V1 is repaired for a later stage: nothing gets older.
LEMMA ScreeningKeeps ==
  ASSUME IInv, UNCHANGED <<status, recovery, tasks, plan, planning, round, asked>>,
         screening' \in Screenings, screening'.condemned = screening.condemned,
         screening'.forgotten = screening.forgotten,
         screening'.version >= screening.version,
         screening'.repairing => screening'.version < MaxVersion
  PROVE  IInv'
<1>0. /\ screening.version \in Nat /\ screening'.version \in Nat
      /\ round["first"].run.source \in Nat
  BY Bounds DEF IInv, Typed, Screenings, RoundRecords, RunRecords, Rounds
<1>1. Typed' /\ Stages' /\ SomebodyIsTold' /\ VersionsAreTold' /\ FailureIsExplained'
  BY <1>0
  DEF IInv, Typed, Stages, Untouched, SomebodyIsTold, VersionsAreTold, FailureIsExplained, Closed
<1>2. \A r \in Rounds : (RoundFits(r) /\ FeedbackFits(r))'
  BY DEF IInv, RoundFits, FeedbackFits, Closed
<1>3. SourcesFit'
  <2>1. /\ screening.version \in Nat /\ screening.condemned \in Nat /\ recovery.since \in Nat
        /\ screening'.version \in Nat /\ screening'.condemned \in Nat
        /\ round["first"].run.source \in Nat
    BY Bounds DEF IInv, Typed, Screenings, Recoveries, RoundRecords, RunRecords, Rounds
  <2> QED
    BY <2>1 DEF IInv, SourcesFit, Remembered, Closed, Renews
<1> QED
  BY <1>1, <1>2, <1>3 DEF IInv

LEMMA KeepsRebuildScreening == IInv /\ RebuildScreening => IInv'
<1> SUFFICES ASSUME IInv, RebuildScreening PROVE IInv'
  OBVIOUS
<1>1. screening \in Screenings /\ screening.version < MaxVersion
  BY DEF IInv, Typed, RebuildScreening
<1>2. screening' = [screening EXCEPT !.repairing = TRUE]
  BY DEF RebuildScreening
<1>3. /\ screening' \in Screenings /\ screening'.condemned = screening.condemned
      /\ screening'.version = screening.version /\ screening'.forgotten = screening.forgotten
  BY <1>1, <1>2 DEF Screenings
<1>4. screening'.version >= screening.version
  <2>1. screening.version \in Nat
    BY <1>1, Bounds DEF Screenings
  <2> QED
    BY <1>3, <2>1
<1> QED
  BY <1>1, <1>3, <1>4, ScreeningKeeps DEF RebuildScreening

LEMMA KeepsRebuildEnds == IInv /\ RebuildEnds => IInv'
<1> SUFFICES ASSUME IInv, RebuildEnds PROVE IInv'
  OBVIOUS
<1>1. screening \in Screenings /\ screening.version < MaxVersion
  BY DEF IInv, Typed, RebuildEnds
<1>2. PICK published \in 0 .. 1 :
        screening' = [screening EXCEPT !.repairing = FALSE, !.version = @ + published]
  BY DEF RebuildEnds
<1> DEFINE version == screening.version + published
<1>3. version >= screening.version /\ version \in 1 .. MaxVersion
  BY <1>1, Bounds DEF Screenings
<1>4. screening' = [screening EXCEPT !.repairing = FALSE, !.version = version]
  BY <1>1, <1>2 DEF Screenings
<1> HIDE DEF version
<1>5. /\ screening' \in Screenings /\ screening'.condemned = screening.condemned
      /\ screening'.version >= screening.version /\ ~ screening'.repairing
      /\ screening'.forgotten = screening.forgotten
  BY <1>1, <1>3, <1>4 DEF Screenings
<1> QED
  BY <1>5, ScreeningKeeps DEF RebuildEnds

-----------------------------------------------------------------------------
(***************************************************************************)
(* Steps of the interviews                                                 *)
(***************************************************************************)
\* One round is written.
LEMMA OneRound ==
  ASSUME Typed, NEW r \in Rounds, NEW q \in RoundRecords, round' = [round EXCEPT ![r] = q]
  PROVE  /\ round' \in [Rounds -> RoundRecords] /\ round'[r] = q
         /\ \A s \in Rounds \ {r} : round'[s] = round[s]
BY DEF Typed

\* A step to another stage: of the rounds only what is shown of an interview
\* without a run changes.
LEMMA StageKeeps ==
  ASSUME IInv, ~ Closed, status' \in Reached, recovery' \in Recoveries, tasks' \subseteq Tasks,
         plan' \in {"none", "draft", "confirmed"}, planning' \in Plannings,
         UNCHANGED <<screening, asked>>,
         round' \in [Rounds -> RoundRecords],
         \A r \in Rounds :
           /\ round'[r].run = round[r].run /\ round'[r].replaced = round[r].replaced
           /\ round'[r].feedback = round[r].feedback /\ round'[r].version = round[r].version
           /\ round'[r].basis = round[r].basis /\ round'[r].published = round[r].published
           /\ \/ round'[r].interview = round[r].interview
              \/ round'[r].interview \in {"created", "recording"},
         status' \in FirstStage => status \in FirstStage,
         status' \in SecondStage => status \in SecondStage,
         status' # "hr_second_review", status' # "final_review",
         plan' = "confirmed" => status' \notin {"department_review", "first_interview_planning"},
         status' = "first_interview_planning" =>
           "confirm_first_guide" \in tasks' /\ ~ Stopped(planning'),
         status' \in {"first_interview_in_progress", "first_interview_evaluation"} =>
           "first" \in tasks',
         status' \in {"second_interview_in_progress", "second_interview_evaluation"} =>
           "second" \in tasks',
         \/ recovery' = recovery
         \/ recovery' = NoRecovery /\ (Closed' \/ Untouched("first"))
  PROVE  IInv'
<1>1. Typed'
  BY DEF IInv, Typed, Rounds
<1>2. Stages'
  <2>1. \A r \in Rounds : Untouched(r) => Untouched(r)'
    BY DEF Untouched
  <2> QED
    BY <2>1 DEF IInv, Stages, Rounds
<1>3. SomebodyIsTold' /\ VersionsAreTold'
  BY DEF SomebodyIsTold, VersionsAreTold
<1>4. \A r \in Rounds : RoundFits(r)' /\ FeedbackFits(r)'
  BY DEF IInv, RoundFits, FeedbackFits
<1>5. SourcesFit'
  <2>0. /\ SourcesFit
        /\ round'["first"].run = round["first"].run
        /\ round'["second"].run = round["second"].run
    BY DEF IInv, Rounds
  <2>1. CASE recovery' = recovery
    <3>1. (Remembered' => Remembered) /\ (Renews' <=> Renews)
      BY <2>1 DEF Remembered, Renews
    <3> QED
      BY <2>0, <2>1, <3>1 DEF SourcesFit
  <2>2. CASE recovery' = NoRecovery /\ Closed'
    <3>1. ~ Remembered' /\ ~ Renews'
      BY <2>2 DEF Remembered, Renews, NoRecovery
    <3> QED
      BY <2>0, <3>1 DEF SourcesFit
  <2>3. CASE recovery' = NoRecovery /\ Untouched("first")
    <3>1. screening.version \in 1 .. MaxVersion
      BY DEF IInv, Typed, Screenings
    <3>2. ~ Renews' /\ (Remembered' => Remembered)
      BY <2>3 DEF NoRecovery, Renews, Remembered
    <3>3. Remembered => screening.condemned = 0
      BY <2>0, <2>3 DEF SourcesFit, Untouched
    <3>4. ~ Active(round["first"].run) /\ ~ Stopped(round["first"].run)
      BY <2>3 DEF Untouched, Active, Stopped
    <3> QED
      BY <2>0, <3>1, <3>2, <3>3, <3>4, Bounds DEF SourcesFit
  <2> QED
    BY <2>1, <2>2, <2>3
<1>6. FailureIsExplained'
  <2>1. round'["first"].run = round["first"].run /\ round'["second"].run = round["second"].run
    BY DEF Rounds
  <2> QED
    BY <2>1 DEF IInv, FailureIsExplained, Untouched, Stopped
<1> QED
  BY <1>1, <1>2, <1>3, <1>4, <1>5, <1>6 DEF IInv

\* The typed facts that the steps of the interviews start from.
LEMMA RoundTyped ==
  ASSUME IInv, NEW r \in Rounds
  PROVE  round[r] \in RoundRecords
BY DEF IInv, Typed

LEMMA KeepsApproveFirst == IInv /\ ApproveFirst => IInv'
<1> SUFFICES ASSUME IInv, ApproveFirst PROVE IInv'
  OBVIOUS
<1> DEFINE q == [round["first"] EXCEPT !.interview = "created"]
<1>1. status = "department_review" /\ status' = "first_interview_planning"
  BY MovesTaken DEF ApproveFirst, Taken
<1>2. Untouched("first") /\ ~ Closed
  BY <1>1, AtFirst DEF FirstStage
<1>3. round' = [round EXCEPT !["first"] = q]
  BY DEF ApproveFirst
<1>4. q \in RoundRecords
  BY RoundTyped DEF RoundRecords, Interviewings, Rounds
<1>5. /\ q.run = round["first"].run /\ q.replaced = round["first"].replaced
      /\ q.feedback = round["first"].feedback /\ q.version = round["first"].version
      /\ q.basis = round["first"].basis /\ q.published = round["first"].published
      /\ q.interview = "created"
  BY RoundTyped DEF RoundRecords, Rounds
<1> HIDE DEF q
<1>6. /\ round' \in [Rounds -> RoundRecords] /\ round'["first"] = q
      /\ \A s \in Rounds \ {"first"} : round'[s] = round[s]
  BY <1>3, <1>4, OneRound DEF IInv, Rounds
<1>7. planning' \in Plannings /\ ~ Stopped(planning')
  BY PlanningTyped DEF ApproveFirst, Plannings, States, Stopped
<1>8. tasks' \subseteq Tasks /\ "confirm_first_guide" \in tasks'
  BY DEF ApproveFirst, Tasks, IInv, Typed
<1>9. plan # "confirmed"
  BY <1>1 DEF IInv, Stages
<1>10. /\ recovery' = NoRecovery /\ plan' = plan /\ UNCHANGED <<screening, asked>>
  BY DEF ApproveFirst
<1>11. \A r \in Rounds :
         /\ round'[r].run = round[r].run /\ round'[r].replaced = round[r].replaced
         /\ round'[r].feedback = round[r].feedback /\ round'[r].version = round[r].version
         /\ round'[r].basis = round[r].basis /\ round'[r].published = round[r].published
         /\ \/ round'[r].interview = round[r].interview
            \/ round'[r].interview \in {"created", "recording"}
  BY <1>5, <1>6
<1> QED
  BY <1>1, <1>2, <1>6, <1>7, <1>8, <1>9, <1>10, <1>11, PlanningTyped, StageKeeps
  DEF Reached, FirstStage, SecondStage

LEMMA KeepsStartsFirst ==
  ASSUME IInv, StartsFirst, status = "first_interview_planning",
         status' = "first_interview_in_progress"
  PROVE  IInv'
<1> DEFINE q == [round["first"] EXCEPT !.interview = "recording"]
<1>2. Untouched("first") /\ ~ Closed
  BY AtFirst DEF FirstStage
<1>3. round' = [round EXCEPT !["first"] = q]
  BY DEF StartsFirst
<1>4. q \in RoundRecords
  BY RoundTyped DEF RoundRecords, Interviewings, Rounds
<1>5. /\ q.run = round["first"].run /\ q.replaced = round["first"].replaced
      /\ q.feedback = round["first"].feedback /\ q.version = round["first"].version
      /\ q.basis = round["first"].basis /\ q.published = round["first"].published
      /\ q.interview = "recording"
  BY RoundTyped DEF RoundRecords, Rounds
<1> HIDE DEF q
<1>6. /\ round' \in [Rounds -> RoundRecords] /\ round'["first"] = q
      /\ \A s \in Rounds \ {"first"} : round'[s] = round[s]
  BY <1>3, <1>4, OneRound DEF IInv, Rounds
<1>7. /\ plan' = "confirmed" /\ planning' = planning /\ recovery' = NoRecovery
      /\ UNCHANGED <<screening, asked>>
  BY DEF StartsFirst
<1>8. tasks' \subseteq Tasks /\ "first" \in tasks'
  BY DEF StartsFirst, Tasks, Rounds, IInv, Typed
<1>9. \A r \in Rounds :
         /\ round'[r].run = round[r].run /\ round'[r].replaced = round[r].replaced
         /\ round'[r].feedback = round[r].feedback /\ round'[r].version = round[r].version
         /\ round'[r].basis = round[r].basis /\ round'[r].published = round[r].published
         /\ \/ round'[r].interview = round[r].interview
            \/ round'[r].interview \in {"created", "recording"}
  BY <1>5, <1>6
<1> QED
  BY <1>2, <1>6, <1>7, <1>8, <1>9, PlanningTyped, StageKeeps
  DEF Reached, FirstStage, SecondStage

LEMMA KeepsConfirmPlan == IInv /\ (ConfirmPlan \/ ContinueManually) => IInv'
<1> SUFFICES ASSUME IInv, ConfirmPlan \/ ContinueManually PROVE IInv'
  OBVIOUS
<1>1. /\ status = "first_interview_planning" /\ status' = "first_interview_in_progress"
      /\ StartsFirst
  BY MovesTaken DEF ConfirmPlan, ContinueManually, Taken
<1> QED
  BY <1>1, KeepsStartsFirst

LEMMA KeepsFinish == IInv /\ Finish => IInv'
<1> SUFFICES ASSUME IInv, Finish PROVE IInv'
  OBVIOUS
<1>1. \/ status = "first_interview_in_progress" /\ status' = "first_interview_evaluation"
      \/ status = "second_interview_in_progress" /\ status' = "second_interview_evaluation"
  BY MovesTaken DEF Finish, Taken
<1>2. ~ Closed
  BY <1>1 DEF Closed
<1>3. UNCHANGED <<recovery, tasks, plan, planning, screening, round, asked>>
  BY DEF Finish
<1>4. /\ round \in [Rounds -> RoundRecords] /\ tasks \subseteq Tasks
      /\ "first" \in tasks \/ status # "first_interview_in_progress"
      /\ "second" \in tasks \/ status # "second_interview_in_progress"
  BY DEF IInv, Typed, SomebodyIsTold
<1> QED
  BY <1>1, <1>2, <1>3, <1>4, PlanningTyped, StageKeeps
  DEF Reached, FirstStage, SecondStage

LEMMA KeepsApproveSecond == IInv /\ ApproveSecond => IInv'
<1> SUFFICES ASSUME IInv, ApproveSecond PROVE IInv'
  OBVIOUS
<1> DEFINE q == [round["second"] EXCEPT !.interview = "created"]
<1>1. status = "hr_second_review" /\ status' = "second_interview_in_progress"
  BY MovesTaken DEF ApproveSecond, Taken
<1>2. ~ Closed
  BY <1>1 DEF Closed
<1>3. round' = [round EXCEPT !["second"] = q]
  BY DEF ApproveSecond
<1>4. q \in RoundRecords
  BY RoundTyped DEF RoundRecords, Interviewings, Rounds
<1>5. /\ q.run = round["second"].run /\ q.replaced = round["second"].replaced
      /\ q.feedback = round["second"].feedback /\ q.version = round["second"].version
      /\ q.basis = round["second"].basis /\ q.published = round["second"].published
      /\ q.interview = "created"
  BY RoundTyped DEF RoundRecords, Rounds
<1> HIDE DEF q
<1>6. /\ round' \in [Rounds -> RoundRecords] /\ round'["second"] = q
      /\ \A s \in Rounds \ {"second"} : round'[s] = round[s]
  BY <1>3, <1>4, OneRound DEF IInv, Rounds
<1>7. UNCHANGED <<recovery, plan, planning, screening, asked>>
  BY DEF ApproveSecond
<1>8. tasks' \subseteq Tasks /\ "second" \in tasks'
  BY DEF ApproveSecond, Tasks, Rounds, IInv, Typed
<1>9. \A r \in Rounds :
         /\ round'[r].run = round[r].run /\ round'[r].replaced = round[r].replaced
         /\ round'[r].feedback = round[r].feedback /\ round'[r].version = round[r].version
         /\ round'[r].basis = round[r].basis /\ round'[r].published = round[r].published
         /\ \/ round'[r].interview = round[r].interview
            \/ round'[r].interview \in {"created", "recording"}
  BY <1>5, <1>6
<1> QED
  BY <1>1, <1>2, <1>6, <1>7, <1>8, <1>9, PlanningTyped, StageKeeps
  DEF Reached, FirstStage, SecondStage

LEMMA KeepsDecide == IInv /\ Decide => IInv'
<1> SUFFICES ASSUME IInv, Decide PROVE IInv'
  OBVIOUS
<1>1. /\ status \in {"department_review", "hr_second_review", "final_review"}
      /\ status' \in {"closed_rejected", "offer_process"}
  BY MovesTaken DEF Decide, Taken
<1>2. ~ Closed /\ Closed'
  BY <1>1 DEF Closed
<1>3. /\ UNCHANGED <<plan, planning, screening, round, asked>>
      /\ recovery' = NoRecovery /\ tasks' = {}
  BY DEF Decide
<1>4. round \in [Rounds -> RoundRecords]
  BY DEF IInv, Typed
<1> QED
  BY <1>1, <1>2, <1>3, <1>4, PlanningTyped, StageKeeps
  DEF Reached, FirstStage, SecondStage

-----------------------------------------------------------------------------
(***************************************************************************)
(* Steps of a run                                                          *)
(***************************************************************************)
\* What the invariant says of the record of one round.
Shown(q) ==
    /\ q.interview \in {"submitted", "scoring"} /\ ~ Closed => q.run.state \in {"active", "blocked"}
    /\ q.interview = "completed" => q.run.state = "completed" /\ q.version > 0
    /\ IsFiniteSet(q.published) /\ q.version = Cardinality(q.published)

Answers(q, requests) ==
    /\ q.run.state # "none" /\ ~ q.run.admin => q.run.feedback = q.feedback
    /\ q.run.state = "completed" /\ ~ q.run.admin => q.basis = q.feedback
    /\ q.run.request <= requests /\ q.replaced.request <= requests
    /\ \A key \in q.published : key[1] <= requests
    /\ Active(q.run) /\ ~ q.run.admin => \A key \in q.published : key[1] # q.run.request

LEMMA RoundHolds ==
  ASSUME IInv, NEW r \in Rounds
  PROVE  /\ round[r] \in RoundRecords /\ Shown(round[r]) /\ Answers(round[r], asked.requests)
         /\ round[r].run \in RunRecords /\ round[r].replaced \in RunRecords
         /\ round[r].feedback <= asked.requests + 1
         /\ asked.requests \in 0 .. MaxRequests
<1>1. round[r] \in RoundRecords
  BY RoundTyped
<1>2. Shown(round[r]) /\ Answers(round[r], asked.requests)
  BY DEF IInv, RoundFits, FeedbackFits, Shown, Answers
<1>3. round[r].feedback <= asked.requests + 1 /\ asked.requests \in 0 .. MaxRequests
  BY DEF IInv, Typed
<1> QED
  BY <1>1, <1>2, <1>3 DEF RoundRecords

\* The interview of the round has been submitted once.
Begun(r) == ~ Untouched(r)

\* A step that writes one round that has begun and no status.
LEMMA RunKeeps ==
  ASSUME IInv, NEW r \in Rounds, NEW q \in RoundRecords, Begun(r),
         round' = [round EXCEPT ![r] = q], UNCHANGED <<status, plan, planning>>,
         tasks \subseteq tasks', tasks' \subseteq Tasks, recovery' \in Recoveries,
         screening' \in Screenings, screening'.repairing = screening.repairing,
         screening'.version = screening.version,
         asked' \in [requests : 0 .. MaxRequests, interventions : 0 .. MaxInterventions],
         asked'.requests >= asked.requests,
         q.feedback <= asked'.requests + 1, q.run.state # "none",
         r = "first" => q.run.source <= screening'.version,
         Shown(q), Answers(q, asked'.requests),
         r = "first" /\ status = "hr_second_review" =>
           /\ \/ "review_for_second_interview" \in tasks'
              \/ Active(q.run) \/ recovery'.of = "first"
           /\ q.published # {} => "review_for_second_interview" \in tasks',
         r = "second" /\ status = "final_review" =>
           /\ "make_final_decision" \in tasks' \/ Active(q.run) \/ Stopped(q.run)
           /\ q.published # {} => "make_final_decision" \in tasks',
         r = "first" /\ Stopped(q.run) /\ ~ Closed => recovery'.of = "first",
         SourcesFit'
  PROVE  IInv'
<1>1. /\ round' \in [Rounds -> RoundRecords] /\ round'[r] = q
      /\ \A s \in Rounds \ {r} : round'[s] = round[s]
  BY OneRound DEF IInv
<1>2. asked.requests \in Nat /\ asked'.requests \in Nat
  BY Bounds DEF IInv, Typed
<1>3. Typed'
  <2>1. \A s \in Rounds : round'[s].feedback <= asked'.requests + 1
    <3> TAKE s \in Rounds
    <3>1. round[s].feedback \in Nat /\ round[s].feedback <= asked.requests + 1
      BY Bounds DEF IInv, Typed, RoundRecords
    <3> QED
      BY <1>1, <1>2, <3>1
  <2>2. round'["first"].run.source <= screening'.version
    BY <1>1 DEF IInv, Typed, Rounds
  <2> QED
    BY <1>1, <2>1, <2>2 DEF IInv, Typed
<1>4. Closed' = Closed
  BY DEF Closed
<1>5. Stages'
  <2>1. \A s \in Rounds : Untouched(s) => Untouched(s)'
    BY <1>1 DEF Begun, Untouched
  <2> QED
    BY <2>1 DEF IInv, Stages, Rounds
<1>6. r = "second" => status \notin FirstStage \cup SecondStage
  BY DEF IInv, Stages, Begun
<1>7. r = "first" => status \notin FirstStage
  BY DEF IInv, Stages, Begun
<1>8. SomebodyIsTold' /\ VersionsAreTold'
  <2>1. CASE r = "first"
    <3>1. round'["second"] = round["second"] /\ round'["first"] = q
      BY <1>1, <2>1 DEF Rounds
    <3> QED
      BY <1>7, <2>1, <3>1 DEF IInv, SomebodyIsTold, VersionsAreTold, FirstStage
  <2>2. CASE r = "second"
    <3>1. round'["first"] = round["first"] /\ round'["second"] = q
      BY <1>1, <2>2 DEF Rounds
    <3> QED
      BY <1>6, <2>2, <3>1 DEF IInv, SomebodyIsTold, VersionsAreTold, FirstStage, SecondStage
  <2> QED
    BY <2>1, <2>2 DEF Rounds
<1>9. \A s \in Rounds : RoundFits(s)' /\ FeedbackFits(s)'
  <2> TAKE s \in Rounds
  <2>1. CASE s = r
    BY <1>1, <1>4, <2>1 DEF RoundFits, FeedbackFits, Shown, Answers
  <2>2. CASE s # r
    <3>1. round'[s] = round[s]
      BY <1>1, <2>2
    <3>2. RoundFits(s)'
      BY <1>4, <3>1 DEF IInv, RoundFits
    <3>3. FeedbackFits(s)'
      <4>1. /\ round[s].run.request \in Nat /\ round[s].replaced.request \in Nat
            /\ \A key \in round[s].published : key[1] \in Nat
        BY Bounds DEF IInv, Typed, RoundRecords, RunRecords, PublishedKeys
      <4> QED
        BY <1>2, <3>1, <4>1 DEF IInv, FeedbackFits
    <3> QED
      BY <3>2, <3>3
  <2> QED
    BY <2>1, <2>2
<1>11. FailureIsExplained'
  <2>1. status # "first_interview_planning"
    BY <1>6, <1>7 DEF FirstStage, Rounds
  <2>2. CASE r = "first"
    BY <1>1, <1>4, <2>1, <2>2 DEF FailureIsExplained
  <2>3. CASE r = "second"
    BY <1>1, <2>1, <2>3 DEF FailureIsExplained
  <2> QED
    BY <2>2, <2>3 DEF Rounds
<1> QED
  BY <1>3, <1>5, <1>8, <1>9, <1>11 DEF IInv

LEMMA Settings ==
  ASSUME IInv
  PROVE  /\ tasks \subseteq Tasks /\ recovery \in Recoveries /\ screening \in Screenings
         /\ asked \in [requests : 0 .. MaxRequests, interventions : 0 .. MaxInterventions]
         /\ asked.requests \in Nat
         /\ screening.version \in Nat /\ screening.version > 0 /\ screening.condemned \in Nat
         /\ recovery.since \in Nat /\ round["first"].run.source <= screening.version
         /\ \A r \in Rounds : ClearedFor(r) \in Recoveries /\ ClearedFor(r).of # r
BY Bounds, PlanningTyped DEF IInv, Typed, Screenings, Recoveries, ClearedFor, Rounds

\* The steps of a run have numbers.
LEMMA StepIs ==
  ASSUME IInv, NEW r \in Rounds
  PROVE  /\ StepOf(r, "freeze") <=> Active(round[r].run) /\ round[r].run.step = 1
         /\ StepOf(r, "compute") <=> Active(round[r].run) /\ round[r].run.step = 2
         /\ StepOf(r, "publish") <=> Active(round[r].run) /\ round[r].run.step = 3
<1>1. round[r].run.step \in 1 .. 3
  BY RoundHolds DEF RunRecords
<1>2. Steps[1] = "freeze" /\ Steps[2] = "compute" /\ Steps[3] = "publish"
  BY DEF Steps
<1> QED
  BY <1>1, <1>2 DEF StepOf

\* What the invariant says of the sources, for the record of the first round.
SourcesOf(q) ==
    /\ Active(q.run) \/ ~ Renews => screening.condemned < screening.version
    /\ Renews => /\ recovery.kind = "source"
                 /\ screening.condemned <= recovery.since
                 /\ recovery.since <= screening.version
    /\ q.run.source # 0 /\ (Active(q.run) \/ (Stopped(q.run) /\ ~ Renews))
         => q.run.source > screening.condemned

LEMMA SourcesNow ==
  ASSUME IInv, Remembered
  PROVE  SourcesOf(round["first"])
BY DEF IInv, SourcesFit, SourcesOf

\* The sources of the first round after a step that leaves the status alone.
LEMMA SourcesAfter ==
  ASSUME IInv, NEW q \in RoundRecords, round' = [round EXCEPT !["first"] = q],
         status' = status, q.run.state # "none",
         screening'.forgotten => screening.forgotten, screening'.forgotten => ~ Renews',
         ~ screening'.forgotten /\ ~ Closed => SourcesOf(q)'
  PROVE  SourcesFit'
<1>1. round'["first"] = q /\ round'["second"] = round["second"]
  BY OneRound DEF IInv, Rounds
<1>2. Closed' = Closed
  BY DEF Closed
<1>3. screening'.forgotten => round'["second"].run.state # "none"
  BY <1>1 DEF IInv, SourcesFit
<1> QED
  BY <1>1, <1>2, <1>3 DEF SourcesFit, Remembered, SourcesOf

\* A step of the second round, which leaves the request for a newer V1 as it is,
\* or takes it away and has it forgotten.
LEMMA SourcesApart ==
  ASSUME IInv, NEW q \in RoundRecords, round' = [round EXCEPT !["second"] = q],
         q.run.state # "none", Closed => Closed',
         screening'.version = screening.version, screening'.condemned = screening.condemned,
         screening'.forgotten = (screening.forgotten \/ (Renews /\ ~ Renews')),
         Renews' => Renews /\ recovery' = recovery
  PROVE  SourcesFit'
<1>1. round'["first"] = round["first"] /\ round'["second"] = q
  BY OneRound DEF IInv, Rounds
<1>2. screening'.forgotten => q.run.state # "none" /\ ~ Renews'
  BY DEF IInv, SourcesFit
<1>3. ASSUME Remembered' PROVE Remembered /\ (Renews' <=> Renews)
  BY <1>3 DEF Remembered
<1> QED
  BY <1>1, <1>2, <1>3 DEF IInv, SourcesFit, Remembered

\* A run that goes on from one step to the next.
LEMMA GoesOn ==
  ASSUME IInv, NEW r \in Rounds, NEW q \in RoundRecords, Active(round[r].run),
         round' = [round EXCEPT ![r] = q],
         UNCHANGED <<status, recovery, tasks, plan, planning, screening, asked>>,
         Active(q.run), q.run.admin = round[r].run.admin, q.run.feedback = round[r].run.feedback,
         q.run.request = round[r].run.request, q.replaced = round[r].replaced,
         q.feedback = round[r].feedback, q.published = round[r].published,
         q.version = round[r].version, q.interview # "completed",
         r = "first" => q.run.source \in {round[r].run.source, screening.version}
  PROVE  IInv'
<1>1. /\ Shown(round[r]) /\ Answers(round[r], asked.requests)
      /\ round[r].feedback <= asked.requests + 1
  BY RoundHolds
<1>2. Shown(q)
  BY <1>1 DEF Shown, Active
<1>3. Answers(q, asked'.requests)
  BY <1>1 DEF Answers, Active
<1>4. Begun(r)
  BY DEF Begun, Untouched, Active
<1>5. r = "first" /\ status = "hr_second_review" /\ q.published # {} =>
        "review_for_second_interview" \in tasks'
  BY DEF IInv, VersionsAreTold
<1>6. r = "second" /\ status = "final_review" /\ q.published # {} =>
        "make_final_decision" \in tasks'
  BY DEF IInv, VersionsAreTold
<1>7. SourcesFit'
  <2>0. Renews' = Renews /\ Closed' = Closed /\ q.run.state # "none"
    BY DEF Renews, Closed, Active
  <2>1. CASE r = "second"
    <3>1. screening.forgotten \in BOOLEAN
      BY Settings DEF Screenings
    <3> QED
      BY <2>0, <2>1, <3>1, SourcesApart
  <2> SUFFICES ASSUME r = "first" PROVE SourcesFit'
    BY <2>1 DEF Rounds
  <2>2. ASSUME ~ screening.forgotten, ~ Closed PROVE SourcesOf(q)'
    <3>1. SourcesOf(round["first"])
      BY <2>2, SourcesNow DEF Remembered
    <3>2. screening.version \in Nat /\ screening.condemned \in Nat
      BY Settings
    <3>4. q.run.source \in {round["first"].run.source, screening.version}
          /\ Active(round["first"].run)
      OBVIOUS
    <3> QED
      BY <2>0, <3>1, <3>2, <3>4 DEF SourcesOf
  <2>3. screening.forgotten => ~ Renews'
    BY <2>0 DEF IInv, SourcesFit
  <2> QED
    BY <2>0, <2>2, <2>3, SourcesAfter
<1>8. q.run.state # "none" /\ ~ Stopped(q.run)
  BY DEF Active, Stopped
<1>9. /\ tasks \subseteq tasks' /\ tasks' \subseteq Tasks /\ recovery' \in Recoveries
      /\ screening' \in Screenings /\ screening' = screening /\ asked' = asked
      /\ asked' \in [requests : 0 .. MaxRequests, interventions : 0 .. MaxInterventions]
      /\ asked'.requests >= asked.requests
  BY Settings
<1>10. r = "first" /\ status = "hr_second_review" =>
         "review_for_second_interview" \in tasks' \/ Active(q.run) \/ recovery'.of = "first"
  OBVIOUS
<1>11. r = "second" /\ status = "final_review" =>
         "make_final_decision" \in tasks' \/ Active(q.run) \/ Stopped(q.run)
  OBVIOUS
<1>12. q.feedback <= asked'.requests + 1
  BY <1>1, <1>9
<1>13. r = "first" => q.run.source <= screening'.version
  BY <1>9, Settings
<1> QED
  BY <1>2, <1>3, <1>4, <1>5, <1>6, <1>7, <1>8, <1>9, <1>10, <1>11, <1>12, <1>13, RunKeeps

LEMMA KeepsFreeze ==
  ASSUME IInv, NEW r \in Rounds, Freeze(r)
  PROVE  IInv'
<1>1. /\ round[r] \in RoundRecords /\ round[r].run \in RunRecords
      /\ Active(round[r].run)
  BY RoundHolds, StepIs DEF Freeze
<1>2. /\ Latest(r) \in Nat /\ (r = "first" => Latest(r) = screening.version)
  BY Settings, RoundTyped DEF Latest, Rounds, RoundRecords
<1>0. PICK latest \in Nat : latest = Latest(r)
  BY <1>2
<1> DEFINE run == [round[r].run EXCEPT !.step = 2, !.source = latest]
           q == [round[r] EXCEPT !.run = run, !.interview = "scoring"]
<1>3. round' = [round EXCEPT ![r] = q]
  BY <1>0, <1>1 DEF Freeze, RoundRecords, RunRecords
<1>4. /\ run \in RunRecords /\ run.state = round[r].run.state /\ run.source = latest
      /\ run.admin = round[r].run.admin /\ run.feedback = round[r].run.feedback
      /\ run.request = round[r].run.request
  <2>1. run \in RunRecords
    <3>1. 2 \in 1 .. 3
      OBVIOUS
    <3> QED
      BY <1>1, <3>1 DEF RunRecords
  <2>2. run.source = latest
    BY <1>1 DEF RunRecords
  <2>3. run.state = round[r].run.state /\ run.admin = round[r].run.admin
    BY <1>1 DEF RunRecords
  <2>4. run.feedback = round[r].run.feedback /\ run.request = round[r].run.request
    BY <1>1 DEF RunRecords
  <2> QED
    BY <2>1, <2>2, <2>3, <2>4
<1> HIDE DEF run
<1>5. /\ q \in RoundRecords /\ q.run = run /\ q.replaced = round[r].replaced
      /\ q.feedback = round[r].feedback /\ q.published = round[r].published
      /\ q.version = round[r].version /\ q.interview = "scoring"
  BY <1>1, <1>4 DEF RoundRecords, Interviewings
<1> HIDE DEF q
<1>6. UNCHANGED <<status, recovery, tasks, plan, planning, screening, asked>>
  BY DEF Freeze
<1>7. /\ Active(q.run) /\ q.run.admin = round[r].run.admin
      /\ q.run.feedback = round[r].run.feedback /\ q.run.request = round[r].run.request
  BY <1>1, <1>4, <1>5 DEF Active
<1>8. r = "first" => q.run.source \in {round[r].run.source, screening.version}
  BY <1>0, <1>2, <1>4, <1>5
<1>9. q.interview # "completed"
  BY <1>5
<1> QED
  BY <1>1, <1>3, <1>5, <1>6, <1>7, <1>8, <1>9, GoesOn

LEMMA KeepsCompute ==
  ASSUME IInv, NEW r \in Rounds, Compute(r)
  PROVE  IInv'
<1> DEFINE run == [round[r].run EXCEPT !.step = 3]
           q == [round[r] EXCEPT !.run = run]
<1>1. /\ round[r] \in RoundRecords /\ round[r].run \in RunRecords
      /\ Active(round[r].run) /\ Shown(round[r])
  BY RoundHolds, StepIs DEF Compute
<1>2. round' = [round EXCEPT ![r] = q]
  BY <1>1 DEF Compute
<1>3. /\ run \in RunRecords /\ run.state = round[r].run.state
      /\ run.source = round[r].run.source
      /\ run.admin = round[r].run.admin /\ run.feedback = round[r].run.feedback
      /\ run.request = round[r].run.request
  BY <1>1 DEF RunRecords
<1> HIDE DEF run
<1>4. /\ q \in RoundRecords /\ q.run = run /\ q.replaced = round[r].replaced
      /\ q.feedback = round[r].feedback /\ q.published = round[r].published
      /\ q.version = round[r].version /\ q.interview = round[r].interview
  BY <1>1, <1>3 DEF RoundRecords
<1> HIDE DEF q
<1>5. UNCHANGED <<status, recovery, tasks, plan, planning, screening, asked>>
  BY DEF Compute
<1>6. round[r].interview # "completed"
  BY <1>1 DEF Shown, Active
<1> QED
  BY <1>1, <1>2, <1>3, <1>4, <1>5, <1>6, GoesOn DEF Active

\* A run that ends with a version, a new one or the one that its request has.
LEMMA Completes ==
  ASSUME IInv, NEW r \in Rounds, NEW q \in RoundRecords, Active(round[r].run),
         round' = [round EXCEPT ![r] = q],
         UNCHANGED <<status, plan, planning, screening, asked>>,
         recovery' = ClearedFor(r),
         q.run.state = "completed", q.run.source = 0, q.run.admin = round[r].run.admin,
         q.run.feedback = round[r].run.feedback, q.run.request = round[r].run.request,
         q.replaced = round[r].replaced, q.feedback = round[r].feedback,
         q.interview = "completed",
         q.published # {}, IsFiniteSet(q.published), q.version = Cardinality(q.published),
         ~ q.run.admin => q.basis = q.run.feedback,
         \A key \in q.published : key[1] <= asked.requests,
         \/ tasks' = tasks \cup NextTask(r)
         \/ tasks' = tasks /\ round[r].published # {}
  PROVE  IInv'
<1>1. /\ Shown(round[r]) /\ Answers(round[r], asked.requests)
      /\ round[r].feedback <= asked.requests + 1
  BY RoundHolds
<1>2. q.version > 0
  <2>1. q.version \in Nat
    BY FS_CardinalityType
  <2>2. q.version # 0
    BY FS_EmptySet
  <2> QED
    BY <2>1, <2>2
<1>3. Shown(q)
  BY <1>2 DEF Shown
<1>4. Answers(q, asked'.requests)
  BY <1>1 DEF Answers, Active
<1>5. Begun(r)
  BY DEF Begun, Untouched, Active
<1>6. r = "first" /\ status = "hr_second_review" => "review_for_second_interview" \in tasks'
  BY DEF IInv, VersionsAreTold, NextTask
<1>7. r = "second" /\ status = "final_review" => "make_final_decision" \in tasks'
  BY DEF IInv, VersionsAreTold, NextTask
<1>8. q.run.state # "none" /\ ~ Stopped(q.run)
  BY DEF Active, Stopped
<1>9. SourcesFit'
  <2>0. Closed' = Closed /\ screening.forgotten \in BOOLEAN
    BY Settings DEF Closed, Screenings
  <2>2. CASE r = "second"
    <3>1. (Renews' <=> Renews) /\ (Renews' => recovery' = recovery)
      BY <2>2 DEF Renews, ClearedFor, NoRecovery
    <3> QED
      BY <1>8, <2>0, <2>2, <3>1, SourcesApart
  <2> SUFFICES ASSUME r = "first" PROVE SourcesFit'
    BY <2>2 DEF Rounds
  <2>3. ~ Renews'
    BY Settings DEF Renews
  <2>1. ASSUME ~ screening.forgotten, ~ Closed PROVE SourcesOf(q)'
    <3>1. SourcesOf(round["first"])
      BY <2>1, SourcesNow DEF Remembered
    <3>2. screening.version \in Nat /\ screening.condemned \in Nat /\ screening.version > 0
      BY Settings
    <3> QED
      BY <2>3, <3>1, <3>2 DEF SourcesOf
  <2> QED
    BY <1>8, <2>1, <2>3, SourcesAfter
<1>10. /\ tasks \subseteq tasks' /\ tasks' \subseteq Tasks /\ recovery' \in Recoveries
       /\ screening' \in Screenings /\ screening' = screening /\ asked' = asked
       /\ asked' \in [requests : 0 .. MaxRequests, interventions : 0 .. MaxInterventions]
       /\ asked'.requests >= asked.requests
  BY Settings DEF NextTask, Tasks
<1>11. q.feedback <= asked'.requests + 1 /\ q.run.source <= screening'.version
  BY <1>1, <1>10, Settings
<1> QED
  BY <1>3, <1>4, <1>5, <1>6, <1>7, <1>8, <1>9, <1>10, <1>11, RunKeeps

LEMMA KeepsPublish ==
  ASSUME IInv, NEW r \in Rounds, Publish(r)
  PROVE  IInv'
<1>1. /\ round[r] \in RoundRecords /\ round[r].run \in RunRecords
      /\ Active(round[r].run) /\ Shown(round[r]) /\ Answers(round[r], asked.requests)
      /\ round[r].published \subseteq PublishedKeys
  BY RoundHolds, StepIs DEF Publish, RoundRecords
<1> DEFINE run == [round[r].run EXCEPT !.state = "completed", !.step = 1, !.source = 0]
           key == <<round[r].run.request, round[r].run.source, round[r].run.feedback>>
           done == [round[r] EXCEPT !.run = run, !.interview = "completed"]
           new == [done EXCEPT !.version = @ + 1, !.basis = round[r].run.feedback,
                               !.published = @ \cup {key}]
<1>2. /\ UNCHANGED <<status, plan, planning, screening, asked>>
      /\ recovery' = ClearedFor(r)
  BY DEF Publish
<1>3. \/ key \in round[r].published /\ round' = [round EXCEPT ![r] = done] /\ tasks' = tasks
      \/ /\ key \notin round[r].published /\ round' = [round EXCEPT ![r] = new]
         /\ tasks' = tasks \cup NextTask(r)
  BY DEF Publish
<1>4. /\ key \in PublishedKeys /\ key[1] = round[r].run.request
  BY <1>1 DEF PublishedKeys, RunRecords
<1> HIDE DEF key
<1>5. /\ run \in RunRecords /\ run.state = "completed" /\ run.source = 0
      /\ run.admin = round[r].run.admin /\ run.feedback = round[r].run.feedback
      /\ run.request = round[r].run.request
  <2>1. "completed" \in States /\ 1 \in 1 .. 3 /\ 0 \in Nat
    BY DEF States
  <2>2. run \in RunRecords
    BY <1>1, <2>1 DEF RunRecords
  <2> QED
    BY <1>1, <2>2 DEF RunRecords
<1> HIDE DEF run
<1>6. /\ done \in RoundRecords /\ done.run = run /\ done.replaced = round[r].replaced
      /\ done.feedback = round[r].feedback /\ done.published = round[r].published
      /\ done.version = round[r].version /\ done.interview = "completed"
  BY <1>1, <1>5 DEF RoundRecords, Interviewings
<1> HIDE DEF done
<1>7. CASE key \in round[r].published
  <2>1. round' = [round EXCEPT ![r] = done] /\ tasks' = tasks
    BY <1>3, <1>7
  <2>2. run.admin
    BY <1>1, <1>4, <1>5, <1>7 DEF Answers
  <2>3. /\ done.published # {} /\ IsFiniteSet(done.published)
        /\ done.version = Cardinality(done.published)
        /\ \A k \in done.published : k[1] <= asked.requests
    BY <1>1, <1>6, <1>7 DEF Shown, Answers
  <2> QED
    BY <1>1, <1>2, <1>5, <1>6, <1>7, <2>1, <2>2, <2>3, Completes
<1>8. CASE key \notin round[r].published
  <2>1. round' = [round EXCEPT ![r] = new] /\ tasks' = tasks \cup NextTask(r)
    BY <1>3, <1>8
  <2>2. /\ new \in RoundRecords /\ new.run = run /\ new.replaced = round[r].replaced
        /\ new.feedback = round[r].feedback /\ new.published = round[r].published \cup {key}
        /\ new.version = round[r].version + 1 /\ new.basis = round[r].run.feedback
        /\ new.interview = "completed"
    <3>1. round[r].run.feedback \in Nat /\ done.version + 1 \in Nat
      BY <1>1, <1>6, Bounds DEF RoundRecords, RunRecords
    <3>2. done.published \cup {key} \subseteq PublishedKeys
      BY <1>1, <1>4, <1>6
    <3> QED
      BY <1>6, <3>1, <3>2 DEF RoundRecords
  <2> HIDE DEF new
  <2>3. /\ IsFiniteSet(new.published) /\ new.version = Cardinality(new.published)
    <3> DEFINE before == round[r].published
    <3>1. IsFiniteSet(before) /\ round[r].version = Cardinality(before) /\ key \notin before
      BY <1>1, <1>8 DEF Shown
    <3> HIDE DEF before
    <3>2. /\ IsFiniteSet(before \cup {key})
          /\ Cardinality(before \cup {key}) = Cardinality(before) + 1
      BY <3>1, FS_AddElement
    <3> QED
      BY <2>2, <3>1, <3>2 DEF before
  <2>4. \A k \in new.published : k[1] <= asked.requests
    BY <1>1, <1>4, <2>2 DEF Answers
  <2>5. new.published # {}
    BY <2>2
  <2> QED
    BY <1>1, <1>2, <1>5, <2>1, <2>2, <2>3, <2>4, <2>5, Completes
<1> QED
  BY <1>7, <1>8

\* The codes that the steps of a run give: only a source is made anew.
LEMMA CodesFit ==
  ASSUME NEW step,
         NEW c \in FailureCodes(step) \cup BlockedCodes(step)
  PROVE  c[1] \in {"retry", "source"} /\ c[2] \in BOOLEAN /\ (c[2] => c[1] = "source")
<1>1. c \in {<<"retry", FALSE>>, <<"source", FALSE>>, <<"source", TRUE>>}
  <2>1. CASE c \in FailureCodes(step)
    BY <2>1 DEF FailureCodes
  <2>2. CASE c \in BlockedCodes(step)
    <3>1. c = <<"retry", FALSE>> \/ \E b \in BOOLEAN : c = <<"source", b>>
      BY <2>2 DEF BlockedCodes
    <3> QED
      BY <3>1
  <2> QED
    BY <2>1, <2>2
<1>2. CASE c = <<"retry", FALSE>>
  BY <1>2
<1>3. CASE c = <<"source", FALSE>>
  BY <1>3
<1>4. CASE c = <<"source", TRUE>>
  BY <1>4
<1> QED
  BY <1>1, <1>2, <1>3, <1>4

\* A run that stops when the application is closed.
LEMMA StoppedWhenClosed ==
  ASSUME IInv, NEW r \in Rounds, NEW q \in RoundRecords, round' = [round EXCEPT ![r] = q],
         q.run.state # "none", Closed', UNCHANGED <<recovery, screening>>
  PROVE  SourcesFit'
<1>1. screening.forgotten => round'["second"].run.state # "none"
  BY OneRound DEF IInv, SourcesFit, Rounds
<1>2. ~ Remembered' /\ Renews' = Renews
  BY DEF Remembered, Renews
<1> QED
  BY <1>1, <1>2 DEF IInv, SourcesFit

\* A run that stops.  If it has found V1 unusable, that V1 is not newer than the
\* one that the recovery code says has to be made anew.
LEMMA KeepsStops ==
  ASSUME IInv, NEW r \in Rounds, NEW state \in {"failed", "blocked"}, NEW codes, NEW step,
         codes \subseteq FailureCodes(step) \cup BlockedCodes(step),
         Active(round[r].run), StopsWith(r, state, codes)
  PROVE  IInv'
<1>1. /\ round[r] \in RoundRecords /\ round[r].run \in RunRecords
      /\ Shown(round[r]) /\ Answers(round[r], asked.requests)
      /\ round[r].feedback <= asked.requests + 1
  BY RoundHolds
<1> DEFINE run == [round[r].run EXCEPT !.state = state]
           interview == IF Closed THEN round[r].interview ELSE Projection(state)
           next == [round[r] EXCEPT !.run = run, !.interview = interview]
           read == IF round[r].run.source = 0 THEN Latest(r) ELSE round[r].run.source
<1>2. /\ UNCHANGED <<status, tasks, plan, planning, asked>>
      /\ Closed => UNCHANGED <<recovery, screening>>
  BY DEF StopsWith
<1>3. round' = [round EXCEPT ![r] = next]
  <2>1. CASE Closed
    <3>1. round' = [round EXCEPT ![r].run.state = state]
      BY <2>1 DEF StopsWith
    <3>2. [round[r] EXCEPT !.run = run, !.interview = round[r].interview]
            = [round[r] EXCEPT !.run = run]
      BY <1>1 DEF RoundRecords
    <3> QED
      BY <2>1, <3>1, <3>2
  <2>2. CASE ~ Closed
    <3>1. round' = [round EXCEPT ![r].run.state = state, ![r].interview = Projection(state)]
      BY <2>2 DEF StopsWith
    <3>2. round \in [Rounds -> RoundRecords] /\ r \in DOMAIN round
      BY DEF IInv, Typed
    <3> DEFINE middle == [round EXCEPT ![r] = [round[r] EXCEPT !.run = run]]
    <3>3. round' = [middle EXCEPT ![r] = [middle[r] EXCEPT !.interview = Projection(state)]]
      BY <3>1
    <3>4. middle[r] = [round[r] EXCEPT !.run = run]
      BY <3>2
    <3>5. round' = [middle EXCEPT ![r] = next]
      BY <2>2, <3>3, <3>4
    <3> HIDE DEF next
    <3>6. [middle EXCEPT ![r] = next] = [round EXCEPT ![r] = next]
      BY <3>2
    <3> QED
      BY <3>5, <3>6
  <2> QED
    BY <2>1, <2>2
<1>4. run \in RunRecords /\ run.state = state /\ run.source = round[r].run.source
      /\ run.admin = round[r].run.admin /\ run.feedback = round[r].run.feedback
      /\ run.request = round[r].run.request
  <2>1. state \in States
    BY DEF States
  <2>2. run \in RunRecords
    BY <1>1, <2>1 DEF RunRecords
  <2> QED
    BY <1>1, <2>2 DEF RunRecords
<1>5. interview \in Interviewings /\ (~ Closed => interview = Projection(state))
  BY <1>1 DEF Projection, Interviewings, RoundRecords
<1> HIDE DEF run, interview
<1>0. /\ next \in RoundRecords /\ next.run = run /\ next.replaced = round[r].replaced
      /\ next.feedback = round[r].feedback /\ next.published = round[r].published
      /\ next.version = round[r].version /\ next.basis = round[r].basis
      /\ next.interview = interview
  BY <1>1, <1>4, <1>5 DEF RoundRecords
<1> HIDE DEF next
<1>6. PICK q \in RoundRecords :
        /\ round' = [round EXCEPT ![r] = q]
        /\ q.run = run /\ q.replaced = round[r].replaced
        /\ q.feedback = round[r].feedback /\ q.published = round[r].published
        /\ q.version = round[r].version /\ q.basis = round[r].basis /\ q.interview = interview
  BY <1>0, <1>3
<1>7. Shown(q)
  <2>1. ~ Closed /\ state = "failed" => interview = "failed"
    BY <1>5 DEF Projection
  <2>2. ~ Closed => interview \in {"failed", "submitted"}
    BY <1>5 DEF Projection
  <2>3. round[r].interview # "completed"
    BY <1>1 DEF Shown, Active
  <2>4. interview # "completed"
    <3>1. Closed => interview = round[r].interview
      BY DEF interview
    <3> QED
      BY <2>2, <2>3, <3>1
  <2> QED
    BY <1>1, <1>4, <1>6, <2>1, <2>2, <2>4 DEF Shown
<1>8. Answers(q, asked'.requests)
  BY <1>1, <1>2, <1>4, <1>6 DEF Answers, Active
<1>9. Begun(r)
  BY DEF Begun, Untouched, Active
<1>10. ~ Closed =>
         \E c \in FailureCodes(step) \cup BlockedCodes(step) :
           /\ screening' = [screening EXCEPT
                !.condemned = IF r = "first" /\ c[2] THEN read ELSE @,
                !.forgotten = IF r = "first" THEN @ /\ ~ c[2] ELSE @ \/ Renews]
           /\ recovery' = [of |-> r, kind |-> c[1], renew |-> c[2],
                           since |-> IF c[2] THEN Latest(r) ELSE 0]
  BY DEF StopsWith
<1>11. /\ Latest(r) \in Nat
       /\ r = "first" => Latest(r) = screening.version /\ read \in Nat /\ read <= screening.version
  <2>1. Latest(r) \in Nat /\ (r = "first" => Latest(r) = screening.version)
    BY Settings, RoundTyped DEF Latest, Rounds, RoundRecords
  <2>2. round[r].run.source \in Nat
    BY <1>1 DEF RunRecords
  <2> QED
    BY <2>1, <2>2, Settings
<1> HIDE DEF read
<1>12. /\ screening' \in Screenings /\ screening'.repairing = screening.repairing
       /\ screening'.version = screening.version /\ recovery' \in Recoveries
  <2>1. CASE Closed
    BY <1>2, <2>1, Settings
  <2>2. CASE ~ Closed
    <3>1. PICK c \in FailureCodes(step) \cup BlockedCodes(step) :
            /\ screening' = [screening EXCEPT
                 !.condemned = IF r = "first" /\ c[2] THEN read ELSE @,
                 !.forgotten = IF r = "first" THEN @ /\ ~ c[2] ELSE @ \/ Renews]
            /\ recovery' = [of |-> r, kind |-> c[1], renew |-> c[2],
                            since |-> IF c[2] THEN Latest(r) ELSE 0]
      BY <1>10, <2>2
    <3> DEFINE condemned == IF r = "first" /\ c[2] THEN read ELSE screening.condemned
             forgotten == IF r = "first" THEN screening.forgotten /\ ~ c[2]
                          ELSE screening.forgotten \/ Renews
    <3>2. condemned \in 0 .. MaxVersion /\ forgotten \in BOOLEAN
      <4>1. screening.version \in 1 .. MaxVersion /\ screening.condemned \in 0 .. MaxVersion
        BY Settings DEF Screenings
      <4>2. condemned \in 0 .. MaxVersion
        BY <1>11, <4>1, Bounds
      <4>3. screening.forgotten \in BOOLEAN
        BY Settings DEF Screenings
      <4>4. forgotten \in BOOLEAN
        BY <4>3 DEF Renews
      <4> QED
        BY <4>2, <4>4
    <3>3. screening' = [screening EXCEPT !.condemned = condemned, !.forgotten = forgotten]
      BY <3>1
    <3> HIDE DEF condemned, forgotten
    <3>4. /\ screening' \in Screenings /\ screening'.repairing = screening.repairing
          /\ screening'.version = screening.version
      BY <3>2, <3>3, Settings DEF Screenings
    <3>5. recovery' \in Recoveries
      BY <1>11, <3>1, CodesFit DEF Recoveries
    <3> QED
      BY <3>4, <3>5
  <2> QED
    BY <2>1, <2>2
<1>13. ASSUME ~ Closed PROVE recovery'.of = r
  <2>1. \E kind, renew, since :
          recovery' = [of |-> r, kind |-> kind, renew |-> renew, since |-> since]
    BY <1>10, <1>13
  <2> QED
    BY <2>1
<1>14. SourcesFit'
  <2>0. Closed' = Closed /\ q.run.state # "none"
    BY <1>2, <1>4, <1>6 DEF Closed
  <2>1. CASE Closed
    BY <1>2, <1>4, <1>6, <2>0, <2>1, StoppedWhenClosed
  <2> SUFFICES ASSUME ~ Closed PROVE SourcesFit'
    BY <2>1
  <2>2. PICK c \in FailureCodes(step) \cup BlockedCodes(step) :
          /\ screening' = [screening EXCEPT
               !.condemned = IF r = "first" /\ c[2] THEN read ELSE @,
               !.forgotten = IF r = "first" THEN @ /\ ~ c[2] ELSE @ \/ Renews]
          /\ recovery' = [of |-> r, kind |-> c[1], renew |-> c[2],
                          since |-> IF c[2] THEN Latest(r) ELSE 0]
    BY <1>10
  <2>3. c[2] \in BOOLEAN /\ (c[2] => c[1] = "source")
    BY CodesFit
  <2>4. /\ screening'.condemned = IF r = "first" /\ c[2] THEN read ELSE screening.condemned
        /\ screening'.forgotten = IF r = "first" THEN screening.forgotten /\ ~ c[2]
                                  ELSE screening.forgotten \/ Renews
    BY <2>2, Settings DEF Screenings
  <2>5. /\ recovery'.of = r /\ recovery'.kind = c[1] /\ recovery'.renew = c[2]
        /\ recovery'.since = IF c[2] THEN Latest(r) ELSE 0
    BY <2>2
  <2>6. CASE r = "second"
    <3>1. ~ Renews'
      BY <2>5, <2>6 DEF Renews
    <3>2. screening'.condemned = screening.condemned
      BY <2>4, <2>6
    <3>3. screening'.forgotten = (screening.forgotten \/ (Renews /\ ~ Renews'))
      BY <2>4, <2>6, <3>1, Settings DEF Screenings
    <3> QED
      BY <1>6, <1>12, <2>0, <2>6, <3>1, <3>2, <3>3, SourcesApart
  <2>7. CASE r = "first"
    <3>0. ~ Active(q.run) /\ q.run.source = round["first"].run.source
      BY <1>4, <1>6, <2>7 DEF Active
    <3>1. Renews' <=> c[2]
      BY <2>5, <2>7 DEF Renews
    <3>2. ASSUME ~ screening'.forgotten PROVE SourcesOf(q)'
      <4>1. CASE c[2]
        BY <1>11, <1>12, <2>3, <2>4, <2>5, <2>7, <3>0, <3>1, <4>1 DEF SourcesOf
      <4>2. CASE ~ c[2]
        <5>1. SourcesOf(round["first"])
          BY <2>4, <2>7, <3>2, <4>2, SourcesNow DEF Remembered
        <5> QED
          BY <1>12, <2>4, <2>7, <3>0, <3>1, <4>2, <5>1 DEF SourcesOf
      <4> QED
        BY <2>3, <4>1, <4>2
    <3> QED
      BY <1>2, <1>6, <2>0, <2>3, <2>4, <2>7, <3>1, <3>2, SourcesAfter
  <2> QED
    BY <2>6, <2>7 DEF Rounds
<1>15. /\ tasks \subseteq tasks' /\ tasks' \subseteq Tasks
       /\ asked' \in [requests : 0 .. MaxRequests, interventions : 0 .. MaxInterventions]
       /\ asked'.requests >= asked.requests
  BY <1>2, Settings
<1>16. r = "first" /\ status = "hr_second_review" =>
         /\ "review_for_second_interview" \in tasks' \/ Active(q.run) \/ recovery'.of = "first"
         /\ q.published # {} => "review_for_second_interview" \in tasks'
  <2>1. status = "hr_second_review" => ~ Closed
    BY DEF Closed
  <2> QED
    BY <1>2, <1>6, <1>13, <2>1 DEF IInv, VersionsAreTold
<1>17. r = "second" /\ status = "final_review" =>
         /\ "make_final_decision" \in tasks' \/ Active(q.run) \/ Stopped(q.run)
         /\ q.published # {} => "make_final_decision" \in tasks'
  BY <1>2, <1>4, <1>6 DEF IInv, VersionsAreTold, Stopped
<1>18. q.feedback <= asked'.requests + 1 /\ q.run.state # "none"
  BY <1>1, <1>2, <1>4, <1>6
<1>19. r = "first" => q.run.source <= screening'.version
  BY <1>4, <1>6, <1>12, Settings
<1>20. r = "first" /\ Stopped(q.run) /\ ~ Closed => recovery'.of = "first"
  BY <1>13
<1> QED
  BY <1>2, <1>6, <1>7, <1>8, <1>9, <1>12, <1>14, <1>15, <1>16, <1>17, <1>18, <1>19,
     <1>20, RunKeeps

-----------------------------------------------------------------------------
(***************************************************************************)
(* Runs that are started again                                             *)
(***************************************************************************)
\* A run that is started again, by people or by an administrator.
LEMMA StartsAgain ==
  ASSUME IInv, NEW r \in Rounds, NEW q \in RoundRecords, Begun(r),
         round' = [round EXCEPT ![r] = q], UNCHANGED <<status, tasks, plan, planning>>,
         recovery' \in {recovery, ClearedFor(r)},
         screening' \in Screenings, screening'.repairing = screening.repairing,
         screening'.version = screening.version,
         asked' \in [requests : 0 .. MaxRequests, interventions : 0 .. MaxInterventions],
         asked'.requests >= asked.requests,
         q.feedback <= asked'.requests + 1,
         Active(q.run), q.run.source \in {0, round[r].run.source},
         q.interview # "completed", q.published = round[r].published,
         q.version = round[r].version,
         Answers(q, asked'.requests),
         r = "first" => /\ screening'.forgotten => screening.forgotten
                        /\ ~ screening'.forgotten /\ ~ Closed => SourcesOf(q)',
         r = "second" => screening' = screening
  PROVE  IInv'
<1>1. Shown(round[r])
  BY RoundHolds
<1>2. Shown(q)
  BY <1>1 DEF Shown, Active
<1>4. r = "first" /\ status = "hr_second_review" =>
        /\ "review_for_second_interview" \in tasks' \/ Active(q.run) \/ recovery'.of = "first"
        /\ q.published # {} => "review_for_second_interview" \in tasks'
  BY DEF IInv, VersionsAreTold
<1>5. r = "second" /\ status = "final_review" =>
        /\ "make_final_decision" \in tasks' \/ Active(q.run) \/ Stopped(q.run)
        /\ q.published # {} => "make_final_decision" \in tasks'
  BY DEF IInv, VersionsAreTold
<1>6. q.run.state # "none" /\ ~ Stopped(q.run)
  BY DEF Active, Stopped
<1>7. SourcesFit'
  <2>0. Closed' = Closed /\ screening.forgotten \in BOOLEAN
    BY Settings DEF Closed, Screenings
  <2>1. Renews' => Renews /\ recovery' = recovery
    BY DEF Renews, ClearedFor, NoRecovery
  <2>2. CASE r = "second"
    <3>1. Renews => Renews'
      BY <2>2 DEF Renews, ClearedFor
    <3> QED
      BY <1>6, <2>0, <2>1, <2>2, <3>1, SourcesApart
  <2>3. CASE r = "first"
    <3>1. screening'.forgotten => ~ Renews'
      BY <2>1, <2>3 DEF IInv, SourcesFit
    <3> QED
      BY <1>6, <2>3, <3>1, SourcesAfter
  <2> QED
    BY <2>2, <2>3 DEF Rounds
<1>8. /\ tasks \subseteq tasks' /\ tasks' \subseteq Tasks /\ recovery' \in Recoveries
  BY Settings
<1>9. r = "first" => q.run.source <= screening'.version
  BY Settings
<1>10. r = "first" /\ Stopped(q.run) /\ ~ Closed => recovery'.of = "first"
  BY <1>6
<1> QED
  BY <1>2, <1>4, <1>5, <1>6, <1>7, <1>8, <1>9, <1>10, RunKeeps

\* A run that starts again forgets what it has read, unless it goes on.
LEMMA RestartedIs ==
  ASSUME NEW run \in RunRecords, NEW step \in 1 .. 3
  PROVE  LET again == Restarted(run, step)
         IN /\ again \in RunRecords /\ again.state = run.state /\ again.admin = run.admin
            /\ again.request = run.request /\ again.feedback = run.feedback
            /\ again.source = IF step = 1 THEN 0 ELSE run.source
<1> DEFINE source == IF step = 1 THEN 0 ELSE run.source
           again == [run EXCEPT !.step = step, !.source = source]
<1>1. source \in Nat
  BY DEF RunRecords
<1>2. Restarted(run, step) = again
  BY DEF Restarted
<1> HIDE DEF source
<1>3. again \in RunRecords
  BY <1>1 DEF RunRecords
<1>4. /\ again.state = run.state /\ again.admin = run.admin
      /\ again.request = run.request /\ again.feedback = run.feedback
      /\ again.source = source
  BY DEF RunRecords
<1> QED
  BY <1>2, <1>3, <1>4 DEF source

\* The run that is kept when another takes its place has answered its request.
LEMMA ReplacedFits ==
  ASSUME IInv, NEW r \in Rounds
  PROVE  Replaced(r) \in RunRecords /\ Replaced(r).request <= asked.requests
<1>1. /\ round[r].run \in RunRecords /\ round[r].replaced \in RunRecords
      /\ round[r].run.request <= asked.requests /\ round[r].replaced.request <= asked.requests
  BY RoundHolds DEF Answers
<1>2. /\ Restarted(round[r].run, 1) \in RunRecords
      /\ Restarted(round[r].run, 1).request = round[r].run.request
  BY <1>1, RestartedIs
<1> QED
  BY <1>1, <1>2 DEF Replaced

\* What a run that starts again reads is behind nobody's judgement.
LEMMA SourcesStartAgain ==
  ASSUME IInv, NEW q \in RoundRecords, Remembered,
         screening' = screening, recovery' = ClearedFor("first"),
         SourceRepairReady("first"),
         \/ q.run.source = 0
         \/ /\ q.run.source = round["first"].run.source
            /\ Stopped(round["first"].run) /\ ~ SourceRecovery("first")
  PROVE  SourcesOf(q)'
<1>1. SourcesOf(round["first"])
  BY SourcesNow
<1>2. /\ screening.version \in Nat /\ screening.condemned \in Nat /\ screening.version > 0
      /\ recovery.since \in Nat
  BY Settings
<1>3. ~ Renews'
  BY Settings DEF Renews, Rounds
<1>4. screening.condemned < screening.version
  <2>1. CASE Renews
    <3>1. SourceRecovery("first") /\ recovery.renew
      BY <1>1, <2>1 DEF SourcesOf, Renews, SourceRecovery
    <3>2. screening.version # recovery.since
      BY <3>1 DEF SourceRepairReady, Latest
    <3> QED
      BY <1>1, <1>2, <2>1, <3>2 DEF SourcesOf
  <2>2. CASE ~ Renews
    BY <1>1, <2>2 DEF SourcesOf
  <2> QED
    BY <2>1, <2>2
<1>5. q.run.source # 0 => q.run.source > screening.condemned
  BY <1>1 DEF SourcesOf, Renews, SourceRecovery
<1> QED
  BY <1>3, <1>4, <1>5 DEF SourcesOf

\* A run that people ask for, with the feedback as it is or with other feedback.
LEMMA AskedAgain ==
  ASSUME IInv, NEW r \in Rounds, NEW run \in RunRecords, NEW feedback \in Nat,
         round[r].run.state # "none", NextRequest, SourceRepairReady(r),
         UNCHANGED <<status, tasks, plan, planning, screening>>, recovery' = ClearedFor(r),
         round' = [round EXCEPT ![r] =
                     [round[r] EXCEPT !.replaced = Replaced(r), !.interview = "submitted",
                                      !.feedback = feedback, !.run = run]],
         feedback \in {round[r].feedback, round[r].feedback + 1},
         Active(run), run.request = asked.requests + 1,
         ~ run.admin => run.feedback = feedback,
         \/ run.source = 0
         \/ run.source = round[r].run.source /\ Stopped(round[r].run) /\ ~ SourceRecovery(r)
  PROVE  IInv'
<1>1. /\ round[r] \in RoundRecords /\ Answers(round[r], asked.requests)
      /\ round[r].feedback <= asked.requests + 1
  BY RoundHolds
<1>2. /\ asked.requests \in Nat /\ asked.requests < MaxRequests
      /\ asked' = [asked EXCEPT !.requests = asked.requests + 1]
  BY Settings DEF NextRequest
<1>3. /\ asked' \in [requests : 0 .. MaxRequests, interventions : 0 .. MaxInterventions]
      /\ asked'.requests = asked.requests + 1
  BY <1>2, Bounds, Settings
<1>4. /\ round[r].feedback \in Nat /\ feedback <= asked'.requests + 1
      /\ feedback \in 0 .. MaxRequests + 1
  BY <1>1, <1>2, <1>3, Bounds DEF RoundRecords
<1>5. Replaced(r) \in RunRecords /\ Replaced(r).request <= asked.requests
      /\ Replaced(r).request \in Nat
  BY ReplacedFits, Bounds DEF RunRecords
<1> DEFINE next == [round[r] EXCEPT !.replaced = Replaced(r), !.interview = "submitted",
                                    !.feedback = feedback, !.run = run]
<1>6. /\ next \in RoundRecords /\ next.run = run /\ next.replaced = Replaced(r)
      /\ next.feedback = feedback /\ next.published = round[r].published
      /\ next.version = round[r].version /\ next.interview = "submitted"
  <2>1. next \in RoundRecords
    BY <1>1, <1>4, <1>5 DEF RoundRecords, Interviewings
  <2> QED
    BY <1>1, <2>1 DEF RoundRecords
<1> HIDE DEF next
<1>7. PICK q \in RoundRecords :
        /\ round' = [round EXCEPT ![r] = q]
        /\ q.run = run /\ q.replaced = Replaced(r)
        /\ q.feedback = feedback /\ q.published = round[r].published
        /\ q.version = round[r].version /\ q.interview = "submitted"
  BY <1>6 DEF next
<1>8. Answers(q, asked'.requests)
  <2>1. \A key \in q.published : key[1] \in Nat /\ key[1] <= asked.requests
    BY <1>1, <1>7, Bounds DEF Answers, RoundRecords, PublishedKeys
  <2>2. run.state = "active"
    BY DEF Active
  <2> QED
    BY <1>2, <1>3, <1>5, <1>7, <2>1, <2>2 DEF Answers
<1>9. /\ screening' \in Screenings /\ screening'.repairing = screening.repairing
      /\ screening'.version = screening.version /\ asked'.requests >= asked.requests
  BY <1>2, <1>3, Settings
<1>10. r = "first" /\ ~ screening'.forgotten /\ ~ Closed => SourcesOf(q)'
  BY <1>7, SourcesStartAgain DEF Remembered
<1>11. /\ Active(q.run) /\ q.run.source \in {0, round[r].run.source}
       /\ q.feedback <= asked'.requests + 1 /\ q.interview # "completed" /\ Begun(r)
  BY <1>4, <1>7 DEF Begun, Untouched
<1> QED
  BY <1>3, <1>7, <1>8, <1>9, <1>10, <1>11, StartsAgain

LEMMA KeepsRecalculate ==
  ASSUME IInv, NEW r \in Rounds, Recalculate(r)
  PROVE  IInv'
<1>1. /\ round[r] \in RoundRecords /\ round[r].run \in RunRecords
      /\ round[r].run.step \in 1 .. 3 /\ round[r].feedback \in Nat
      /\ round[r].feedback <= asked.requests + 1
      /\ Answers(round[r], asked.requests)
  BY RoundHolds, Bounds DEF RoundRecords, RunRecords
<1>2. /\ round[r].run.state # "none" /\ NextRequest /\ SourceRepairReady(r)
      /\ UNCHANGED <<status, tasks, plan, planning, screening>> /\ recovery' = ClearedFor(r)
  BY DEF Recalculate
<1> DEFINE kept == [round[r] EXCEPT !.replaced = Replaced(r), !.interview = "submitted"]
           again == [round[r].run EXCEPT !.state = "active", !.request = asked.requests + 1]
<1>3. \/ round' = [round EXCEPT ![r] =
                     [kept EXCEPT !.feedback = @ + 1,
                                  !.run = WithFeedback(again, kept.feedback + 1)]]
      \/ \E step \in RestartSteps(r) :
           round' = [round EXCEPT ![r] = [kept EXCEPT !.run = Restarted(again, step)]]
  BY DEF Recalculate
<1>4. /\ again \in RunRecords /\ again.state = "active" /\ again.request = asked.requests + 1
      /\ again.admin = round[r].run.admin /\ again.feedback = round[r].run.feedback
      /\ again.source = round[r].run.source
  <2>1. asked.requests + 1 \in 0 .. MaxRequests
    BY <1>2, Settings, Bounds DEF NextRequest
  <2>2. again \in RunRecords
    BY <1>1, <2>1 DEF RunRecords, States
  <2> QED
    BY <1>1, <2>2 DEF RunRecords
<1> HIDE DEF again
<1>5. kept.feedback = round[r].feedback
  BY <1>1 DEF RoundRecords
<1>6. CASE round' = [round EXCEPT ![r] =
                       [kept EXCEPT !.feedback = @ + 1,
                                    !.run = WithFeedback(again, kept.feedback + 1)]]
  <2> DEFINE feedback == round[r].feedback + 1
             run == [again EXCEPT !.step = 1, !.source = 0, !.feedback = feedback,
                                  !.admin = FALSE]
  <2>1. feedback \in Nat /\ feedback \in 0 .. MaxRequests + 1
    BY <1>1, <1>2, Settings, Bounds DEF NextRequest
  <2>2. /\ run \in RunRecords /\ run.state = "active" /\ run.request = asked.requests + 1
        /\ run.feedback = feedback /\ run.source = 0
    <3> HIDE DEF feedback
    <3> DEFINE some == Restarted(again, 1)
    <3>1. some \in RunRecords
      BY <1>4, RestartedIs
    <3>2. /\ some.state = "active" /\ some.request = asked.requests + 1 /\ some.source = 0
      BY <1>4, RestartedIs
    <3>3. run = [some EXCEPT !.feedback = feedback, !.admin = FALSE]
      BY DEF Restarted
    <3> HIDE DEF some
    <3>4. [some EXCEPT !.feedback = feedback, !.admin = FALSE] \in RunRecords
      BY <2>1, <3>1 DEF RunRecords
    <3> QED
      BY <3>1, <3>2, <3>3, <3>4 DEF RunRecords
  <2>3. round' = [round EXCEPT ![r] =
                    [round[r] EXCEPT !.replaced = Replaced(r), !.interview = "submitted",
                                     !.feedback = feedback, !.run = run]]
    BY <1>1, <1>5, <1>6 DEF WithFeedback, RoundRecords
  <2> HIDE DEF run, feedback
  <2>4. feedback \in {round[r].feedback, round[r].feedback + 1}
    BY DEF feedback
  <2> QED
    BY <1>2, <2>1, <2>2, <2>3, <2>4, AskedAgain DEF Active
<1>7. ASSUME NEW step \in RestartSteps(r),
             round' = [round EXCEPT ![r] = [kept EXCEPT !.run = Restarted(again, step)]]
      PROVE  IInv'
  <2>1. step \in 1 .. 3
    BY <1>1 DEF RestartSteps
  <2>2. PICK run \in RunRecords :
          /\ run = Restarted(again, step)
          /\ run.state = "active" /\ run.request = asked.requests + 1
          /\ run.admin = round[r].run.admin /\ run.feedback = round[r].run.feedback
          /\ run.source = IF step = 1 THEN 0 ELSE round[r].run.source
    BY <1>4, <2>1, RestartedIs
  <2>3. round' = [round EXCEPT ![r] =
                    [round[r] EXCEPT !.replaced = Replaced(r), !.interview = "submitted",
                                     !.feedback = round[r].feedback, !.run = run]]
    <3> DEFINE base == kept
    <3>1. base \in RoundRecords /\ base.feedback = round[r].feedback
      BY <1>1, <1>5, ReplacedFits DEF RoundRecords, Interviewings
    <3> HIDE DEF base
    <3>2. base = [base EXCEPT !.feedback = round[r].feedback]
      BY <3>1 DEF RoundRecords
    <3>3. [base EXCEPT !.run = run] =
            [[base EXCEPT !.feedback = round[r].feedback] EXCEPT !.run = run]
      BY <3>2
    <3> QED
      BY <1>7, <2>2, <3>3 DEF base
  <2>4. ~ run.admin => run.feedback = round[r].feedback
    BY <1>1, <1>2, <2>2 DEF Answers
  <2>5. step # 1 => Stopped(round[r].run) /\ ~ SourceRecovery(r)
    BY DEF RestartSteps
  <2> QED
    BY <1>1, <1>2, <2>2, <2>3, <2>4, <2>5, AskedAgain DEF Active
<1> QED
  BY <1>3, <1>6, <1>7

\* A run that an administrator starts: it may read what was found unusable.
LEMMA AdminStarts ==
  ASSUME IInv, NEW r \in Rounds, NEW q \in RoundRecords, Begun(r),
         round' = [round EXCEPT ![r] = q],
         UNCHANGED <<status, recovery, tasks, plan, planning>>,
         NextIntervention, screening' = Overruled(r),
         Active(q.run), q.run.admin, q.run.source \in {0, round[r].run.source},
         q.run.request <= asked.requests, q.replaced.request <= asked.requests,
         q.interview # "completed", q.published = round[r].published,
         q.version = round[r].version, q.feedback = round[r].feedback
  PROVE  IInv'
<1>1. /\ Answers(round[r], asked.requests) /\ round[r].feedback <= asked.requests + 1
  BY RoundHolds
<1>2. /\ asked' \in [requests : 0 .. MaxRequests, interventions : 0 .. MaxInterventions]
      /\ asked'.requests = asked.requests
  BY Settings, Bounds DEF NextIntervention
<1>3. Answers(q, asked'.requests)
  BY <1>1, <1>2 DEF Answers
<1>4. /\ r = "first" => screening' = [screening EXCEPT !.condemned = 0, !.forgotten = FALSE]
      /\ r = "second" => screening' = screening
  BY DEF Overruled, Rounds
<1>5. /\ screening' \in Screenings /\ screening'.repairing = screening.repairing
      /\ screening'.version = screening.version
      /\ r = "first" => screening'.condemned = 0 /\ ~ screening'.forgotten
  <2>1. CASE r = "second"
    BY <1>4, <2>1, Settings
  <2>2. CASE r = "first"
    <3>1. screening' = [screening EXCEPT !.condemned = 0, !.forgotten = FALSE]
      BY <1>4, <2>2
    <3>2. screening \in Screenings /\ 0 \in 0 .. MaxVersion
      BY Settings, Bounds
    <3> QED
      BY <3>1, <3>2 DEF Screenings
  <2> QED
    BY <2>1, <2>2 DEF Rounds
<1>6. Renews' = Renews
  BY DEF Renews
<1>7. ASSUME r = "first", ~ Closed PROVE SourcesOf(q)'
  <2>1. /\ screening.version \in Nat /\ screening.version > 0 /\ recovery.since \in Nat
        /\ round["first"].run.source \in Nat
    BY Settings, RoundHolds DEF Rounds, RunRecords
  <2>2. Renews => recovery.kind = "source" /\ recovery.since <= screening.version
    BY <1>7 DEF IInv, SourcesFit, Remembered
  <2>3. q.run.source # 0 => q.run.source > 0
    BY <1>7, <2>1
  <2> QED
    BY <1>5, <1>6, <1>7, <2>1, <2>2, <2>3 DEF SourcesOf
<1>8. /\ q.feedback <= asked'.requests + 1 /\ asked'.requests >= asked.requests
  BY <1>1, <1>2, Settings
<1> QED
  BY <1>2, <1>3, <1>4, <1>5, <1>7, <1>8, StartsAgain

LEMMA KeepsAdminRetries ==
  ASSUME IInv, NEW r \in Rounds, AdminRetries(r)
  PROVE  IInv'
<1>1. /\ round[r] \in RoundRecords /\ round[r].run \in RunRecords
      /\ round[r].replaced \in RunRecords /\ Answers(round[r], asked.requests)
  BY RoundHolds
<1>2. PICK run \in {round[r].run, round[r].replaced} :
        /\ run.state = "failed"
        /\ round' = [round EXCEPT ![r].run =
                       [Restarted(run, 1) EXCEPT !.state = "active", !.admin = TRUE],
                       ![r].replaced = Replaced(r), ![r].interview = "submitted"]
  BY DEF AdminRetries
<1>3. /\ Restarted(run, 1) \in RunRecords /\ Restarted(run, 1).request = run.request
      /\ Restarted(run, 1).source = 0
  BY <1>1, <1>2, RestartedIs
<1> DEFINE again == [Restarted(run, 1) EXCEPT !.state = "active", !.admin = TRUE]
<1>4. /\ again \in RunRecords /\ again.state = "active" /\ again.admin /\ again.source = 0
      /\ again.request = run.request
  <2>1. "active" \in States
    BY DEF States
  <2>2. again \in RunRecords
    BY <1>3, <2>1 DEF RunRecords
  <2> QED
    BY <1>3, <2>2 DEF RunRecords
<1>5. round' = [round EXCEPT ![r].run = again,
                             ![r].replaced = Replaced(r), ![r].interview = "submitted"]
  BY <1>2
<1> HIDE DEF again
<1> DEFINE next == [round[r] EXCEPT !.run = again, !.replaced = Replaced(r),
                                    !.interview = "submitted"]
<1>6. round' = [round EXCEPT ![r] = next]
  <2>1. round \in [Rounds -> RoundRecords]
    BY DEF IInv, Typed
  <2> DEFINE one == [round EXCEPT ![r] = [round[r] EXCEPT !.run = again]]
             two == [one EXCEPT ![r] = [one[r] EXCEPT !.replaced = Replaced(r)]]
  <2>2. round' = [two EXCEPT ![r] = [two[r] EXCEPT !.interview = "submitted"]]
    BY <1>5
  <2>3. one[r] = [round[r] EXCEPT !.run = again]
    BY <2>1
  <2>4. two[r] = [one[r] EXCEPT !.replaced = Replaced(r)]
    BY <2>1
  <2>5. [two[r] EXCEPT !.interview = "submitted"] = next
    BY <2>3, <2>4
  <2>6. round' = [two EXCEPT ![r] = next]
    BY <2>2, <2>5
  <2> HIDE DEF next
  <2>7. [two EXCEPT ![r] = next] = [round EXCEPT ![r] = next]
    BY <2>1
  <2> QED
    BY <2>6, <2>7
<1>7. /\ next \in RoundRecords /\ next.run = again /\ next.replaced = Replaced(r)
      /\ next.feedback = round[r].feedback /\ next.published = round[r].published
      /\ next.version = round[r].version /\ next.interview = "submitted"
  <2>1. next \in RoundRecords
    BY <1>1, <1>4, ReplacedFits DEF RoundRecords, Interviewings
  <2> QED
    BY <1>1, <2>1 DEF RoundRecords
<1> HIDE DEF next
<1>8. PICK q \in RoundRecords :
        /\ round' = [round EXCEPT ![r] = q]
        /\ q.run = again /\ q.replaced = Replaced(r)
        /\ q.feedback = round[r].feedback /\ q.published = round[r].published
        /\ q.version = round[r].version /\ q.interview = "submitted"
  BY <1>6, <1>7
<1>9. /\ UNCHANGED <<status, recovery, tasks, plan, planning>>
      /\ NextIntervention /\ screening' = Overruled(r)
  BY DEF AdminRetries
<1>10. Begun(r)
  BY <1>2 DEF Begun, Untouched
<1>11. /\ Active(q.run) /\ q.run.admin /\ q.run.source \in {0, round[r].run.source}
       /\ q.run.request <= asked.requests /\ q.replaced.request <= asked.requests
  BY <1>1, <1>2, <1>4, <1>8, ReplacedFits DEF Active, Answers
<1> QED
  BY <1>8, <1>9, <1>10, <1>11, AdminStarts

LEMMA KeepsAdminResumes ==
  ASSUME IInv, NEW r \in Rounds, AdminResumes(r)
  PROVE  IInv'
<1>1. /\ round[r] \in RoundRecords /\ round[r].run \in RunRecords
      /\ Shown(round[r]) /\ Answers(round[r], asked.requests)
      /\ round[r].run.state = "blocked"
  BY RoundHolds DEF AdminResumes
<1> DEFINE again == [round[r].run EXCEPT !.state = "active", !.admin = TRUE]
           next == [round[r] EXCEPT !.run = again]
<1>2. /\ again \in RunRecords /\ again.state = "active" /\ again.admin
      /\ again.source = round[r].run.source /\ again.request = round[r].run.request
  <2>1. "active" \in States
    BY DEF States
  <2>2. again \in RunRecords
    BY <1>1, <2>1 DEF RunRecords
  <2> QED
    BY <1>1, <2>2 DEF RunRecords
<1>3. round' = [round EXCEPT ![r] = next]
  <2>1. round \in [Rounds -> RoundRecords]
    BY DEF IInv, Typed
  <2> DEFINE one == [round EXCEPT ![r] =
                       [round[r] EXCEPT !.run = [round[r].run EXCEPT !.state = "active"]]]
  <2>2. round' = [one EXCEPT ![r] = [one[r] EXCEPT !.run = [one[r].run EXCEPT !.admin = TRUE]]]
    BY DEF AdminResumes
  <2>3. one[r] = [round[r] EXCEPT !.run = [round[r].run EXCEPT !.state = "active"]]
    BY <2>1
  <2>4. one[r].run = [round[r].run EXCEPT !.state = "active"]
    BY <1>1, <2>3 DEF RoundRecords
  <2>5. [one[r] EXCEPT !.run = [one[r].run EXCEPT !.admin = TRUE]] = next
    <3>1. [one[r].run EXCEPT !.admin = TRUE] = again
      BY <2>4
    <3> HIDE DEF again, one
    <3>2. [one[r] EXCEPT !.run = again] = next
      BY <2>3
    <3> QED
      BY <3>1, <3>2
  <2>6. round' = [one EXCEPT ![r] = next]
    BY <2>2, <2>5
  <2> HIDE DEF next
  <2>7. [one EXCEPT ![r] = next] = [round EXCEPT ![r] = next]
    BY <2>1
  <2> QED
    BY <2>6, <2>7
<1> HIDE DEF again
<1>4. /\ next \in RoundRecords /\ next.run = again /\ next.replaced = round[r].replaced
      /\ next.feedback = round[r].feedback /\ next.published = round[r].published
      /\ next.version = round[r].version /\ next.interview = round[r].interview
  BY <1>1, <1>2 DEF RoundRecords
<1> HIDE DEF next
<1>5. PICK q \in RoundRecords :
        /\ round' = [round EXCEPT ![r] = q]
        /\ q.run = again /\ q.replaced = round[r].replaced
        /\ q.feedback = round[r].feedback /\ q.published = round[r].published
        /\ q.version = round[r].version /\ q.interview = round[r].interview
  BY <1>3, <1>4
<1>6. /\ UNCHANGED <<status, recovery, tasks, plan, planning>>
      /\ NextIntervention /\ screening' = Overruled(r)
  BY DEF AdminResumes
<1>7. Begun(r) /\ q.interview # "completed"
  BY <1>1, <1>5 DEF Begun, Untouched, Shown
<1>8. /\ Active(q.run) /\ q.run.admin /\ q.run.source \in {0, round[r].run.source}
      /\ q.run.request <= asked.requests /\ q.replaced.request <= asked.requests
  BY <1>1, <1>2, <1>5 DEF Active, Answers
<1> QED
  BY <1>5, <1>6, <1>7, <1>8, AdminStarts

-----------------------------------------------------------------------------
(***************************************************************************)
(* The feedback of a round                                                 *)
(***************************************************************************)
\* Where the feedback of a round is submitted, and where it leads.
LEMMA Submitted ==
  ASSUME NEW r \in Rounds, Submit(r)
  PROVE  /\ r = "first" => /\ status \in {"first_interview_in_progress", "first_interview_evaluation"}
                           /\ status' \in {"hr_second_review", "closed_rejected"}
         /\ r = "second" => /\ status \in {"second_interview_in_progress",
                                           "second_interview_evaluation"}
                            /\ status' \in {"final_review", "closed_rejected"}
<1>1. CASE r = "first"
  <2>1. PICK action \in {"complete_first_interview_pass", "complete_first_interview_reject",
                         "submit_first_feedback"} : Move(action)
    BY <1>1 DEF Submit, Submissions
  <2>2. CASE action = "complete_first_interview_pass"
    BY <1>1, <2>1, <2>2, MovesTaken DEF Taken
  <2>3. CASE action = "complete_first_interview_reject"
    BY <1>1, <2>1, <2>3, MovesTaken DEF Taken
  <2>4. CASE action = "submit_first_feedback"
    BY <1>1, <2>1, <2>4, MovesTaken DEF Taken
  <2> QED
    BY <2>1, <2>2, <2>3, <2>4
<1>2. CASE r = "second"
  <2>1. PICK action \in {"complete_second_interview_pass", "complete_second_interview_reject",
                         "submit_second_feedback"} : Move(action)
    BY <1>2 DEF Submit, Submissions
  <2>2. CASE action = "complete_second_interview_pass"
    BY <1>2, <2>1, <2>2, MovesTaken DEF Taken
  <2>3. CASE action = "complete_second_interview_reject"
    BY <1>2, <2>1, <2>3, MovesTaken DEF Taken
  <2>4. CASE action = "submit_second_feedback"
    BY <1>2, <2>1, <2>4, MovesTaken DEF Taken
  <2> QED
    BY <2>1, <2>2, <2>3, <2>4
<1> QED
  BY <1>1, <1>2 DEF Rounds

LEMMA NoRunIs ==
  NoRun \in RunRecords /\ NoRun.state = "none" /\ NoRun.source = 0 /\ NoRun.request = 0
BY Bounds DEF NoRun, RunRecords, States

\* The round that is submitted has no run and no version before.
LEMMA KeepsSubmit ==
  ASSUME IInv, NEW r \in Rounds, Submit(r)
  PROVE  IInv'
<1>1. /\ round[r] \in RoundRecords /\ Shown(round[r])
  BY RoundHolds
<1>2. /\ r = "first" => /\ status \in {"first_interview_in_progress", "first_interview_evaluation"}
                        /\ status' \in {"hr_second_review", "closed_rejected"}
      /\ r = "second" => /\ status \in {"second_interview_in_progress",
                                        "second_interview_evaluation"}
                         /\ status' \in {"final_review", "closed_rejected"}
  BY Submitted
<1>3. /\ Untouched(r) /\ ~ Closed
      /\ r = "first" => /\ Untouched("second") /\ screening.condemned = 0
                        /\ ~ screening.forgotten
  BY <1>2, AtFirst DEF IInv, Stages, FirstStage, SecondStage, Closed, Rounds
<1> DEFINE run == [NoRun EXCEPT !.state = "active", !.feedback = 1]
           next == [round[r] EXCEPT !.interview = "submitted", !.feedback = 1, !.run = run]
<1>4. /\ run \in RunRecords /\ run.state = "active" /\ run.feedback = 1 /\ run.source = 0
      /\ run.request = 0
  <2>1. PICK none \in RunRecords :
          none = NoRun /\ none.source = 0 /\ none.request = 0
    BY NoRunIs
  <2>2. run = [none EXCEPT !.state = "active", !.feedback = 1]
    BY <2>1
  <2>3. "active" \in States /\ 1 \in 0 .. MaxRequests + 1
    BY Bounds DEF States
  <2>4. run \in RunRecords
    BY <2>1, <2>2, <2>3 DEF RunRecords
  <2> QED
    BY <2>1, <2>2, <2>4 DEF RunRecords
<1> HIDE DEF run
<1>0. /\ UNCHANGED <<plan, planning, asked>> /\ recovery' = NoRecovery
      /\ tasks' = tasks \ {r}
      /\ screening' = [screening EXCEPT !.forgotten = @ \/ (r = "second" /\ Renews)]
  BY DEF Submit
<1>5. /\ UNCHANGED <<plan, planning, asked>> /\ recovery' = NoRecovery
      /\ tasks' = tasks \ {r}
      /\ screening' \in Screenings /\ screening'.version = screening.version
      /\ screening'.repairing = screening.repairing
      /\ screening'.condemned = screening.condemned
      /\ screening'.forgotten = (screening.forgotten \/ (r = "second" /\ Renews))
  <2> DEFINE forgotten == screening.forgotten \/ (r = "second" /\ Renews)
  <2>1. forgotten \in BOOLEAN
    BY Settings DEF Screenings
  <2>2. screening' = [screening EXCEPT !.forgotten = forgotten]
    BY <1>0
  <2> HIDE DEF forgotten
  <2>3. /\ screening' \in Screenings /\ screening'.version = screening.version
        /\ screening'.repairing = screening.repairing
        /\ screening'.condemned = screening.condemned
        /\ screening'.forgotten = forgotten
    BY <2>1, <2>2, Settings DEF Screenings
  <2> QED
    BY <1>0, <2>3 DEF forgotten
<1>6. round' = [round EXCEPT ![r] = next]
  <2>1. round \in [Rounds -> RoundRecords]
    BY DEF IInv, Typed
  <2> DEFINE one == [round EXCEPT ![r] = [round[r] EXCEPT !.interview = "submitted"]]
             two == [one EXCEPT ![r] = [one[r] EXCEPT !.feedback = 1]]
  <2>2. round' = [two EXCEPT ![r] = [two[r] EXCEPT !.run = run]]
    BY DEF Submit, run
  <2>3. one[r] = [round[r] EXCEPT !.interview = "submitted"]
    BY <2>1
  <2>4. two[r] = [one[r] EXCEPT !.feedback = 1]
    BY <2>1
  <2>5. [two[r] EXCEPT !.run = run] = next
    BY <2>3, <2>4
  <2>6. round' = [two EXCEPT ![r] = next]
    BY <2>2, <2>5
  <2> HIDE DEF next
  <2>7. [two EXCEPT ![r] = next] = [round EXCEPT ![r] = next]
    BY <2>1
  <2> QED
    BY <2>6, <2>7
<1>7. /\ next \in RoundRecords /\ next.run = run /\ next.replaced = round[r].replaced
      /\ next.feedback = 1 /\ next.published = round[r].published
      /\ next.version = round[r].version /\ next.interview = "submitted"
  <2>1. next \in RoundRecords
    <3>1. "submitted" \in Interviewings /\ 1 \in 0 .. MaxRequests + 1
      BY Bounds DEF Interviewings
    <3> QED
      BY <1>1, <1>4, <3>1 DEF RoundRecords
  <2> QED
    BY <1>1, <2>1 DEF RoundRecords
<1> HIDE DEF next
<1>8. PICK q \in RoundRecords :
        /\ round' = [round EXCEPT ![r] = q]
        /\ q.run = run /\ q.replaced = round[r].replaced
        /\ q.feedback = 1 /\ q.published = round[r].published
        /\ q.version = round[r].version /\ q.interview = "submitted"
  BY <1>6, <1>7
<1>9. /\ round' \in [Rounds -> RoundRecords] /\ round'[r] = q
      /\ \A s \in Rounds \ {r} : round'[s] = round[s]
  BY <1>8, OneRound DEF IInv
<1>10. /\ q.published = {} /\ Active(q.run) /\ ~ Stopped(q.run) /\ q.run.source = 0
       /\ q.run.state = "active"
  BY <1>3, <1>4, <1>8 DEF Untouched, Active, Stopped
<1>11. Typed'
  <2>1. \A s \in Rounds : round'[s].feedback <= asked.requests + 1
    <3>1. asked.requests \in Nat /\ \A s \in Rounds : round[s].feedback <= asked.requests + 1
      BY Settings DEF IInv, Typed
    <3> QED
      BY <1>8, <1>9, <3>1
  <2>2. round'["first"].run.source <= screening.version
    BY <1>9, <1>10, Settings DEF Rounds
  <2>3. status' \in Reached
    BY <1>2 DEF Reached, SecondStage, Rounds
  <2>4. recovery' \in Recoveries
    BY <1>5, PlanningTyped
  <2> QED
    BY <1>5, <1>9, <2>1, <2>2, <2>3, <2>4 DEF IInv, Typed
<1>12. Stages'
  <2>1. CASE r = "first"
    <3>1. round'["second"] = round["second"]
      BY <1>9, <2>1 DEF Rounds
    <3> QED
      BY <1>2, <1>3, <2>1, <3>1 DEF Stages, Untouched, FirstStage, SecondStage
  <2>2. CASE r = "second"
    BY <1>2, <2>2 DEF Stages, FirstStage, SecondStage
  <2> QED
    BY <2>1, <2>2 DEF Rounds
<1>13. SomebodyIsTold' /\ VersionsAreTold'
  <2>1. CASE r = "first"
    BY <1>2, <1>9, <1>10, <2>1 DEF SomebodyIsTold, VersionsAreTold
  <2>2. CASE r = "second"
    BY <1>2, <1>9, <1>10, <2>2 DEF SomebodyIsTold, VersionsAreTold
  <2> QED
    BY <2>1, <2>2 DEF Rounds
<1>14. \A s \in Rounds : RoundFits(s)' /\ FeedbackFits(s)'
  <2> TAKE s \in Rounds
  <2>1. CASE s = r
    <3>1. RoundFits(s)'
      BY <1>1, <1>8, <1>9, <1>10, <2>1 DEF RoundFits, Shown
    <3>2. round[r].replaced.request <= asked.requests /\ asked.requests \in Nat
      BY RoundHolds, Settings DEF Answers
    <3>3. FeedbackFits(s)'
      BY <1>4, <1>5, <1>8, <1>9, <1>10, <2>1, <3>2 DEF FeedbackFits
    <3> QED
      BY <3>1, <3>3
  <2>2. CASE s # r
    <3>1. round'[s] = round[s]
      BY <1>9, <2>2
    <3> QED
      BY <1>3, <1>5, <3>1 DEF IInv, RoundFits, FeedbackFits
  <2> QED
    BY <2>1, <2>2
<1>15. SourcesFit'
  <2>1. CASE r = "first"
    <3>1. screening.version \in Nat /\ screening.version > 0 /\ ~ Renews'
      BY <1>5, Settings DEF Renews, NoRecovery
    <3>2. ~ screening'.forgotten
      BY <1>3, <1>5, <2>1
    <3> QED
      BY <1>3, <1>5, <1>9, <1>10, <2>1, <3>1, <3>2 DEF SourcesFit, Remembered
  <2>2. CASE r = "second"
    <3>1. ~ Renews' /\ (Closed => Closed')
      BY <1>3, <1>5 DEF Renews, NoRecovery
    <3> QED
      BY <1>5, <1>8, <1>10, <2>2, <3>1, SourcesApart
  <2> QED
    BY <2>1, <2>2 DEF Rounds
<1>16. FailureIsExplained'
  <2>1. status' # "first_interview_planning"
    BY <1>2 DEF Rounds
  <2>2. CASE r = "first"
    BY <1>9, <1>10, <2>1, <2>2 DEF FailureIsExplained
  <2>3. CASE r = "second"
    BY <1>9, <1>10, <2>1, <2>3 DEF FailureIsExplained
  <2> QED
    BY <2>2, <2>3 DEF Rounds
<1> QED
  BY <1>11, <1>12, <1>13, <1>14, <1>15, <1>16 DEF IInv

-----------------------------------------------------------------------------
(***************************************************************************)
(* Every step                                                              *)
(***************************************************************************)
LEMMA Starts == Init => IInv
<1> SUFFICES ASSUME Init PROVE IInv
  OBVIOUS
<1>1. NoRun \in RunRecords /\ NoRun.state = "none" /\ NoRun.source = 0 /\ NoRun.request = 0
  BY NoRunIs
<1>2. /\ NewRound \in RoundRecords /\ NewRound.run = NoRun /\ NewRound.replaced = NoRun
      /\ NewRound.published = {} /\ NewRound.version = 0 /\ NewRound.interview = "none"
      /\ NewRound.feedback = 0
  BY <1>1, Bounds DEF NewRound, RoundRecords, Interviewings, PublishedKeys
<1>3. /\ round \in [Rounds -> RoundRecords] /\ \A r \in Rounds : round[r] = NewRound
  BY <1>2 DEF Init
<1>4. /\ status = "department_review" /\ recovery = NoRecovery /\ plan = "none"
      /\ tasks = {"department_review"}
      /\ screening.version = 1 /\ screening.condemned = 0 /\ ~ screening.repairing
      /\ ~ screening.forgotten
      /\ asked.requests = 0 /\ planning.state = "none"
  BY DEF Init
<1>5. Typed
  <2>1. /\ planning \in Plannings /\ screening \in Screenings
        /\ asked \in [requests : 0 .. MaxRequests, interventions : 0 .. MaxInterventions]
    BY Bounds DEF Init, Plannings, Screenings, States
  <2>2. recovery \in Recoveries
    BY <1>4 DEF NoRecovery, Recoveries
  <2>3. \A r \in Rounds : round[r].feedback <= asked.requests + 1
    BY <1>2, <1>3, <1>4
  <2>4. round["first"].run.source <= screening.version
    BY <1>1, <1>2, <1>3, <1>4 DEF Rounds
  <2> QED
    BY <1>3, <1>4, <2>1, <2>2, <2>3, <2>4 DEF Typed, Reached, FirstStage, Tasks
<1>6. Stages
  BY <1>1, <1>2, <1>3, <1>4 DEF Stages, Untouched, Rounds
<1>7. SomebodyIsTold /\ VersionsAreTold /\ FailureIsExplained
  BY <1>1, <1>2, <1>3, <1>4 DEF SomebodyIsTold, VersionsAreTold, FailureIsExplained, Stopped, Rounds
<1>8. \A r \in Rounds : RoundFits(r) /\ FeedbackFits(r)
  <2>1. IsFiniteSet({}) /\ Cardinality({}) = 0
    BY FS_EmptySet
  <2> QED
    BY <1>1, <1>2, <1>3, <1>4, <2>1 DEF RoundFits, FeedbackFits, Active
<1>9. SourcesFit
  BY <1>1, <1>2, <1>3, <1>4 DEF SourcesFit, Remembered, Renews, NoRecovery, Rounds
<1> QED
  BY <1>5, <1>6, <1>7, <1>8, <1>9 DEF IInv

LEMMA ScoringKeeps ==
  ASSUME IInv, NEW r \in Rounds, ScoringStep(r)
  PROVE  IInv'
<1>1. CASE Freeze(r)
  BY <1>1, KeepsFreeze
<1>2. CASE Compute(r)
  BY <1>2, KeepsCompute
<1>3. CASE Publish(r)
  BY <1>3, KeepsPublish
<1>4. CASE Fails(r)
  <2> DEFINE step == Steps[round[r].run.step]
  <2>1. Active(round[r].run) /\ StopsWith(r, "failed", FailureCodes(step))
    BY <1>4 DEF Fails
  <2>2. PICK s : s = step
    OBVIOUS
  <2> HIDE DEF step
  <2>3. PICK codes : codes = FailureCodes(s)
    OBVIOUS
  <2> QED
    BY <2>1, <2>2, <2>3, KeepsStops
<1>5. CASE IsBlocked(r)
  <2> DEFINE step == Steps[round[r].run.step]
  <2>1. Active(round[r].run) /\ StopsWith(r, "blocked", BlockedCodes(step))
    BY <1>5, StepIs DEF IsBlocked
  <2>2. PICK s : s = step
    OBVIOUS
  <2> HIDE DEF step
  <2>3. PICK codes : codes = BlockedCodes(s)
    OBVIOUS
  <2> QED
    BY <2>1, <2>2, <2>3, KeepsStops
<1> QED
  BY <1>1, <1>2, <1>3, <1>4, <1>5 DEF ScoringStep

LEMMA StutterKeeps == IInv /\ UNCHANGED vars => IInv'
<1> SUFFICES ASSUME IInv, UNCHANGED vars PROVE IInv'
  OBVIOUS
<1>1. UNCHANGED <<status, recovery, tasks, plan, planning, screening, round, asked>>
  BY DEF vars
<1>2. screening \in Screenings /\ screening.version \in Nat
      /\ (screening.repairing => screening.version < MaxVersion)
  BY Settings DEF IInv, Typed
<1> QED
  BY <1>1, <1>2, ScreeningKeeps

LEMMA NextKeeps == IInv /\ [Next]_vars => IInv'
<1> SUFFICES ASSUME IInv, [Next]_vars PROVE IInv'
  OBVIOUS
<1>1. CASE PlanningStep
  BY <1>1, KeepsPlanIsDrafted, KeepsPlanIsPublished, KeepsPlanStops DEF PlanningStep
<1>2. CASE ApproveFirst \/ RequestPlanning \/ AdminRetriesPlanning
  BY <1>2, KeepsApproveFirst, KeepsRequestPlanning, KeepsAdminRetriesPlanning
<1>3. CASE ConfirmPlan \/ ContinueManually
  BY <1>3, KeepsConfirmPlan
<1>4. CASE Finish \/ ApproveSecond \/ Decide
  BY <1>4, KeepsFinish, KeepsApproveSecond, KeepsDecide
<1>5. CASE RebuildScreening \/ RebuildEnds
  BY <1>5, KeepsRebuildScreening, KeepsRebuildEnds
<1>6. ASSUME NEW r \in Rounds, ScoringStep(r) PROVE IInv'
  BY <1>6, ScoringKeeps
<1>7. ASSUME NEW r \in Rounds, Submit(r) PROVE IInv'
  BY <1>7, KeepsSubmit
<1>8. ASSUME NEW r \in Rounds, Recalculate(r) PROVE IInv'
  BY <1>8, KeepsRecalculate
<1>9. ASSUME NEW r \in Rounds, AdminRetries(r) \/ AdminResumes(r) PROVE IInv'
  BY <1>9, KeepsAdminRetries, KeepsAdminResumes
<1>10. CASE UNCHANGED vars
  BY <1>10, StutterKeeps
<1> QED
  BY <1>1, <1>2, <1>3, <1>4, <1>5, <1>6, <1>7, <1>8, <1>9, <1>10 DEF Next

\* Whatever people, the administrator and the workers do, and in whatever order.
THEOREM Invariant == Spec => []IInv
<1> QED
  BY Starts, NextKeeps, PTL DEF Spec

LEMMA StatusesReached == Reached \subseteq Statuses
<1>1. /\ <<"first_interview_in_progress", "finish_first_interview", "first_interview_evaluation">>
           \in Moves
      /\ <<"second_interview_in_progress", "finish_second_interview",
           "second_interview_evaluation">> \in Moves
      /\ <<"department_review", "approve_first_interview", "first_interview_planning">> \in Moves
      /\ <<"hr_second_review", "approve_second_interview", "second_interview_in_progress">> \in Moves
      /\ <<"final_review", "offer", "offer_process">> \in Moves
  BY DEF Moves, InterviewMoves
<1>2. <<"hard_screening_running", "complete_hard_screening_failed", "closed_rejected">> \in Moves
  BY DEF Moves, ScreeningMoves
<1>3. \A m \in Moves : m[1] \in Statuses /\ m[3] \in Statuses
  BY DEF Statuses
<1>4. /\ "first_interview_in_progress" \in Statuses /\ "first_interview_evaluation" \in Statuses
      /\ "second_interview_in_progress" \in Statuses /\ "second_interview_evaluation" \in Statuses
  BY <1>1, <1>3
<1>5. /\ "department_review" \in Statuses /\ "first_interview_planning" \in Statuses
      /\ "hr_second_review" \in Statuses /\ "final_review" \in Statuses
      /\ "offer_process" \in Statuses /\ "closed_rejected" \in Statuses
  BY <1>1, <1>2, <1>3
<1> QED
  BY <1>4, <1>5 DEF Reached, FirstStage, SecondStage

\* Every variable has its type, and the versions of a round are counted.
THEOREM InterviewsTypeCorrect == Spec => []TypeOK
<1>1. IInv => TypeOK
  <2> SUFFICES ASSUME IInv PROVE TypeOK
    OBVIOUS
  <2>1. status \in Statuses
    BY StatusesReached DEF IInv, Typed
  <2>2. Len(Steps) = 3
    BY DEF Steps
  <2>3. ASSUME NEW r \in Rounds
        PROVE  /\ round[r].interview \in {"none", "created", "recording", "submitted", "scoring",
                                          "completed", "failed"}
               /\ {round[r].run, round[r].replaced} \subseteq
                    [state : States, step : 1 .. Len(Steps), source : Nat,
                     feedback : 0 .. MaxRequests + 1, request : 0 .. MaxRequests, admin : BOOLEAN]
               /\ round[r].feedback \in 0 .. MaxRequests + 1
               /\ round[r].version = Cardinality(round[r].published)
    BY <2>2, <2>3, RoundHolds DEF RoundRecords, Interviewings, RunRecords, Shown
  <2> QED
    BY <2>1, <2>3 DEF IInv, Typed, Recoveries, Tasks, Plannings, Screenings, TypeOK
<1> QED
  BY <1>1, Invariant, PTL

\* No retry, repair or late publication leaves an application at a stage where
\* nobody has a task, no run will make one and no failure is shown.
THEOREM SomebodyIsAlwaysTold == Spec => []SomebodyIsTold
<1>1. IInv => SomebodyIsTold
  BY DEF IInv
<1> QED
  BY <1>1, Invariant, PTL

\* A planning or a scoring run that stops leaves a recovery code that says why.
THEOREM FailuresAreExplained == Spec => []FailureIsExplained
<1>1. IInv => FailureIsExplained
  BY DEF IInv
<1> QED
  BY <1>1, Invariant, PTL

\* However often V2 is asked for and V1 is repaired meanwhile, in both rounds: as
\* long as the second round has not taken the recovery code that says which V1 is
\* unusable, a run that people have asked for reads a newer one
\* (_ensure_source_repair_ready).
THEOREM UnusableSourceIsLeft == Spec => []RepairedSourceIsRead
<1>1. IInv => RepairedSourceIsRead
  BY DEF IInv, SourcesFit, Remembered, RepairedSourceIsRead
<1> QED
  BY <1>1, Invariant, PTL

\* A version that people have asked for is of the feedback they gave last.
THEOREM LatestFeedbackIsScored == Spec => []ScoresLatestFeedback
<1>1. IInv => ScoresLatestFeedback
  BY DEF IInv, FeedbackFits, ScoresLatestFeedback
<1> QED
  BY <1>1, Invariant, PTL

\* An interview is not shown as being scored when nothing scores it, nor as
\* completed without a version.
THEOREM InterviewIsShownAsItIs == Spec => []InterviewFollowsRun
<1>1. IInv => InterviewFollowsRun
  BY DEF IInv, RoundFits, InterviewFollowsRun
<1> QED
  BY <1>1, Invariant, PTL

\* Once an interview is held with a plan, no planning run that is still under
\* way or that is started again takes the plan away.
THEOREM PlanIsKept == Spec => ConfirmedPlanStays
<1>1. IInv /\ [Next]_vars => (plan = "confirmed" => plan' = "confirmed")
  <2> SUFFICES ASSUME IInv, [Next]_vars, plan = "confirmed" PROVE plan' = "confirmed"
    OBVIOUS
  <2>1. status \notin {"department_review", "first_interview_planning"}
    BY DEF IInv, Stages
  <2>2. ~ PlanIsPublished
    BY <2>1 DEF PlanIsPublished
  <2>3. CASE PlanningStep
    BY <2>2, <2>3 DEF PlanningStep, PlanIsDrafted, PlanStops
  <2>4. CASE ApproveFirst \/ RequestPlanning \/ AdminRetriesPlanning \/ Finish
    BY <2>4 DEF ApproveFirst, RequestPlanning, AdminRetriesPlanning, Finish
  <2>5. CASE ConfirmPlan \/ ContinueManually
    BY <2>5 DEF ConfirmPlan, ContinueManually, StartsFirst
  <2>6. CASE ApproveSecond \/ Decide \/ RebuildScreening \/ RebuildEnds
    BY <2>6 DEF ApproveSecond, Decide, RebuildScreening, RebuildEnds
  <2>7. ASSUME NEW r \in Rounds,
               ScoringStep(r) \/ Submit(r) \/ Recalculate(r) \/ AdminRetries(r) \/ AdminResumes(r)
        PROVE  plan' = plan
    BY <2>7 DEF ScoringStep, Freeze, Compute, Publish, Fails, IsBlocked, StopsWith, Submit,
                Recalculate, AdminRetries, AdminResumes
  <2>8. CASE UNCHANGED vars
    BY <2>8 DEF vars
  <2> QED
    BY <2>3, <2>4, <2>5, <2>6, <2>7, <2>8 DEF Next
<1> QED
  BY <1>1, Invariant, PTL DEF Spec, ConfirmedPlanStays
=============================================================================
