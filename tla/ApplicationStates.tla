-------------------------- MODULE ApplicationStates --------------------------
(***************************************************************************)
(* The recruiting process of an application: the statuses and the moves    *)
(* between them that plan_transition allows.                               *)
(***************************************************************************)

\* The moves as <<status, action, next status>>: up to the first review,
ScreeningMoves ==
    {<<"waiting_job_profile", "job_profile_ready", "hard_screening_pending">>,
     <<"hard_screening_pending", "run_hard_screening", "hard_screening_running">>,
     <<"hard_screening_pending", "skip_hard_screening", "submitted">>,
     <<"hard_screening_running", "complete_hard_screening_passed", "submitted">>,
     <<"hard_screening_running", "complete_hard_screening_failed", "closed_rejected">>,
     <<"hard_screening_running", "complete_hard_screening_review", "hard_screening_review">>,
     <<"hard_screening_review", "review_hard_screening_pass", "submitted">>,
     <<"hard_screening_review", "review_hard_screening_reject", "closed_rejected">>,
     <<"submitted", "run_scoring", "screening_running">>,
     <<"screening_failed", "retry_scoring", "screening_running">>,
     <<"screening_running", "complete_scoring", "department_review">>,
     <<"screening_running", "fail_scoring", "screening_failed">>}
    \cup ({"hard_screening_pending", "hard_screening_running"}
          \X {"fail_hard_screening"} \X {"hard_screening_review"})
    \cup ({"hard_screening_pending", "hard_screening_running", "hard_screening_review"}
          \X {"retry_hard_screening"} \X {"hard_screening_pending"})

\* from there to the offer,
InterviewMoves ==
    {<<"department_review", "approve_first_interview", "first_interview_planning">>,
     <<"first_interview_planning", "run_first_interview_planning", "first_interview_planning">>,
     <<"first_interview_planning", "confirm_first_guide", "first_interview_in_progress">>,
     <<"first_interview_planning", "continue_first_interview_manually", "first_interview_in_progress">>,
     <<"first_interview_scheduled", "start_first_interview", "first_interview_in_progress">>,
     <<"first_interview_in_progress", "finish_first_interview", "first_interview_evaluation">>,
     <<"first_interview_evaluation", "submit_first_feedback", "hr_second_review">>,
     <<"hr_second_review", "approve_second_interview", "second_interview_in_progress">>,
     <<"second_interview_in_progress", "finish_second_interview", "second_interview_evaluation">>,
     <<"second_interview_evaluation", "submit_second_feedback", "final_review">>,
     <<"final_review", "offer", "offer_process">>}
    \cup ({"first_interview_in_progress", "first_interview_evaluation"}
          \X {"complete_first_interview_pass"} \X {"hr_second_review"})
    \cup ({"first_interview_in_progress", "first_interview_evaluation"}
          \X {"complete_first_interview_reject"} \X {"closed_rejected"})
    \cup ({"second_interview_in_progress", "second_interview_evaluation"}
          \X {"complete_second_interview_pass"} \X {"final_review"})
    \cup ({"second_interview_in_progress", "second_interview_evaluation"}
          \X {"complete_second_interview_reject"} \X {"closed_rejected"})
    \cup ({"department_review", "hr_second_review", "final_review"}
          \X {"reject"} \X {"closed_rejected"})
    \cup ({"department_review", "hr_second_review"} \X {"hold"} \X {"on_hold"})
    \cup ({"department_review", "hr_second_review", "final_review"}
          \X {"manual_review"} \X {"manual_review"})

\* and out of the process because the job is deleted.
Early == {"waiting_job_profile", "hard_screening_pending", "hard_screening_running",
          "hard_screening_review", "submitted", "screening_running",
          "screening_failed", "department_review", "on_hold", "manual_review"}

Moves == ScreeningMoves \cup InterviewMoves
         \cup (Early \X {"cancel_recruitment"} \X {"closed_cancelled"})

Statuses == {m[1] : m \in Moves} \cup {m[3] : m \in Moves}

\* plan_transition refuses an action that the status does not allow.
Allowed(status, action) == \E m \in Moves : m[1] = status /\ m[2] = action

\* The status an allowed action leads to.
After(status, action) == (CHOOSE m \in Moves : m[1] = status /\ m[2] = action)[3]
=============================================================================
