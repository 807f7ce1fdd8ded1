--------------------------- MODULE WorkflowStatus ---------------------------
(***************************************************************************)
(* The status vocabularies of the workflow runtime and their transition    *)
(* tables (app/shared/workflows/status_contracts.py).  Every runtime write *)
(* of a status goes through one of the ensure_*_transition functions; a    *)
(* move the table does not list raises, except that a status may always be *)
(* rewritten by itself.                                                    *)
(***************************************************************************)

RunStatus == {"pending", "running", "completed", "blocked", "failed", "cancelled"}

StepStatus == {"pending", "running", "retry_wait", "activity_retry_wait",
               "waiting_external", "succeeded", "failed", "blocked",
               "invalidated", "cancelled"}

ActivityStatus == {"pending", "running", "retry_wait", "succeeded", "failed"}

RunTransitions ==
    ({"pending"} \X {"running", "cancelled"})
        \cup ({"running"} \X {"pending", "completed", "blocked", "failed", "cancelled"})
        \cup ({"blocked"} \X {"pending", "cancelled"})

StepTransitions ==
    ({"pending", "retry_wait", "activity_retry_wait", "waiting_external"}
                         \X {"running", "invalidated", "cancelled"})
        \cup ({"running"} \X {"retry_wait", "activity_retry_wait", "waiting_external",
                              "succeeded", "failed", "blocked", "invalidated",
                              "cancelled"})
        \cup ({"succeeded", "failed"} \X {"invalidated"})
        \cup ({"blocked"} \X {"pending", "invalidated", "cancelled"})

ActivityTransitions ==
    ({"pending", "retry_wait"} \X {"running"})
        \cup ({"running"} \X {"retry_wait", "succeeded", "failed"})

\* _ensure_transition lets the move through; otherwise it raises ValueError.
RunMayMove(from, to) == from = to \/ <<from, to>> \in RunTransitions
StepMayMove(from, to) == from = to \/ <<from, to>> \in StepTransitions
ActivityMayMove(from, to) == from = to \/ <<from, to>> \in ActivityTransitions

\* The statuses from which no transition leaves a run.
TerminalRun == {"completed", "failed", "cancelled"}

\* The statuses CheckpointRepository.current_for_run still regards as current.
OpenStep == {"pending", "running", "retry_wait", "activity_retry_wait", "waiting_external"}

\* What every cancel path turns into "cancelled".
CancellableStep == OpenStep \cup {"blocked"}
=============================================================================
