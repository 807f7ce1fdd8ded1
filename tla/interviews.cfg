\* One application, a request to score a round again, two interventions of the
\* administrator and one repair of V1; planning and scoring fail and are blocked
\* at every step.
SPECIFICATION Spec
CONSTANTS
    MaxVersion = 2
    MaxRequests = 1
    MaxInterventions = 2
INVARIANTS
    SomebodyIsTold
    RepairedSourceIsRead
    ScoresLatestFeedback
    InterviewFollowsRun
PROPERTIES
    ConfirmedPlanStays
\* An application that is closed stays as it is.
CHECK_DEADLOCK FALSE
