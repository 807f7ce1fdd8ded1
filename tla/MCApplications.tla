--------------------------- MODULE MCApplications -----------------------------
(***************************************************************************)
(* Small instances of Screening and of ActivityRunner, each looked at      *)
(* while the other rests: which names it.                                  *)
(***************************************************************************)
EXTENDS MCScreening, MCActivityRunner

VARIABLE which

MCInit ==
    /\ which \in {"screening", "activities"} /\ Init /\ Untouched
    /\ status = IF which = "activities" THEN "pending" ELSE "cancelled"

MCNext ==
    \/ which = "screening" /\ Next /\ UNCHANGED <<which, activityVars>>
    \/ which = "activities" /\ ActivityNext /\ UNCHANGED <<which, vars>>

\* Nothing has begun in the model that rests, so its fairness demands nothing.
MCSpec ==
    MCInit /\ [][MCNext]_<<which, vars, activityVars>> /\ Fairness /\ ActivityFairness
=============================================================================
