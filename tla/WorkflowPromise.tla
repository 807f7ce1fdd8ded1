-------------------------- MODULE WorkflowPromise --------------------------
(***************************************************************************)
(* What the workflow runtime promises to the business modules, without     *)
(* workers, leases, attempts or time: the steps of a run are published one *)
(* after the other, each exactly once; a run completes only when all of    *)
(* them are published; what has ended stays ended.                         *)
(***************************************************************************)
EXTENDS Naturals

CONSTANTS Runs, NumSteps

Steps == 1..NumSteps

VARIABLES
    phase,  \* [Runs -> where the run is in its life]
    count   \* [Runs -> [Steps -> how often the step's result was published]]

vars == <<phase, count>>

Init ==
    /\ phase = [r \in Runs |-> "absent"]
    /\ count = [r \in Runs |-> [s \in Steps |-> 0]]

\* The life of a run, apart from its completion.
Moves ==
    {<<"absent", "active">>, <<"active", "blocked">>, <<"blocked", "active">>,
     <<"active", "failed">>, <<"active", "cancelled">>}

Move(r) ==
    /\ \E m \in Moves : phase[r] = m[1] /\ phase' = [phase EXCEPT ![r] = m[2]]
    /\ UNCHANGED count

PublishStep(r, s) ==
    /\ phase[r] = "active"
    /\ count[r][s] = 0
    /\ \A q \in 1 .. s - 1 : count[r][q] = 1
    /\ count' = [count EXCEPT ![r][s] = 1]
    /\ UNCHANGED phase

Complete(r) ==
    /\ phase[r] = "active"
    /\ \A s \in Steps : count[r][s] = 1
    /\ phase' = [phase EXCEPT ![r] = "completed"]
    /\ UNCHANGED count

Next ==
    \E r \in Runs : \/ Move(r) \/ Complete(r)
                    \/ \E s \in Steps : PublishStep(r, s)

Spec == Init /\ [][Next]_vars
=============================================================================
