------------------------------- MODULE MCJobs -------------------------------
(***************************************************************************)
(* Small instances of JobProfiles, JobImport and CommandRunner, each       *)
(* looked at while the others rest: which names it.  (What a confirmation  *)
(* of drafts does to the versions of a job are actions of JobProfiles,     *)
(* Import and ImportAgain.)                                                *)
(***************************************************************************)
EXTENDS JobProfiles, MCJobImport, MCCommandRunner

CONSTANTS A, n1

VARIABLE which

MCInit == which \in {"profiles", "import", "commands"} /\ ProfileInit /\ ImportInit /\ Init

MCNext ==
    \/ which = "profiles" /\ ProfileNext /\ UNCHANGED <<which, importVars, vars>>
    \/ which = "import" /\ ImportNext /\ UNCHANGED <<which, profileVars, vars>>
    \/ which = "commands" /\ Next /\ UNCHANGED <<which, profileVars, importVars>>

\* Nothing has begun in the models that rest, so their fairness demands nothing.
MCSpec ==
    /\ MCInit /\ [][MCNext]_<<which, profileVars, importVars, vars>>
    /\ ProfileFairness /\ ImportFairness /\ Fairness
=============================================================================
