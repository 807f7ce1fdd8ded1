-------------------------- MODULE MCWorkflowRuntime --------------------------
(* Small instances of WorkflowRuntime: the constants that are functions. *)
EXTENDS WorkflowRuntime

CONSTANTS r1, r2, w1, w2, w3, t1, t2, t3

\* Two threads in the first process, one in the second.
MCProcessOf == [t \in Threads |-> IF t = t3 THEN w2 ELSE w1]
\* One thread per process.
MCSingleThreaded ==
    [t \in Threads |-> IF t = t1 THEN w1 ELSE IF t = t2 THEN w2 ELSE w3]
\* All runs are about the same candidate or application,
MCOneSubject == [r \in Runs |-> "subject"]
\* and are of different workflow types.
MCOwnKind == [r \in Runs |-> r]
MCAllSupported == [w \in Workers |-> Runs]
\* A rolling deployment: the third process no longer has the first run's plan.
MCRolling == [w \in Workers |-> IF w = w3 THEN Runs \ {r1} ELSE Runs]
=============================================================================
