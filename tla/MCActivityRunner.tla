--------------------------- MODULE MCActivityRunner ---------------------------
(* Small instances of ActivityRunner. *)
EXTENDS ActivityRunner

CONSTANTS w1, w2, e1, e2, e3

\* Two threads in the first process, one in the second.
MCPool     == [e \in Executors |-> IF e = e3 THEN w2 ELSE w1]
\* The first activity blocks when it is exhausted, the second falls back.
MCPolicies == [a \in Activities |-> IF a = 1 THEN "block" ELSE "fallback"]
=============================================================================
