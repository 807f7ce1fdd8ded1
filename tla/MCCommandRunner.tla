-------------------------- MODULE MCCommandRunner ----------------------------
(* Small instances of CommandRunner: the constants that are functions. *)
EXTENDS CommandRunner

CONSTANTS c1, c2, c3, w1, app, run, k1, k2, h1, h2, f1

\* c1 and c2 are one command sent twice: the deletion of an application for
\* good, with its old file and its runs, which locks the application before the
\* run, the worker the other way about.  c3 uploads the same file with the same
\* key.
MCKeyOf == [q \in Commands |-> k1]
MCHashOf == [q \in Commands |-> IF q = c3 THEN h2 ELSE h1]
MCLoaderRows == [t \in Transactions |-> IF t \in {c1, c2} THEN <<app>> ELSE << >>]
MCHandlerRows == [t \in Transactions |->
    CASE t \in Publications -> <<run, app>>
      [] t \in {c1, c2} -> <<run>>
      [] OTHER -> << >>]
MCFileOf == [q \in Commands |-> f1]

\* finding_cleanup: c3 uploads the file of the deleted document again, with a key
\* of its own, after the deletion has come to its end.
MCOwnKeys == [q \in Commands |-> IF q = c3 THEN k2 ELSE k1]
UploadedLater ==
    Init /\ [][Next /\ (Send(c3) => phase[c1] = "done")]_vars

=============================================================================
