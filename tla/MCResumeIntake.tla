--------------------------- MODULE MCResumeIntake ----------------------------
(* Small instances of ResumeIntake. *)
EXTENDS ResumeIntake, TLC

CONSTANTS c1, c2

\* Nothing depends on which candidate record an upload creates.
MCSymmetry == Permutations(Candidates)
=============================================================================
