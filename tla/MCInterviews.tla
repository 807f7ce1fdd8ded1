---------------------------- MODULE MCInterviews -----------------------------
(* Small instances of Interviews: bounds are given in the configurations.  *)
EXTENDS Interviews
=============================================================================
