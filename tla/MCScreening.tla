---------------------------- MODULE MCScreening ------------------------------
(* Small instances of Screening. *)
EXTENDS Screening

CONSTANTS a1, a2
=============================================================================
