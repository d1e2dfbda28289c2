-------------------------- MODULE MCSubmissionQueue --------------------------
(***************************************************************************)
(* Instances of SubmissionQueue for TLC.  The indices are small, so every  *)
(* run goes through their wrap-around many times.                          *)
(***************************************************************************)
EXTENDS SubmissionQueue


=============================================================================
