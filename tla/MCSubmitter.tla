----------------------------- MODULE MCSubmitter -----------------------------
(***************************************************************************)
(* Instances of Submitter for TLC: rings of two slots, indices that wrap    *)
(* around, and at most MaxWork requests outstanding.                       *)
(***************************************************************************)
EXTENDS Submitter

=============================================================================
