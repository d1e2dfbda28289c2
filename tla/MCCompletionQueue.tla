-------------------------- MODULE MCCompletionQueue --------------------------
(***************************************************************************)
(* Instances of CompletionQueue for TLC; the indices wrap around.          *)
(***************************************************************************)
EXTENDS CompletionQueue

=============================================================================
