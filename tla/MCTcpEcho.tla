------------------------------ MODULE MCTcpEcho ------------------------------
(***************************************************************************)
(* Instances of TcpEcho for TLC.                                           *)
(***************************************************************************)
EXTENDS TcpEcho

=============================================================================
