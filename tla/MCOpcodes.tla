------------------------------ MODULE MCOpcodes ------------------------------
(* Opcodes with its builders chosen for TLC.                                *)
EXTENDS Opcodes

MCReadMulti == {"ReadMulti"}
=============================================================================
