------------------------------ MODULE MCPairing ------------------------------
(* Model-checking instances of Pairing.                                     *)
EXTENDS Pairing

=============================================================================
