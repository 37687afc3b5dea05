------------------------------ MODULE MCSender ------------------------------
(* Model-checking instances of Sender: the symmetry of the fires, sound     *)
(* in the runs without liveness properties.                                *)
EXTENDS Sender, TLC

Symmetry == Permutations(Fires)

=============================================================================
