----------------------------- MODULE MCHookDedup -----------------------------
(* Model-checking instances of HookDedup: fires, sessions and bodies are     *)
(* interchangeable.                                                          *)
EXTENDS HookDedup, TLC

Symmetry == Permutations(Fires) \cup Permutations(Sessions) \cup Permutations(Bodies)

=============================================================================
