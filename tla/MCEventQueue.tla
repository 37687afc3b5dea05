---------------------------- MODULE MCEventQueue ----------------------------
(* Model-checking instances of EventQueue: the symmetry of the processes    *)
(* and of the events, sound in the runs without liveness properties.        *)
EXTENDS EventQueue, TLC

Symmetry == Permutations(Procs) \cup Permutations(Events)

=============================================================================
