----------------------------- MODULE MCInstall -----------------------------
(* A small instance of Install for TLC: the bare name and two paths a CLI   *)
(* may live at, which nothing but the bare name distinguishes.              *)
EXTENDS Install

Paths == Permutations(Launchers \ {Bare})

=============================================================================
