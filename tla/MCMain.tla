------------------------------- MODULE MCMain -------------------------------
(* Main for TLC.                                                           *)
EXTENDS Main, TLC

\* Instances differ in their name only.
InstanceSymmetry == Permutations(Instances)
=============================================================================
