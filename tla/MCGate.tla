------------------------------- MODULE MCGate -------------------------------
(* Instances of Gate for TLC.                                              *)
EXTENDS Gate, TLC

\* References are interchangeable.
Symmetry == Permutations(Refs)

=============================================================================
