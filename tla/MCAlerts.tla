------------------------------ MODULE MCAlerts ------------------------------
(* Instances of Alerts for TLC.                                            *)
EXTENDS Alerts, TLC

\* Alerts are interchangeable.
Symmetry == Permutations(Ids)

=============================================================================
