----------------------------- MODULE MCLeakAlarm -----------------------------
(* Instances of LeakAlarm for TLC.                                         *)
EXTENDS LeakAlarm, TLC

\* Hooks are interchangeable, and so are credentials.
Symmetry == Permutations(Hooks) \cup Permutations(Tokens)

=============================================================================
