------------------------------ MODULE MCBridge ------------------------------
(* Instances of Bridge for TLC.                                            *)
EXTENDS Bridge, TLC

\* How often each fault may strike in a run.
NoFaults     == [f \in Faults |-> 0]
CleanerFaults == [NoFaults EXCEPT !["cleaner"] = 1]
CrashFaults  == [NoFaults EXCEPT !["relay"] = 1, !["daemon"] = 1]

\* Requests are interchangeable, and so are relays.
Symmetry == Permutations(Requests) \cup Permutations(Relays)

=============================================================================
