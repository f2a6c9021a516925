------------------------------ MODULE MCKeeper ------------------------------
(* Instances of Keeper for TLC.                                            *)
EXTENDS Keeper, TLC

CONSTANTS u1, u2, big, small, f, v1, v2

\* Two titles that differ in case only.
MCTitles == {big, small}
MCLower  == [t \in MCTitles |-> small]

MCEntry(v) == [name |-> f, value |-> v]

\* A record without the field, and one whose first entry of that name is empty,
\* with two values under one name after it.
MCRecords ==
    {[typed |-> <<>>, flat |-> <<>>, custom |-> <<>>],
     [typed |-> <<MCEntry(None)>>, flat |-> <<MCEntry(v1)>>,
      custom |-> <<MCEntry(v2)>>]}

Symmetry ==
    Permutations(Callers) \cup Permutations(Uids) \cup Permutations(Places)

=============================================================================
