--------------------------- MODULE MCOnePassword ----------------------------
(* Instances of OnePassword for TLC.                                       *)
EXTENDS OnePassword, TLC

CONSTANTS i1, i2, i3, t1, t2, l1, l2, v1, v2

Active(t, fs) == [status |-> "active", title |-> t, fields |-> fs, files |-> FALSE]
NoItem        == [status |-> "absent", title |-> t1, fields |-> <<>>, files |-> FALSE]

Field(l, v)     == [label |-> l, id |-> None, value |-> v]
BuiltIn(l, k, v) == [label |-> l, id |-> k, value |-> v]

MCIds    == {i1, i2, i3}
MCNames  == {t1, t2}
MCLabels == {l1, l2}
MCValues == {v1, v2}

\* An item with an attachment, a built-in field and another left empty, and two
\* items that share a value.
Keystore ==
    (i1 :> [Active(t1, <<BuiltIn(l1, l1, v1), BuiltIn(l2, None, Empty)>>)
                EXCEPT !.files = TRUE]) @@
    (i2 :> Active(t2, <<BuiltIn(None, l2, None)>>)) @@ (i3 :> NoItem)
Twins   ==
    (i1 :> Active(t1, <<Field(l1, v1)>>)) @@
    (i2 :> Active(t2, <<BuiltIn(l2, l1, v1)>>)) @@ (i3 :> NoItem)

TidyInitialVaults == {Keystore, Twins}
TwinVaults        == {Twins}

Symmetry == Permutations(Callers)

=============================================================================
