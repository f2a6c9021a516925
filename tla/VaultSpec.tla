----------------------------- MODULE VaultSpec ------------------------------
(***************************************************************************)
(* What the broker promises of a vault, whichever op commands its          *)
(* operations are made of and whichever of them fail: the vault changes at *)
(* one point of a call.  A call either makes an item with one field, adds  *)
(* one field to an active item that has no value under that label, or      *)
(* archives an item all of whose values are on another active item.        *)
(* Nothing is replaced, nothing is removed, and what is reported as        *)
(* written is what was just put in the vault.  All this until a call breaks  *)
(* it that another has overtaken on an item it names, for the broker has no  *)
(* lock: from then on anything goes.                                        *)
(***************************************************************************)

CONSTANTS Ids, Labels, Values, None

VARIABLES
    status,    \* of each item
    held,      \* its fields that hold a value
    acked,     \* values reported as written
    broken     \* has an overtaken call changed an item?

vars == <<status, held, acked, broken>>

Fields == [label : Labels \cup {None}, id : Labels \cup {None}, value : Values]

Held(i) == {f.value : f \in held[i]}

Init ==
    /\ status \in [Ids -> {"absent", "active"}]
    /\ held \in [Ids -> SUBSET Fields]
    /\ acked = {}
    /\ broken = FALSE

\* The caller is told, or it learns of a timeout only.
Tell(v) == acked' \in {acked, acked \cup {v}}

Make(i, f) ==
    /\ status[i] = "absent"
    /\ status' = [status EXCEPT ![i] = "active"]
    /\ held' = [held EXCEPT ![i] = {f}]
    /\ Tell(f.value)

Add(i, f) ==
    /\ status[i] = "active"
    /\ \A g \in held[i] : f.label \notin {g.label, g.id}
    /\ held' = [held EXCEPT ![i] = @ \cup {f}]
    /\ Tell(f.value)
    /\ UNCHANGED status

Retire(i) ==
    /\ status[i] = "active"
    /\ \E j \in Ids \ {i} : status[j] = "active" /\ Held(i) \subseteq Held(j)
    /\ status' = [status EXCEPT ![i] = "archived"]
    /\ UNCHANGED <<held, acked>>

Change(i) == (\E f \in Fields : Make(i, f) \/ Add(i, f)) \/ Retire(i)

Next ==
    \/ ~broken /\ broken' = broken /\ \E i \in Ids : Change(i)
    \/ broken'

Spec == Init /\ [][Next]_vars

=============================================================================
