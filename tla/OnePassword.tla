---------------------------- MODULE OnePassword -----------------------------
(***************************************************************************)
(* The three operations of sandbroker/onepassword.py that change a vault:  *)
(* write (the tool store), copy and archive.  None of them is atomic: each *)
(* is a sequence of invocations of the op command line, and the daemon     *)
(* serves every connection from a thread of its own, so that the           *)
(* invocations of several calls interleave.                                *)
(*                                                                         *)
(* 1Password itself is external and is modelled from how the code uses it: *)
(* `op item get NAME` finds an active item by its id or by an unambiguous  *)
(* title, `item create` and `item edit` make the item what the JSON        *)
(* template says, `item delete --archive` archives by id.                  *)
(***************************************************************************)
EXTENDS Naturals, Sequences, FiniteSets

CONSTANTS
    Callers,        \* threads of the daemon that serve a tool call
    Ids,            \* item ids, those of items still to be created included
    Names,          \* how callers name an item: an id or a title
    Labels,         \* names of fields: labels, and ids that serve as names
    Values,         \* secret values; a value stands for its fingerprint too
    Empty,          \* the empty string as a value
    None,           \* no value, no label, an id that op made up; no snapshot
    DefaultField,   \* the field parse_ref supplies when a reference has none
    InitialVaults,  \* what the vault may hold to begin with
    OpFails,        \* may an op command time out?
    MaxCalls        \* bound on the calls of a behaviour

Entries == [label : Labels \cup {None}, id : Labels \cup {None},
            value : Values \cup {Empty, None}]

Items == [status : {"absent", "active", "archived"},
          title  : Names,
          fields : Seq(Entries),
          files  : BOOLEAN]

ASSUME NoneAssumption    ==
    None \notin Values \cup Labels /\ Empty \notin Values \cup {None}
ASSUME FieldAssumption   == DefaultField \in Labels
ASSUME OpFailsAssumption == OpFails \in BOOLEAN
ASSUME CallsAssumption   == MaxCalls \in Nat
ASSUME InitialAssumption == InitialVaults \subseteq [Ids -> Items]

VARIABLES
    vault,      \* the items by id
    pc,         \* the op command each caller invokes next
    job,        \* its arguments: two references and a value
    snap,       \* the item its last `op item get` returned
    acked,      \* values whose storing or copying was reported as done
    calls,      \* calls so far
    overtaken,  \* calls under whose hands another changed an item they name
    raced       \* has such a call edited or archived an item?

programVars == <<vault, pc, job, snap, acked, calls>>
historyVars == <<overtaken, raced>>
vars == <<programVars, historyVars>>

Jobs == [item : Names, field : Labels, other : Names, otherField : Labels,
         value : Values \cup {None}]

Snapshots == [id : Ids, title : Names, fields : Seq(Entries), files : BOOLEAN]

Steps == {"idle", "copyRead", "writeGet", "create", "edit",
          "archiveGet", "archiveCheck", "delete"}

TypeOK ==
    /\ vault \in [Ids -> Items]
    /\ pc \in [Callers -> Steps]
    /\ job \in [Callers -> Jobs \cup {None}]
    /\ snap \in [Callers -> Snapshots \cup {None}]
    /\ acked \subseteq Values
    /\ calls \in 0..MaxCalls
    /\ overtaken \subseteq Callers
    /\ raced \in BOOLEAN

Init ==
    /\ vault \in InitialVaults
    /\ pc = [p \in Callers |-> "idle"]
    /\ job = [p \in Callers |-> None]
    /\ snap = [p \in Callers |-> None]
    /\ acked = {}
    /\ calls = 0
    /\ overtaken = {} /\ raced = FALSE

-----------------------------------------------------------------------------
(* Looking at items and fields.                                            *)

\* Active items that op finds under a name.
Under(v, n) == {i \in Ids : v[i].status = "active" /\ n \in {i, v[i].title}}

Lookup(n) == Under(vault, n)

\* `op item get` finds one item, or fails: there is none, the title is
\* ambiguous, or op itself failed.
Found(n, i) == Lookup(n) = {i}
NotFound(n) == OpFails \/ \A i \in Ids : Lookup(n) # {i}

ItemJson(i) == [id |-> i, title |-> vault[i].title,
                fields |-> vault[i].fields, files |-> vault[i].files]

\* A field is named by its label or its id.
Named(e, l) == l \in {e.label, e.id}

\* Positions of the fields that hold a value.
PopulatedAt(fs) == {k \in DOMAIN fs : fs[k].value \in Values}

Populated(fs) == {fs[k] : k \in PopulatedAt(fs)}

ValuesOf(fs) == {fs[k].value : k \in PopulatedAt(fs)}

\* _field_with_type: the first field of that name whose value is not None, which
\* may be empty.
FirstNamed(fs, l, v) ==
    LET valued == {k \in DOMAIN fs : Named(fs[k], l) /\ fs[k].value # None} IN
    \E k \in valued : fs[k].value = v /\ \A j \in valued : k <= j

\* _populated_values: a dictionary by label, or by id where that is empty, of
\* which the last field stays.  An id that op made up is like no other.
Key(e) == IF e.label # None THEN e.label ELSE e.id

DictValues(fs) ==
    {fs[k].value : k \in {k \in PopulatedAt(fs) :
        \A j \in PopulatedAt(fs) :
            Key(fs[k]) # None /\ Key(fs[j]) = Key(fs[k]) => j <= k}}

-----------------------------------------------------------------------------
(* The calls.                                                              *)

Begin(p, step, n, l, m, k, v) ==
    /\ pc[p] = "idle" /\ calls < MaxCalls
    /\ calls' = calls + 1
    /\ pc' = [pc EXCEPT ![p] = step]
    /\ job' = [job EXCEPT ![p] = [item |-> n, field |-> l, other |-> m,
                                  otherField |-> k, value |-> v]]
    /\ UNCHANGED <<vault, snap, acked>>

\* _tool_store has a value to write.
Store(p, n, l, v) == Begin(p, "writeGet", n, l, n, l, v)

\* copy refuses to copy a reference onto itself.
Copy(p, n, l, m, k) ==
    /\ <<n, l>> # <<m, k>>
    /\ Begin(p, "copyRead", m, k, n, l, None)

\* archive looks only at the item part of its two references.
Archive(p, n, m) == Begin(p, "archiveGet", n, DefaultField, m, DefaultField, None)

\* The call returns, with a result or with an error.
Return(p) ==
    /\ pc' = [pc EXCEPT ![p] = "idle"]
    /\ job' = [job EXCEPT ![p] = None]
    /\ snap' = [snap EXCEPT ![p] = None]

Fail(p) == Return(p) /\ UNCHANGED <<vault, acked, calls>>

\* copy reads the source and goes on as write, which refuses an empty value.
CopyRead(p) ==
    /\ pc[p] = "copyRead"
    /\ \E i \in Ids, v \in Values :
         /\ Found(job[p].other, i)
         /\ FirstNamed(vault[i].fields, job[p].otherField, v)
         /\ pc' = [pc EXCEPT ![p] = "writeGet"]
         /\ job' = [job EXCEPT ![p].value = v]
    /\ UNCHANGED <<vault, snap, acked, calls>>

CopyReadFail(p) ==
    /\ pc[p] = "copyRead"
    /\ \/ NotFound(job[p].other)
       \/ \E i \in Ids : /\ Found(job[p].other, i)
                         /\ \A v \in Values :
                               ~FirstNamed(vault[i].fields, job[p].otherField, v)
    /\ Fail(p)

\* Mutant: write does not look whether the field is free.
WriteGetUnchecked(p) ==
    /\ pc[p] = "writeGet"
    /\ \E i \in Ids : /\ Found(job[p].item, i)
                      /\ snap' = [snap EXCEPT ![p] = ItemJson(i)]
    /\ pc' = [pc EXCEPT ![p] = "edit"]
    /\ UNCHANGED <<vault, job, acked, calls>>

\* write finds the item and the field free: it prepares the edited template.
WriteGet(p) ==
    /\ pc[p] = "writeGet"
    /\ \E i \in Ids :
         /\ Found(job[p].item, i)
         /\ \A e \in Populated(vault[i].fields) : ~Named(e, job[p].field)
         /\ snap' = [snap EXCEPT ![p] = ItemJson(i)]
    /\ pc' = [pc EXCEPT ![p] = "edit"]
    /\ UNCHANGED <<vault, job, acked, calls>>

\* The field already holds a value: create-or-add only.
WriteRefuse(p) ==
    /\ pc[p] = "writeGet"
    /\ \E i \in Ids :
         /\ Found(job[p].item, i)
         /\ \E e \in Populated(vault[i].fields) : Named(e, job[p].field)
    /\ Fail(p)

\* _item_json is None, whatever the reason: write goes on to create the item.
WriteGetNone(p) ==
    /\ pc[p] = "writeGet" /\ NotFound(job[p].item)
    /\ pc' = [pc EXCEPT ![p] = "create"]
    /\ UNCHANGED <<vault, job, snap, acked, calls>>

NewField(p) == [label |-> job[p].field, id |-> None, value |-> job[p].value]

\* A write that op carried out: reported as done, or as timed out.
Done(p) ==
    /\ Return(p)
    /\ \/ acked' = acked \cup {job[p].value}
       \/ OpFails /\ acked' = acked
    /\ UNCHANGED calls

Create(p) ==
    /\ pc[p] = "create"
    /\ \E i \in Ids :
         /\ vault[i].status = "absent"
         /\ vault' = [vault EXCEPT ![i] = [status |-> "active",
                        title |-> job[p].item, fields |-> <<NewField(p)>>,
                        files |-> FALSE]]
    /\ Done(p)

\* Mutant: the template has only the new field.
EditAlone(p) ==
    /\ pc[p] = "edit"
    /\ \E i \in Ids :
         /\ Found(job[p].item, i)
         /\ vault' = [vault EXCEPT ![i].fields = <<NewField(p)>>]
    /\ Done(p)

\* op finds the item by its name again and makes it what the template says.
Edit(p) ==
    /\ pc[p] = "edit"
    /\ \E i \in Ids :
         /\ Found(job[p].item, i)
         /\ vault' = [vault EXCEPT
                        ![i].title = snap[p].title,
                        ![i].fields = Append(snap[p].fields, NewField(p))]
    /\ Done(p)

\* Mutant: the return code of op is not looked at.
WriteFailUnseen(p) ==
    /\ \/ pc[p] = "create" /\ OpFails
       \/ pc[p] = "edit" /\ NotFound(job[p].item)
    /\ Return(p)
    /\ acked' = acked \cup {job[p].value}
    /\ UNCHANGED <<vault, calls>>

\* op does nothing: the item is gone or ambiguous by now, or op failed.
WriteFail(p) ==
    /\ \/ pc[p] = "create" /\ OpFails
       \/ pc[p] = "edit" /\ NotFound(job[p].item)
    /\ Fail(p)

\* archive fetches the item to retire ...
ArchiveGet(p) ==
    /\ pc[p] = "archiveGet"
    /\ \E i \in Ids : /\ Found(job[p].item, i)
                      /\ snap' = [snap EXCEPT ![p] = ItemJson(i)]
    /\ pc' = [pc EXCEPT ![p] = "archiveCheck"]
    /\ UNCHANGED <<vault, job, acked, calls>>

ArchiveGetFail(p) ==
    /\ pc[p] = "archiveGet" /\ NotFound(job[p].item)
    /\ Fail(p)

\* Mutant: one matching value is enough.
SupersededInPart(s, i) ==
    /\ s.id # i /\ ~s.files
    /\ DictValues(s.fields) \cap DictValues(vault[i].fields) # {}

\* ... and the item said to supersede it, on which every value must be found.
Superseded(s, i) ==
    /\ s.id # i /\ ~s.files
    /\ DictValues(s.fields) # {}
    /\ DictValues(s.fields) \subseteq DictValues(vault[i].fields)

ArchiveCheck(p) ==
    /\ pc[p] = "archiveCheck"
    /\ \E i \in Ids : Found(job[p].other, i) /\ Superseded(snap[p], i)
    /\ pc' = [pc EXCEPT ![p] = "delete"]
    /\ UNCHANGED <<vault, job, snap, acked, calls>>

ArchiveRefuse(p) ==
    /\ pc[p] = "archiveCheck"
    /\ \/ NotFound(job[p].other)
       \/ \E i \in Ids : Found(job[p].other, i) /\ ~Superseded(snap[p], i)
    /\ Fail(p)

Delete(p) ==
    /\ pc[p] = "delete"
    /\ vault[snap[p].id].status = "active"
    /\ vault' = [vault EXCEPT ![snap[p].id].status = "archived"]
    /\ Return(p)
    /\ UNCHANGED <<acked, calls>>

DeleteFail(p) ==
    /\ pc[p] = "delete"
    /\ OpFails \/ vault[snap[p].id].status # "active"
    /\ Fail(p)

-----------------------------------------------------------------------------
Start(p) ==
    \/ \E n \in Names, l \in Labels, v \in Values : Store(p, n, l, v)
    \/ \E n, m \in Names, l, k \in Labels : Copy(p, n, l, m, k)
    \/ \E n, m \in Names : Archive(p, n, m)

Step(p) ==
    \/ CopyRead(p) \/ CopyReadFail(p)
    \/ WriteGet(p) \/ WriteRefuse(p) \/ WriteGetNone(p)
    \/ Create(p) \/ Edit(p) \/ WriteFail(p)
    \/ ArchiveGet(p) \/ ArchiveGetFail(p)
    \/ ArchiveCheck(p) \/ ArchiveRefuse(p)
    \/ Delete(p) \/ DeleteFail(p)

-----------------------------------------------------------------------------
(* Which calls are overtaken by others.  No step of the program looks at it. *)

\* What op shows of the items that a call names.
Shown(v, j) == [n \in {j.item, j.other} |-> [i \in Under(v, n) |-> v[i]]]

\* Caller p takes a step; it may change an item that another call names.
Watch(p) ==
    /\ overtaken' = {q \in Callers :
         /\ pc[q] # "idle" /\ pc'[q] # "idle"
         /\ q \in overtaken \/ (q # p /\ Shown(vault', job[q]) # Shown(vault, job[q]))}
    /\ raced' = (raced \/ (p \in overtaken /\ pc[p] \in {"edit", "delete"}
                                           /\ ~UNCHANGED <<vault, acked>>))

Next == \E p \in Callers : (Start(p) \/ Step(p)) /\ Watch(p)

Spec == Init /\ [][Next]_vars

-----------------------------------------------------------------------------
(* Properties.                                                             *)

\* write never overwrites and never drops: whatever field of an item holds a
\* value keeps it, through edits and in the archive.
CreateOrAddOnly ==
    [][\A i \in Ids : vault[i].status # "absent" =>
          Populated(vault[i].fields) \subseteq Populated(vault'[i].fields)]_vars

\* The same of every step but those of calls that were overtaken: calls on other
\* items, in whatever order their op commands interleave, take nothing away.
CreateOrAddApart ==
    [][\A i \in Ids : vault[i].status # "absent" =>
          \/ Populated(vault[i].fields) \subseteq Populated(vault'[i].fields)
          \/ raced']_vars

\* No name of a field is that of two values, of which a reference could only
\* ever mean one.
OneValue(fs) ==
    \A j, k \in PopulatedAt(fs) :
        (\E l \in Labels : Named(fs[j], l) /\ Named(fs[k], l)) => j = k

OneValuePerField == raced \/ \A i \in Ids : OneValue(vault[i].fields)

Survives(v) ==
    \E i \in Ids : vault[i].status = "active" /\ v \in ValuesOf(vault[i].fields)

\* archive retires no value: what an archived item holds, an active one holds
\* ("this cannot retire anything it has not first shown to be redundant").
RetiredValuesSurvive ==
    \A i \in Ids : vault[i].status = "archived" =>
        \A v \in ValuesOf(vault[i].fields) : Survives(v)

\* The same as long as no overtaken call has edited or archived anything,
\* whatever else the callers do at the same time.
ArchiveKeepsValues == raced \/ RetiredValuesSurvive

\* A value whose storing was acknowledged, with its fingerprint, stays in the
\* vault, in an active item, as long as no overtaken call edits or archives.
AcknowledgedValuesSurvive == raced \/ \A v \in acked : Survives(v)

\* The calls implement the atomic operations of VaultSpec, however their op
\* commands interleave, until an overtaken call edits or archives an item.  An
\* item's title, the order of its fields and those left empty are not part of it.
Atomic == INSTANCE VaultSpec WITH
            status <- [i \in Ids |-> vault[i].status],
            held   <- [i \in Ids |-> Populated(vault[i].fields)],
            broken <- raced

ImplementsVault == Atomic!Spec

=============================================================================
