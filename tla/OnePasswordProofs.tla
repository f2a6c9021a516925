------------------------- MODULE OnePasswordProofs --------------------------
(***************************************************************************)
(* What holds of OnePassword for any items, names, labels, values, callers *)
(* and number of calls: its types, and the promises of write, copy and     *)
(* archive for as long as no call that another overtook edits or archives  *)
(* an item, however the op commands of the calls interleave.               *)
(***************************************************************************)
EXTENDS OnePassword, TLAPS

-----------------------------------------------------------------------------
(* Types.  What a step of a call reads was set by the steps before it.     *)

JobReady ==
    \A p \in Callers :
        /\ pc[p] # "idle" => job[p] \in Jobs
        /\ pc[p] \in {"writeGet", "create", "edit"} => job[p].value \in Values
        /\ pc[p] \in {"edit", "archiveCheck", "delete"} => snap[p] \in Snapshots

Typed == TypeOK /\ JobReady

\* The type of the history.
Watched == overtaken \subseteq Callers /\ raced \in BOOLEAN

LEMMA WatchTyped ==
  ASSUME Typed, NEW p \in Callers, Watch(p)
  PROVE  Watched'
  BY DEF Watch, Watched, Typed, TypeOK

LEMMA ItemJsonType ==
  ASSUME TypeOK, NEW i \in Ids
  PROVE  ItemJson(i) \in Snapshots
  BY DEF TypeOK, Items, ItemJson, Snapshots

Edited(i, t, fs) == [vault EXCEPT ![i].title = t, ![i].fields = fs]

\* What an edit changes of the vault, item by item.
LEMMA EditedVault ==
  ASSUME vault \in [Ids -> Items], NEW i \in Ids, NEW t \in Names,
         NEW fs \in Seq(Entries),
         vault' = Edited(i, t, fs)
  PROVE  /\ vault' \in [Ids -> Items]
         /\ vault'[i].status = vault[i].status
         /\ vault'[i].title = t
         /\ vault'[i].fields = fs
         /\ \A j \in Ids \ {i} : vault'[j] = vault[j]
  <1> DEFINE retitled == [vault EXCEPT ![i].title = t]
  <1>1. /\ retitled \in [Ids -> Items]
        /\ retitled[i].status = vault[i].status /\ retitled[i].title = t
        /\ \A j \in Ids \ {i} : retitled[j] = vault[j]
    BY DEF Items
  <1>2. vault' = [retitled EXCEPT ![i].fields = fs]
    BY DEF Edited
  <1> HIDE DEF retitled
  <1>3. vault'[i] = [retitled[i] EXCEPT !.fields = fs]
    BY <1>1, <1>2
  <1>4. \A j \in Ids \ {i} : vault'[j] = retitled[j]
    BY <1>1, <1>2
  <1>5. retitled[i] \in Items
    BY <1>1
  <1>6. vault'[i] \in Items
    BY <1>3, <1>5 DEF Items
  <1>7. vault'[i].status = retitled[i].status /\ vault'[i].title = retitled[i].title
    BY <1>3, <1>5 DEF Items
  <1>8. vault'[i].fields = fs
    BY <1>3, <1>5 DEF Items
  <1>9. vault' \in [Ids -> Items]
    BY <1>1, <1>2, <1>4, <1>6
  <1> QED
    BY <1>1, <1>4, <1>7, <1>8, <1>9

LEMMA TypedInit == Init => Typed
  <1> SUFFICES ASSUME Init PROVE Typed
    OBVIOUS
  <1>1. overtaken \subseteq Callers /\ raced \in BOOLEAN
    BY DEF Init
  <1>2. calls \in 0..MaxCalls
    BY CallsAssumption DEF Init
  <1> QED
    BY <1>1, <1>2, InitialAssumption DEF Init, Typed, TypeOK, JobReady, Steps

\* A returning call leaves nothing behind that would have to be ready.
LEMMA ReturnTyped ==
  ASSUME Typed, NEW p \in Callers, Return(p), Watched',
         vault' \in [Ids -> Items], acked' \subseteq Values, calls' = calls
  PROVE  Typed'
  BY DEF Watched, Typed, TypeOK, JobReady, Return, Steps

LEMMA DoneTyped ==
  ASSUME Typed, NEW p \in Callers, Done(p), Watched', vault' \in [Ids -> Items],
         job[p].value \in Values
  PROVE  Typed'
  <1>1. acked' \subseteq Values
    BY DEF Done, Typed, TypeOK
  <1> QED
    BY <1>1, ReturnTyped DEF Done

LEMMA TypedStep == Typed /\ [Next]_vars => Typed'
  <1> SUFFICES ASSUME Typed, [Next]_vars
               PROVE  Typed'
    OBVIOUS
  <1> USE DEF Watched
  <1>1. ASSUME NEW p \in Callers, Start(p), Watch(p) PROVE Typed'
    <2> Watched'
      BY <1>1, WatchTyped
    <2>1. PICK step \in {"writeGet", "copyRead", "archiveGet"},
               n \in Names, l \in Labels, m \in Names, k \in Labels,
               v \in Values \cup {None} :
            /\ Begin(p, step, n, l, m, k, v)
            /\ step = "writeGet" => v \in Values
      BY <1>1, FieldAssumption DEF Start, Store, Copy, Archive
    <2> QED
      BY <2>1, CallsAssumption DEF Begin, Typed, TypeOK, JobReady, Jobs, Steps
  <1>2. ASSUME NEW p \in Callers, Step(p), Watch(p) PROVE Typed'
    <2> Watched'
      BY <1>2, WatchTyped
    <2>0. CASE Fail(p)
      BY <2>0, ReturnTyped DEF Fail, Typed, TypeOK
    <2>1. CASE CopyRead(p)
      <3>1. PICK v \in Values : /\ pc' = [pc EXCEPT ![p] = "writeGet"]
                                /\ job' = [job EXCEPT ![p].value = v]
        BY <2>1 DEF CopyRead
      <3>2. job[p] \in Jobs
        BY <2>1 DEF CopyRead, Typed, JobReady
      <3>3. job'[p] \in Jobs /\ job'[p].value = v
        BY <3>1, <3>2 DEF Jobs, Typed, TypeOK
      <3> QED
        BY <2>1, <3>1, <3>3 DEF CopyRead, Typed, TypeOK, JobReady, Steps
    <2>2. CASE WriteGet(p)
      BY <2>2, ItemJsonType DEF WriteGet, Typed, TypeOK, JobReady, Steps
    <2>3. CASE WriteGetNone(p)
      BY <2>3 DEF WriteGetNone, Typed, TypeOK, JobReady, Steps
    <2>4. CASE Create(p)
      <3>1. job[p] \in Jobs /\ job[p].value \in Values
        BY <2>4 DEF Create, Typed, JobReady
      <3>2. PICK i \in Ids : vault' = [vault EXCEPT ![i] =
                [status |-> "active", title |-> job[p].item,
                 fields |-> <<NewField(p)>>, files |-> FALSE]]
        BY <2>4 DEF Create
      <3>3. NewField(p) \in Entries
        BY <3>1 DEF NewField, Entries, Jobs
      <3>4. vault' \in [Ids -> Items]
        BY <3>1, <3>2, <3>3 DEF Typed, TypeOK, Items, Jobs
      <3> QED
        BY <2>4, <3>1, <3>4, DoneTyped DEF Create
    <2>5. CASE Edit(p)
      <3>1. /\ job[p] \in Jobs /\ job[p].value \in Values
            /\ snap[p] \in Snapshots
        BY <2>5 DEF Edit, Typed, JobReady
      <3>2. PICK i \in Ids :
              vault' = Edited(i, snap[p].title, Append(snap[p].fields, NewField(p)))
        BY <2>5 DEF Edit, Edited
      <3>3. NewField(p) \in Entries
        BY <3>1 DEF NewField, Entries, Jobs
      <3>4. Append(snap[p].fields, NewField(p)) \in Seq(Entries)
        BY <3>1, <3>3 DEF Snapshots
      <3>5. vault' \in [Ids -> Items]
        BY <3>1, <3>2, <3>4, EditedVault DEF Typed, TypeOK, Snapshots
      <3> QED
        BY <2>5, <3>1, <3>5, DoneTyped DEF Edit
    <2>6. CASE ArchiveGet(p)
      BY <2>6, ItemJsonType DEF ArchiveGet, Typed, TypeOK, JobReady, Steps
    <2>7. CASE ArchiveCheck(p)
      BY <2>7 DEF ArchiveCheck, Typed, TypeOK, JobReady, Steps
    <2>8. CASE Delete(p)
      <3>1. vault' \in [Ids -> Items]
        BY <2>8 DEF Delete, Typed, TypeOK, Items
      <3> QED
        BY <2>8, <3>1, ReturnTyped DEF Delete, Typed, TypeOK
    <2> QED
      BY <1>2, <2>0, <2>1, <2>2, <2>3, <2>4, <2>5, <2>6, <2>7, <2>8
      DEF Step, CopyReadFail, WriteRefuse, WriteFail, ArchiveGetFail,
          ArchiveRefuse, DeleteFail
  <1>3. CASE UNCHANGED vars
    BY <1>3 DEF vars, programVars, historyVars, Typed, TypeOK, JobReady
  <1> QED
    BY <1>1, <1>2, <1>3 DEF Next

\* Every variable keeps its type, and every step finds the arguments and the
\* snapshot it needs, with any number of overlapping calls.
THEOREM TypedHolds == Spec => []Typed
  <1> QED
    BY TypedInit, TypedStep, PTL DEF Spec

\* The type invariant that the runs check.
THEOREM TypeCorrect == Spec => []TypeOK
  <1>1. Typed => TypeOK
    BY DEF Typed
  <1> QED
    BY <1>1, TypedHolds, PTL

-----------------------------------------------------------------------------
(* Sequences of fields.                                                    *)

\* No field that holds a value has a name of entry e.
NewTo(e, fs) ==
    \A x \in Populated(fs), l \in Labels : Named(x, l) => ~Named(e, l)

\* Adding a field that holds a value adds one entry, and one value.
LEMMA AppendField ==
  ASSUME NEW fs \in Seq(Entries), NEW e \in Entries, e.value \in Values
  PROVE  /\ Populated(Append(fs, e)) = Populated(fs) \cup {e}
         /\ ValuesOf(Append(fs, e)) = ValuesOf(fs) \cup {e.value}
         /\ OneValue(fs) /\ NewTo(e, fs) => OneValue(Append(fs, e))
  <1> DEFINE gs == Append(fs, e)
  <1>1. /\ DOMAIN gs = DOMAIN fs \cup {Len(fs) + 1}
        /\ \A k \in DOMAIN fs : gs[k] = fs[k]
        /\ gs[Len(fs) + 1] = e
        /\ Len(fs) + 1 \notin DOMAIN fs
    OBVIOUS
  <1> HIDE DEF gs
  <1>2. PopulatedAt(gs) = PopulatedAt(fs) \cup {Len(fs) + 1}
    BY <1>1 DEF PopulatedAt
  <1>3. \A k \in PopulatedAt(fs) : gs[k] = fs[k]
    BY <1>1 DEF PopulatedAt
  <1>4. Populated(gs) = Populated(fs) \cup {e}
    BY <1>1, <1>2, <1>3 DEF Populated
  <1>5. ValuesOf(gs) = ValuesOf(fs) \cup {e.value}
    BY <1>1, <1>2, <1>3 DEF ValuesOf
  <1>6. ASSUME OneValue(fs), NewTo(e, fs)
        PROVE  OneValue(gs)
    <2>1. \A k \in PopulatedAt(fs), l \in Labels :
             Named(gs[k], l) => ~Named(e, l)
      BY <1>3, <1>6 DEF NewTo, Populated
    <2> QED
      BY <1>1, <1>2, <1>3, <1>6, <2>1 DEF OneValue
  <1> QED
    BY <1>4, <1>5, <1>6 DEF gs

LEMMA SingleField ==
  ASSUME NEW e \in Entries, e.value \in Values
  PROVE  /\ Populated(<<e>>) = {e}
         /\ ValuesOf(<<e>>) = {e.value}
         /\ OneValue(<<e>>)
  BY DEF Populated, ValuesOf, PopulatedAt, OneValue

\* archive's dictionary by label or id sees every value of an item whose names are
\* distinct, and no value that the item does not have.
LEMMA DictIsComplete ==
  ASSUME NEW fs \in Seq(Entries)
  PROVE  /\ DictValues(fs) \subseteq ValuesOf(fs)
         /\ OneValue(fs) => DictValues(fs) = ValuesOf(fs)
  <1>1. \A k \in PopulatedAt(fs) : k \in Nat
    BY DEF PopulatedAt
  <1>2. DictValues(fs) \subseteq ValuesOf(fs)
    BY DEF DictValues, ValuesOf
  <1>3. ASSUME OneValue(fs) PROVE ValuesOf(fs) \subseteq DictValues(fs)
    <2>1. ASSUME NEW j \in PopulatedAt(fs), NEW k \in PopulatedAt(fs),
                 Key(fs[k]) # None, Key(fs[j]) = Key(fs[k])
          PROVE  j = k
      <3>0. fs[k] \in Entries
        BY DEF PopulatedAt
      <3>1. Key(fs[k]) \in Labels
        BY <2>1, <3>0 DEF Key, Entries
      <3>2. Named(fs[j], Key(fs[k])) /\ Named(fs[k], Key(fs[k]))
        BY <2>1 DEF Key, Named
      <3> QED
        BY <1>3, <3>1, <3>2 DEF OneValue
    <2> QED
      BY <1>1, <2>1 DEF DictValues, ValuesOf
  <1> QED
    BY <1>2, <1>3

-----------------------------------------------------------------------------
(* Calls that no other call has overtaken.                                 *)

\* What the vault holds to begin with: no field has two values under one name.
\* Items that were archived before are not among those the model watches.
TidyVaults ==
    \A v \in InitialVaults, i \in Ids :
        v[i].status # "archived" /\ OneValue(v[i].fields)

\* What a call in progress knows is still true.
SnapshotHolds(p) ==
    /\ pc[p] \in {"edit", "archiveCheck", "delete"} =>
         /\ Found(job[p].item, snap[p].id)
         /\ snap[p] = ItemJson(snap[p].id)
    /\ pc[p] = "edit" =>
         \A e \in Populated(snap[p].fields) : ~Named(e, job[p].field)
    /\ pc[p] = "delete" =>
         \E i \in Lookup(job[p].other) \ {snap[p].id} :
            ValuesOf(snap[p].fields) \subseteq ValuesOf(vault[i].fields)

\* The promises, and what carries them: the knowledge of calls not overtaken.
OneValueAll  == \A i \in Ids : OneValue(vault[i].fields)
AckedSurvive == \A v \in acked : Survives(v)

Kept == OneValueAll /\ RetiredValuesSurvive /\ AckedSurvive

Known == \A p \in Callers \ overtaken : SnapshotHolds(p)

ApartInv == raced \/ (Kept /\ Known)

LEMMA ApartInit ==
  ASSUME TidyVaults, Init
  PROVE  ApartInv
  BY DEF TidyVaults, Init, ApartInv, Kept, Known, SnapshotHolds, OneValueAll,
     RetiredValuesSurvive, AckedSurvive

\* As long as the vault stays the same and nothing is acknowledged, so do the
\* promises.
LEMMA KeptUnchanged ==
  ASSUME Kept, UNCHANGED <<vault, acked>>
  PROVE  Kept'
  BY DEF Kept, OneValueAll, RetiredValuesSurvive, Survives, AckedSurvive

\* A name that shows the same shows the same items, and the same of each.
LEMMA ShownSame ==
  ASSUME NEW j \in Jobs, NEW n \in {j.item, j.other},
         Shown(vault', j) = Shown(vault, j)
  PROVE  /\ Under(vault', n) = Under(vault, n)
         /\ \A i \in Under(vault, n) : vault'[i] = vault[i]
  <1> DEFINE now == [i \in Under(vault, n) |-> vault[i]]
             then == [i \in Under(vault', n) |-> vault'[i]]
  <1>1. Shown(vault, j)[n] = now /\ Shown(vault', j)[n] = then
    BY DEF Shown
  <1>2. now = then
    BY <1>1
  <1>3. DOMAIN now = Under(vault, n) /\ DOMAIN then = Under(vault', n)
    OBVIOUS
  <1>4. Under(vault', n) = Under(vault, n)
    BY <1>2, <1>3
  <1>5. \A i \in Under(vault, n) : now[i] = vault[i]
    OBVIOUS
  <1>6. \A i \in Under(vault', n) : then[i] = vault'[i]
    OBVIOUS
  <1> QED
    BY <1>2, <1>4, <1>5, <1>6

\* A step leaves the arguments and the snapshots of other calls alone.
LEMMA OthersStay ==
  ASSUME Typed, NEW p \in Callers, Start(p) \/ Step(p), NEW q \in Callers \ {p}
  PROVE  pc'[q] = pc[q] /\ job'[q] = job[q] /\ snap'[q] = snap[q]
  <1>1. CASE Start(p)
    BY <1>1 DEF Start, Store, Copy, Archive, Begin, Typed, TypeOK
  <1>2. CASE Return(p)
    BY <1>2 DEF Return, Typed, TypeOK
  <1>3. CASE CopyRead(p) \/ WriteGet(p) \/ WriteGetNone(p) \/ ArchiveGet(p)
             \/ ArchiveCheck(p)
    BY <1>3 DEF CopyRead, WriteGet, WriteGetNone, ArchiveGet, ArchiveCheck,
       Typed, TypeOK
  <1> QED
    BY <1>1, <1>2, <1>3 DEF Step, CopyReadFail, WriteRefuse, WriteFail,
       ArchiveGetFail, ArchiveRefuse, DeleteFail, Create, Edit, Delete, Done, Fail

\* A call that another step does not overtake knows afterwards what it knew.
LEMMA KnownStays ==
  ASSUME Typed, Known, NEW p \in Callers, Start(p) \/ Step(p), Watch(p),
         NEW q \in Callers \ overtaken', q # p
  PROVE  SnapshotHolds(q)'
  <1>1. pc'[q] = pc[q] /\ job'[q] = job[q] /\ snap'[q] = snap[q]
    BY OthersStay
  <1>2. CASE pc[q] = "idle"
    BY <1>1, <1>2 DEF SnapshotHolds
  <1>3. CASE pc[q] # "idle"
    <2>1. q \notin overtaken /\ Shown(vault', job[q]) = Shown(vault, job[q])
      BY <1>1, <1>3 DEF Watch
    <2>2. SnapshotHolds(q) /\ job[q] \in Jobs
      BY <1>3, <2>1 DEF Known, Typed, JobReady
    <2>3. /\ Lookup(job[q].item)' = Lookup(job[q].item)
          /\ \A i \in Lookup(job[q].item) : vault'[i] = vault[i]
      BY <1>1, <2>1, <2>2, ShownSame DEF Lookup
    <2>4. /\ Lookup(job[q].other)' = Lookup(job[q].other)
          /\ \A i \in Lookup(job[q].other) : vault'[i] = vault[i]
      BY <1>1, <2>1, <2>2, ShownSame DEF Lookup
    <2>5. ASSUME pc[q] \in {"edit", "archiveCheck", "delete"}
          PROVE  Found(job[q].item, snap[q].id)' /\ (snap[q] = ItemJson(snap[q].id))'
      <3>1. Lookup(job[q].item) = {snap[q].id} /\ snap[q] = ItemJson(snap[q].id)
        BY <2>2, <2>5 DEF SnapshotHolds, Found
      <3>2. vault'[snap[q].id] = vault[snap[q].id]
        BY <2>3, <3>1
      <3> QED
        BY <1>1, <2>3, <3>1, <3>2 DEF Found, ItemJson
    <2>6. ASSUME pc[q] = "delete"
          PROVE  (\E i \in Lookup(job[q].other) \ {snap[q].id} :
                    ValuesOf(snap[q].fields) \subseteq ValuesOf(vault[i].fields))'
      <3>1. PICK i \in Lookup(job[q].other) \ {snap[q].id} :
              ValuesOf(snap[q].fields) \subseteq ValuesOf(vault[i].fields)
        BY <2>2, <2>6 DEF SnapshotHolds
      <3> QED
        BY <1>1, <2>4, <3>1
    <2>7. (pc[q] = "edit" =>
             \A e \in Populated(snap[q].fields) : ~Named(e, job[q].field))'
      BY <1>1, <2>2 DEF SnapshotHolds
    <2> QED
      BY <1>1, <2>5, <2>6, <2>7 DEF SnapshotHolds
  <1> QED
    BY <1>2, <1>3

\* The vault only gained an item, or a value on an active item.
LEMMA KeptGrown ==
  ASSUME Typed, Kept, NEW p \in Callers, NEW i \in Ids,
         vault' \in [Ids -> Items],
         \A j \in Ids \ {i} : vault'[j] = vault[j],
         vault[i].status # "archived",
         vault'[i].status = "active",
         OneValue(vault'[i].fields),
         vault[i].status = "active" =>
            ValuesOf(vault[i].fields) \subseteq ValuesOf(vault'[i].fields),
         job[p].value \in ValuesOf(vault'[i].fields),
         acked' \subseteq acked \cup {job[p].value}
  PROVE  Kept'
  <1>1. ASSUME NEW v, Survives(v) PROVE Survives(v)'
    <2>1. PICK j \in Ids : /\ vault[j].status = "active"
                          /\ v \in ValuesOf(vault[j].fields)
      BY <1>1 DEF Survives
    <2>2. vault'[j].status = "active" /\ v \in ValuesOf(vault'[j].fields)
      BY <2>1
    <2> QED
      BY <2>2 DEF Survives
  <1>2. \E j \in Ids : /\ vault'[j].status = "active"
                       /\ job[p].value \in ValuesOf(vault'[j].fields)
    OBVIOUS
  <1>3. OneValueAll'
    BY DEF Kept, OneValueAll
  <1>4. RetiredValuesSurvive'
    BY <1>1 DEF Kept, RetiredValuesSurvive
  <1>5. AckedSurvive'
    <2> SUFFICES ASSUME NEW v \in acked' PROVE Survives(v)'
      BY DEF AckedSurvive
    <2>1. CASE v \in acked
      BY <1>1, <2>1 DEF Kept, AckedSurvive
    <2>2. CASE v = job[p].value
      BY <1>2, <2>2 DEF Survives
    <2> QED
      BY <2>1, <2>2
  <1> QED
    BY <1>3, <1>4, <1>5 DEF Kept

\* The field that a write adds, of a name that no other field has.
LEMMA NewFieldEntry ==
  ASSUME NEW p \in Callers, job[p] \in Jobs, job[p].value \in Values
  PROVE  /\ NewField(p) \in Entries
         /\ NewField(p).value = job[p].value
         /\ NewField(p).label = job[p].field
         /\ NewField(p).id = None
         /\ \A l \in Labels : Named(NewField(p), l) => l = job[p].field
  <1>1. job[p].field \in Labels
    BY DEF Jobs
  <1> QED
    BY <1>1, NoneAssumption DEF NewField, Entries, Named

\* The item that an edit changes is the one the call has looked at.
LEMMA EditTarget ==
  ASSUME Typed, NEW p \in Callers, SnapshotHolds(p), Edit(p)
  PROVE  \E i \in Ids, e \in Entries :
             /\ e.value = job[p].value /\ e.value \in Values
             /\ vault[i].status = "active"
             /\ e.label \in Labels /\ NewTo(e, vault[i].fields)
             /\ vault' \in [Ids -> Items]
             /\ vault'[i].status = "active"
             /\ vault'[i].fields = Append(vault[i].fields, e)
             /\ \A j \in Ids \ {i} : vault'[j] = vault[j]
  <1>1. /\ snap[p] \in Snapshots /\ job[p] \in Jobs /\ job[p].value \in Values
        /\ vault \in [Ids -> Items] /\ pc[p] = "edit"
    BY DEF Edit, Typed, TypeOK, JobReady
  <1>2. PICK i \in Ids :
          /\ Found(job[p].item, i)
          /\ vault' = Edited(i, snap[p].title,
                             Append(snap[p].fields, NewField(p)))
    BY DEF Edit, Edited
  <1>3. /\ vault[i].status = "active" /\ snap[p].fields = vault[i].fields
        /\ \A x \in Populated(vault[i].fields) : ~Named(x, job[p].field)
    <2>1. /\ Found(job[p].item, snap[p].id) /\ snap[p] = ItemJson(snap[p].id)
          /\ \A x \in Populated(snap[p].fields) : ~Named(x, job[p].field)
      BY <1>1 DEF SnapshotHolds
    <2>2. snap[p].id = i
      BY <1>2, <2>1 DEF Found
    <2>3. vault[i].status = "active"
      BY <1>2 DEF Found, Lookup, Under
    <2>4. snap[p].fields = vault[i].fields
      BY <2>1, <2>2 DEF ItemJson
    <2> QED
      BY <2>1, <2>3, <2>4
  <1>4. PICK e \in Entries :
          /\ e = NewField(p) /\ e.value = job[p].value /\ e.label = job[p].field
          /\ \A l \in Labels : Named(e, l) => l = job[p].field
    BY <1>1, NewFieldEntry
  <1>5. e.value \in Values /\ e.label \in Labels /\ NewTo(e, vault[i].fields)
    BY <1>1, <1>3, <1>4 DEF NewTo, Jobs
  <1>6. PICK t \in Names, fs \in Seq(Entries) :
          t = snap[p].title /\ fs = Append(snap[p].fields, e)
    <2>1. /\ snap[p].title \in Names
          /\ Append(snap[p].fields, e) \in Seq(Entries)
      BY <1>1 DEF Snapshots
    <2> QED
      BY <2>1
  <1>7. vault' = Edited(i, t, fs)
    BY <1>2, <1>4, <1>6
  <1>8. /\ vault' \in [Ids -> Items]
        /\ vault'[i].status = vault[i].status
        /\ vault'[i].fields = fs
        /\ \A j \in Ids \ {i} : vault'[j] = vault[j]
    BY <1>1, <1>7, EditedVault
  <1> WITNESS i \in Ids, e \in Entries
  <1> QED
    BY <1>3, <1>4, <1>5, <1>6, <1>8

\* No step breaks a promise, unless it edits or archives what has changed since.
LEMMA KeptStep ==
  ASSUME Typed, Kept, NEW p \in Callers, Start(p) \/ Step(p),
         pc[p] \in {"edit", "delete"} =>
            SnapshotHolds(p) \/ UNCHANGED <<vault, acked>>
  PROVE  Kept'
  <1>1. CASE UNCHANGED <<vault, acked>>
    BY <1>1, KeptUnchanged
  <1>2. CASE Create(p)
    <2>1. /\ job[p] \in Jobs /\ job[p].value \in Values
          /\ vault \in [Ids -> Items]
      BY <1>2 DEF Create, Typed, TypeOK, JobReady
    <2>2. PICK i \in Ids :
            /\ vault[i].status = "absent"
            /\ vault' = [vault EXCEPT ![i] =
                 [status |-> "active", title |-> job[p].item,
                  fields |-> <<NewField(p)>>, files |-> FALSE]]
      BY <1>2 DEF Create
    <2>3. NewField(p) \in Entries /\ NewField(p).value = job[p].value
      BY <2>1, NewFieldEntry
    <2>4. /\ vault'[i].status = "active"
          /\ vault'[i].fields = <<NewField(p)>>
          /\ \A j \in Ids \ {i} : vault'[j] = vault[j]
          /\ vault' \in [Ids -> Items]
      BY <2>1, <2>2, <2>3 DEF Items, Jobs
    <2>5. OneValue(vault'[i].fields) /\ job[p].value \in ValuesOf(vault'[i].fields)
      BY <2>1, <2>3, <2>4, SingleField
    <2>6. acked' \subseteq acked \cup {job[p].value}
      BY <1>2 DEF Create, Done
    <2> QED
      BY <2>2, <2>4, <2>5, <2>6, KeptGrown
  <1>3. CASE Edit(p) /\ SnapshotHolds(p)
    <2>1. PICK i \in Ids, e \in Entries :
          /\ e.value = job[p].value /\ e.value \in Values
          /\ vault[i].status = "active"
          /\ e.label \in Labels /\ NewTo(e, vault[i].fields)
          /\ vault' \in [Ids -> Items]
          /\ vault'[i].status = "active"
          /\ vault'[i].fields = Append(vault[i].fields, e)
          /\ \A j \in Ids \ {i} : vault'[j] = vault[j]
      BY <1>3, EditTarget
    <2>2. vault[i].fields \in Seq(Entries)
      BY <2>1 DEF Typed, TypeOK, Items
    <2>3. OneValue(vault[i].fields)
      BY <2>1 DEF Kept, OneValueAll
    <2>4. /\ OneValue(vault'[i].fields)
          /\ ValuesOf(vault'[i].fields) = ValuesOf(vault[i].fields) \cup {e.value}
      BY <2>1, <2>2, <2>3, AppendField
    <2>5. acked' \subseteq acked \cup {job[p].value}
      BY <1>3 DEF Edit, Done
    <2> QED
      BY <2>1, <2>4, <2>5, KeptGrown
  <1>4. CASE Delete(p) /\ SnapshotHolds(p)
    <2> DEFINE i == snap[p].id
    <2>1. /\ snap[p] \in Snapshots /\ vault[i].status = "active"
          /\ snap[p] = ItemJson(i) /\ pc[p] = "delete"
      BY <1>4 DEF Delete, Typed, JobReady, SnapshotHolds
    <2>2. i \in Ids /\ snap[p].fields = vault[i].fields
      BY <2>1 DEF Snapshots, ItemJson
    <2>3. PICK k \in Ids \ {i} :
            /\ vault[k].status = "active"
            /\ ValuesOf(vault[i].fields) \subseteq ValuesOf(vault[k].fields)
      BY <1>4, <2>1, <2>2 DEF SnapshotHolds, Lookup, Under
    <2>4. /\ vault'[i].status = "archived" /\ vault'[i].fields = vault[i].fields
          /\ \A j \in Ids \ {i} : vault'[j] = vault[j]
      BY <1>4, <2>2 DEF Delete, Typed, TypeOK, Items
    <2> HIDE DEF i
    <2>5. ASSUME NEW v, Survives(v) PROVE Survives(v)'
      <3>1. PICK j \in Ids : /\ vault[j].status = "active"
                            /\ v \in ValuesOf(vault[j].fields)
        BY <2>5 DEF Survives
      <3>2. CASE j = i
        <4>1. vault'[k].status = "active" /\ v \in ValuesOf(vault'[k].fields)
          BY <2>3, <2>4, <3>1, <3>2
        <4> QED
          BY <4>1 DEF Survives
      <3>3. CASE j # i
        <4>1. vault'[j].status = "active" /\ v \in ValuesOf(vault'[j].fields)
          BY <2>4, <3>1, <3>3
        <4> QED
          BY <4>1 DEF Survives
      <3> QED
        BY <3>2, <3>3
    <2>6. \A v \in ValuesOf(vault[i].fields) : Survives(v)
      BY <2>3 DEF Survives
    <2>7. \A j \in Ids : vault'[j].fields = vault[j].fields
      BY <2>4
    <2>8. OneValueAll'
      BY <2>7 DEF Kept, OneValueAll
    <2>9. RetiredValuesSurvive'
      <3> SUFFICES ASSUME NEW j \in Ids, vault'[j].status = "archived",
                          NEW v \in ValuesOf(vault[j].fields)
                   PROVE  Survives(v)'
        BY <2>7 DEF RetiredValuesSurvive
      <3>1. Survives(v)
        BY <2>4, <2>6 DEF Kept, RetiredValuesSurvive
      <3> QED
        BY <3>1, <2>5
    <2>10. AckedSurvive'
      <3>1. acked' = acked
        BY <1>4 DEF Delete
      <3> SUFFICES ASSUME NEW v \in acked PROVE Survives(v)'
        BY <3>1 DEF AckedSurvive
      <3>2. Survives(v)
        BY DEF Kept, AckedSurvive
      <3> QED
        BY <3>2, <2>5
    <2> QED
      BY <2>8, <2>9, <2>10 DEF Kept
  <1>5. Create(p) \/ Edit(p) \/ Delete(p) \/ UNCHANGED <<vault, acked>>
    BY DEF Start, Store, Copy, Archive, Begin, Step, CopyRead, CopyReadFail,
       WriteGet, WriteRefuse, WriteGetNone, WriteFail, ArchiveGet,
       ArchiveGetFail, ArchiveCheck, ArchiveRefuse, DeleteFail, Fail
  <1>6. (Edit(p) \/ Delete(p)) => pc[p] \in {"edit", "delete"}
    BY DEF Edit, Delete
  <1> QED
    BY <1>1, <1>2, <1>3, <1>4, <1>5, <1>6

\* What a call learns is true when it learns it.
LEMMA KnownStep ==
  ASSUME Typed, Kept, NEW p \in Callers, Start(p) \/ Step(p), SnapshotHolds(p)
  PROVE  SnapshotHolds(p)'
  <1>1. CASE Return(p)
    <2>1. pc'[p] = "idle"
      BY <1>1 DEF Return, Typed, TypeOK
    <2> QED
      BY <2>1 DEF SnapshotHolds
  <1>2. CASE Start(p)
    <2>1. pc'[p] \in {"writeGet", "copyRead", "archiveGet"}
      BY <1>2 DEF Start, Store, Copy, Archive, Begin, Typed, TypeOK
    <2> QED
      BY <2>1 DEF SnapshotHolds
  <1>3. CASE CopyRead(p) \/ WriteGetNone(p)
    <2>1. pc'[p] \in {"writeGet", "create"}
      BY <1>3 DEF CopyRead, WriteGetNone, Typed, TypeOK
    <2> QED
      BY <2>1 DEF SnapshotHolds
  <1>4. CASE WriteGet(p)
    <2>1. PICK i \in Ids :
            /\ Found(job[p].item, i)
            /\ \A e \in Populated(vault[i].fields) : ~Named(e, job[p].field)
            /\ snap' = [snap EXCEPT ![p] = ItemJson(i)]
      BY <1>4 DEF WriteGet
    <2>2. UNCHANGED <<vault, job>> /\ pc'[p] = "edit"
      BY <1>4 DEF WriteGet, Typed, TypeOK
    <2>3. snap'[p] = ItemJson(i) /\ snap'[p].id = i
          /\ snap'[p].fields = vault[i].fields
      BY <2>1 DEF Typed, TypeOK, ItemJson
    <2>4. Found(job[p].item, i)' /\ ItemJson(i)' = ItemJson(i)
      BY <2>1, <2>2 DEF Found, Lookup, ItemJson
    <2> QED
      BY <2>1, <2>2, <2>3, <2>4 DEF SnapshotHolds
  <1>5. CASE ArchiveGet(p)
    <2>1. PICK i \in Ids : /\ Found(job[p].item, i)
                          /\ snap' = [snap EXCEPT ![p] = ItemJson(i)]
      BY <1>5 DEF ArchiveGet
    <2>2. UNCHANGED <<vault, job>> /\ pc'[p] = "archiveCheck"
      BY <1>5 DEF ArchiveGet, Typed, TypeOK
    <2>3. snap'[p] = ItemJson(i) /\ snap'[p].id = i
      BY <2>1 DEF Typed, TypeOK, ItemJson
    <2>4. Found(job[p].item, i)' /\ ItemJson(i)' = ItemJson(i)
      BY <2>1, <2>2 DEF Found, Lookup, ItemJson
    <2> QED
      BY <2>2, <2>3, <2>4 DEF SnapshotHolds
  <1>6. CASE ArchiveCheck(p)
    <2> DEFINE s == snap[p]
    <2>1. PICK i \in Ids : Found(job[p].other, i) /\ Superseded(s, i)
      BY <1>6 DEF ArchiveCheck
    <2>2. /\ UNCHANGED <<vault, job, snap>>
          /\ pc'[p] = "delete" /\ pc[p] = "archiveCheck"
      BY <1>6 DEF ArchiveCheck, Typed, TypeOK
    <2>3. s \in Snapshots /\ Found(job[p].item, s.id) /\ s = ItemJson(s.id)
      BY <2>2 DEF Typed, JobReady, SnapshotHolds
    <2>4. /\ s.id \in Ids /\ s.fields \in Seq(Entries)
          /\ s.fields = vault[s.id].fields
          /\ vault[i].fields \in Seq(Entries)
      BY <2>3 DEF Snapshots, ItemJson, Typed, TypeOK, Items
    <2>5. OneValue(s.fields)
      BY <2>4 DEF Kept, OneValueAll
    <2>6. ValuesOf(s.fields) \subseteq ValuesOf(vault[i].fields)
      BY <2>1, <2>4, <2>5, DictIsComplete DEF Superseded
    <2>7. i \in Lookup(job[p].other) \ {s.id}
      BY <2>1 DEF Superseded, Found
    <2>8. /\ Found(job[p].item, s.id)' /\ ItemJson(s.id)' = ItemJson(s.id)
          /\ Lookup(job[p].other)' = Lookup(job[p].other)
      BY <2>2, <2>3 DEF Found, Lookup, ItemJson
    <2>9. (\E k \in Lookup(job[p].other) \ {s.id} :
              ValuesOf(s.fields) \subseteq ValuesOf(vault[k].fields))'
      BY <2>2, <2>6, <2>7, <2>8
    <2> QED
      BY <2>2, <2>3, <2>8, <2>9 DEF SnapshotHolds
  <1> QED
    BY <1>1, <1>2, <1>3, <1>4, <1>5, <1>6
    DEF Step, CopyReadFail, WriteRefuse, WriteFail, ArchiveGetFail,
        ArchiveRefuse, DeleteFail, Create, Edit, Delete, Done, Fail

LEMMA ApartStep ==
  ASSUME Typed, ApartInv, [Next]_vars
  PROVE  ApartInv'
  <1> SUFFICES ASSUME ~raced' PROVE Kept' /\ Known'
    BY DEF ApartInv
  <1>1. ASSUME NEW p \in Callers, Start(p) \/ Step(p), Watch(p)
        PROVE  Kept' /\ Known'
    <2>1. /\ ~raced
          /\ p \in overtaken /\ pc[p] \in {"edit", "delete"}
               => UNCHANGED <<vault, acked>>
      BY <1>1 DEF Watch
    <2>2. Kept /\ Known
      BY <2>1 DEF ApartInv
    <2>3. p \notin overtaken => SnapshotHolds(p)
      BY <2>2 DEF Known
    <2>4. Kept'
      BY <1>1, <2>1, <2>2, <2>3, KeptStep
    <2>5. ASSUME p \notin overtaken' PROVE SnapshotHolds(p)'
      <3>1. CASE pc'[p] = "idle"
        BY <3>1 DEF SnapshotHolds
      <3>2. CASE pc[p] = "idle"
        <4>1. SnapshotHolds(p)
          BY <3>2 DEF SnapshotHolds
        <4> QED
          BY <1>1, <2>2, <4>1, KnownStep
      <3>3. CASE pc[p] # "idle" /\ pc'[p] # "idle"
        <4>1. p \notin overtaken
          BY <1>1, <2>5, <3>3 DEF Watch
        <4> QED
          BY <1>1, <2>2, <2>3, <4>1, KnownStep
      <3> QED
        BY <3>1, <3>2, <3>3
    <2>6. Known'
      BY <1>1, <2>2, <2>5, KnownStays DEF Known
    <2> QED
      BY <2>4, <2>6
  <1>2. CASE UNCHANGED vars
    <2>1. UNCHANGED <<vault, pc, job, snap, acked, overtaken, raced>>
      BY <1>2 DEF vars, programVars, historyVars
    <2>2. Kept /\ Known
      BY <2>1 DEF ApartInv
    <2>3. Known'
      BY <2>1, <2>2 DEF Known, SnapshotHolds, Found, Lookup, ItemJson
    <2> QED
      BY <2>1, <2>2, <2>3, KeptUnchanged
  <1> QED
    BY <1>1, <1>2 DEF Next

-----------------------------------------------------------------------------
(* The promises of write, copy and archive, kept by any number of calls    *)
(* whose op commands interleave and may fail, until a call edits or        *)
(* archives an item although another call has overtaken it.                *)

THEOREM ApartInvHolds ==
  ASSUME TidyVaults
  PROVE  Spec => []ApartInv
  <1>1. Init => ApartInv
    BY ApartInit
  <1>2. Typed /\ ApartInv /\ [Next]_vars => ApartInv'
    BY ApartStep
  <1> QED
    BY <1>1, <1>2, TypedHolds, PTL DEF Spec

\* archive retires no value, whatever other calls do to other items meanwhile.
THEOREM ArchiveKeepsValuesHolds ==
  ASSUME TidyVaults
  PROVE  Spec => []ArchiveKeepsValues
  <1>1. ApartInv => ArchiveKeepsValues
    BY DEF ApartInv, Kept, ArchiveKeepsValues
  <1> QED
    BY <1>1, ApartInvHolds, PTL

\* A value that store or copy reported as written stays on an active item.
THEOREM AcknowledgedValuesSurviveHolds ==
  ASSUME TidyVaults
  PROVE  Spec => []AcknowledgedValuesSurvive
  <1>1. ApartInv => AcknowledgedValuesSurvive
    BY DEF ApartInv, Kept, AckedSurvive, AcknowledgedValuesSurvive
  <1> QED
    BY <1>1, ApartInvHolds, PTL

\* No name of a field is ever that of two values.
THEOREM OneValuePerFieldHolds ==
  ASSUME TidyVaults
  PROVE  Spec => []OneValuePerField
  <1>1. ApartInv => OneValuePerField
    BY DEF ApartInv, Kept, OneValueAll, OneValuePerField
  <1> QED
    BY <1>1, ApartInvHolds, PTL

\* A step before which and after which no call has raced.
LEMMA QuietStep ==
  ASSUME Typed, ApartInv, NEW p \in Callers, Start(p) \/ Step(p), Watch(p), ~raced'
  PROVE  /\ ~raced /\ raced' = raced
         /\ pc[p] \in {"edit", "delete"} /\ ~UNCHANGED <<vault, acked>>
               => SnapshotHolds(p)
  BY DEF Watch, ApartInv, Known, Typed, TypeOK

\* The vault changes in three actions only.
LEMMA VaultSteps ==
  ASSUME NEW p \in Callers, Start(p) \/ Step(p)
  PROVE  \/ UNCHANGED <<vault, acked>>
         \/ Create(p) \/ Edit(p) \/ Delete(p)
  BY DEF Start, Store, Copy, Archive, Begin, Step, CopyRead, CopyReadFail,
     WriteGet, WriteRefuse, WriteGetNone, WriteFail, ArchiveGet,
     ArchiveGetFail, ArchiveCheck, ArchiveRefuse, DeleteFail, Fail

LEMMA FieldsStay ==
  ASSUME Typed, ApartInv, [Next]_vars, ~raced', NEW q \in Ids,
         vault[q].status # "absent"
  PROVE  Populated(vault[q].fields) \subseteq Populated(vault'[q].fields)
  <1>1. CASE UNCHANGED vault
    BY <1>1
  <1>2. ASSUME NEW p \in Callers, Start(p) \/ Step(p), Watch(p), ~UNCHANGED vault
        PROVE  Populated(vault[q].fields) \subseteq Populated(vault'[q].fields)
    <2>1. CASE Create(p)
      BY <2>1 DEF Create, Typed, TypeOK
    <2>2. CASE Edit(p)
      <3>0. SnapshotHolds(p)
        BY <1>2, <2>2, QuietStep DEF Edit
      <3>1. PICK i \in Ids, e \in Entries :
              /\ e.value \in Values
              /\ vault'[i].fields = Append(vault[i].fields, e)
              /\ \A j \in Ids \ {i} : vault'[j] = vault[j]
        BY <2>2, <3>0, EditTarget
      <3>2. vault[i].fields \in Seq(Entries)
        BY DEF Typed, TypeOK, Items
      <3>3. Populated(vault'[i].fields) = Populated(vault[i].fields) \cup {e}
        BY <3>1, <3>2, AppendField
      <3> QED
        BY <3>1, <3>3
    <2>3. CASE Delete(p)
      BY <2>3 DEF Delete, Typed, TypeOK, Items
    <2> QED
      BY <1>2, <2>1, <2>2, <2>3, VaultSteps
  <1> QED
    BY <1>1, <1>2 DEF Next, vars, programVars

\* A field that holds a value keeps it: write creates or adds.
THEOREM CreateOrAddApartHolds ==
  ASSUME TidyVaults
  PROVE  Spec => CreateOrAddApart
  <1>1. Typed /\ ApartInv /\ [Next]_vars
          => [\A i \in Ids : vault[i].status # "absent" =>
                \/ Populated(vault[i].fields) \subseteq Populated(vault'[i].fields)
                \/ raced']_vars
    BY FieldsStay
  <1> QED
    BY <1>1, TypedHolds, ApartInvHolds, PTL DEF Spec, CreateOrAddApart

-----------------------------------------------------------------------------
(* The calls implement the atomic operations of VaultSpec.                 *)

Status == [i \in Ids |-> vault[i].status]

Held == [i \in Ids |-> Populated(vault[i].fields)]

\* Fields that hold a value are fields of the abstract vault.
LEMMA PopulatedFields ==
  ASSUME NEW fs \in Seq(Entries)
  PROVE  /\ Populated(fs) \subseteq Atomic!Fields
         /\ {f.value : f \in Populated(fs)} = ValuesOf(fs)
  <1>1. \A k \in PopulatedAt(fs) : fs[k] \in Entries /\ fs[k].value \in Values
    BY DEF PopulatedAt
  <1>2. ASSUME NEW e \in Entries, e.value \in Values PROVE e \in Atomic!Fields
    BY <1>2 DEF Entries, Atomic!Fields
  <1>3. Populated(fs) \subseteq Atomic!Fields
    BY <1>1, <1>2 DEF Populated
  <1> QED
    BY <1>3 DEF Populated, ValuesOf

LEMMA AtomicInit ==
  ASSUME TidyVaults, Init
  PROVE  Atomic!Init
  <1>1. /\ vault \in [Ids -> Items] /\ acked = {} /\ raced = FALSE
        /\ \A i \in Ids : vault[i].status # "archived"
    BY InitialAssumption DEF Init, TidyVaults
  <1>2. Status \in [Ids -> {"absent", "active"}]
    BY <1>1 DEF Items, Status
  <1>3. \A i \in Ids : Populated(vault[i].fields) \subseteq Atomic!Fields
    BY <1>1, PopulatedFields DEF Items
  <1>4. Held \in [Ids -> SUBSET Atomic!Fields]
    BY <1>3 DEF Held
  <1> QED
    BY <1>1, <1>2, <1>4 DEF Atomic!Init, Status, Held

\* The three actions that change the vault are those of the abstract vault.
LEMMA AtomicChange ==
  ASSUME Typed, ApartInv, NEW p \in Callers, Start(p) \/ Step(p), Watch(p), ~raced',
         ~UNCHANGED <<vault, acked>>
  PROVE  \E i \in Ids : Atomic!Change(i)
  <1> USE DEF Atomic!Change
  <1>0. vault \in [Ids -> Items]
    BY DEF Typed, TypeOK
  <1>1. CASE Create(p)
    <2>1. job[p] \in Jobs /\ job[p].value \in Values
      BY <1>1 DEF Create, Typed, JobReady
    <2>2. PICK i \in Ids :
            /\ vault[i].status = "absent"
            /\ vault' = [vault EXCEPT ![i] =
                 [status |-> "active", title |-> job[p].item,
                  fields |-> <<NewField(p)>>, files |-> FALSE]]
      BY <1>1 DEF Create
    <2>3. PICK e \in Entries : e = NewField(p) /\ e.value = job[p].value
      BY <2>1, NewFieldEntry
    <2>4. e \in Atomic!Fields /\ e.value \in Values
      BY <2>1, <2>3 DEF Entries, Atomic!Fields
    <2>5. Populated(<<e>>) = {e}
      BY <2>4, SingleField
    <2>6. /\ vault'[i].status = "active" /\ vault'[i].fields = <<e>>
          /\ \A j \in Ids \ {i} : vault'[j] = vault[j]
      BY <1>0, <2>2, <2>3
    <2>7. Status' = [Status EXCEPT ![i] = "active"]
      BY <2>6 DEF Status
    <2>8. Held' = [Held EXCEPT ![i] = {e}]
      BY <2>5, <2>6 DEF Held
    <2>9. acked' \in {acked, acked \cup {e.value}}
      BY <1>1, <2>3 DEF Create, Done
    <2>10. Atomic!Make(i, e)
      BY <2>2, <2>7, <2>8, <2>9 DEF Atomic!Make, Atomic!Tell, Status, Held
    <2> QED
      BY <2>4, <2>10
  <1>2. CASE Edit(p)
    <2>0. SnapshotHolds(p)
      BY <1>2, QuietStep DEF Edit
    <2>1. PICK i \in Ids, e \in Entries :
            /\ e.value = job[p].value /\ e.value \in Values
            /\ vault[i].status = "active"
            /\ e.label \in Labels /\ NewTo(e, vault[i].fields)
            /\ vault'[i].status = "active"
            /\ vault'[i].fields = Append(vault[i].fields, e)
            /\ \A j \in Ids \ {i} : vault'[j] = vault[j]
      BY <1>2, <2>0, EditTarget
    <2>2. vault[i].fields \in Seq(Entries)
      BY <1>0 DEF Items
    <2>3. Populated(vault'[i].fields) = Populated(vault[i].fields) \cup {e}
      BY <2>1, <2>2, AppendField
    <2>4. e \in Atomic!Fields
      BY <2>1 DEF Entries, Atomic!Fields
    <2>5. \A g \in Held[i] : e.label \notin {g.label, g.id}
      BY <2>1 DEF Held, NewTo, Named
    <2>6. Status' = Status
      BY <2>1 DEF Status
    <2>7. Held' = [Held EXCEPT ![i] = @ \cup {e}]
      BY <2>1, <2>3 DEF Held
    <2>8. acked' \in {acked, acked \cup {e.value}}
      BY <1>2, <2>1 DEF Edit, Done
    <2>9. Status[i] = "active"
      BY <2>1 DEF Status
    <2>10. Atomic!Add(i, e)
      BY <2>5, <2>6, <2>7, <2>8, <2>9 DEF Atomic!Add, Atomic!Tell, Status, Held
    <2> QED
      BY <2>4, <2>10
  <1>3. CASE Delete(p)
    <2>0. SnapshotHolds(p) /\ pc[p] = "delete"
      BY <1>3, QuietStep DEF Delete
    <2>1. /\ snap[p] \in Snapshots /\ vault[snap[p].id].status = "active"
          /\ snap[p] = ItemJson(snap[p].id)
          /\ \E j \in Ids \ {snap[p].id} :
               /\ vault[j].status = "active"
               /\ ValuesOf(snap[p].fields) \subseteq ValuesOf(vault[j].fields)
      BY <1>3, <2>0 DEF Delete, Typed, JobReady, SnapshotHolds, Lookup, Under
    <2>2. PICK i \in Ids : i = snap[p].id /\ snap[p].fields = vault[i].fields
      BY <2>1 DEF Snapshots, ItemJson
    <2>3. PICK j \in Ids \ {i} :
            /\ vault[j].status = "active"
            /\ ValuesOf(vault[i].fields) \subseteq ValuesOf(vault[j].fields)
      BY <2>1, <2>2
    <2>4. /\ vault'[i].status = "archived"
          /\ vault'[i].fields = vault[i].fields
          /\ \A k \in Ids \ {i} : vault'[k] = vault[k]
      BY <1>0, <1>3, <2>2 DEF Delete, Items
    <2>5. Status' = [Status EXCEPT ![i] = "archived"]
      BY <2>4 DEF Status
    <2>6. Held' = Held
      BY <2>4 DEF Held
    <2>7. \A k \in Ids : {f.value : f \in Held[k]} = ValuesOf(vault[k].fields)
      BY <1>0, PopulatedFields DEF Held, Items
    <2>8. {f.value : f \in Held[i]} \subseteq {f.value : f \in Held[j]}
      BY <2>3, <2>7
    <2>9. Status[i] = "active" /\ Status[j] = "active"
      BY <2>1, <2>2, <2>3 DEF Status
    <2>10. acked' = acked
      BY <1>3 DEF Delete
    <2>11. Atomic!Retire(i)
      BY <2>5, <2>6, <2>8, <2>9, <2>10
      DEF Atomic!Retire, Atomic!Held, Status, Held
    <2> QED
      BY <2>11
  <1> QED
    BY <1>1, <1>2, <1>3, VaultSteps

LEMMA AtomicStep ==
  ASSUME Typed, ApartInv, [Next]_vars
  PROVE  Atomic!Next \/ UNCHANGED <<Status, Held, acked, raced>>
  <1>1. CASE raced'
    BY <1>1 DEF Atomic!Next
  <1>2. ASSUME NEW p \in Callers, Start(p) \/ Step(p), Watch(p), ~raced',
               ~UNCHANGED <<vault, acked>>
        PROVE  Atomic!Next
    BY <1>2, AtomicChange, QuietStep DEF Atomic!Next
  <1>3. ASSUME NEW p \in Callers, Start(p) \/ Step(p), Watch(p), ~raced',
               UNCHANGED <<vault, acked>>
        PROVE  UNCHANGED <<Status, Held, acked, raced>>
    BY <1>3, QuietStep DEF Status, Held
  <1>4. CASE UNCHANGED vars
    BY <1>4 DEF vars, programVars, historyVars, Status, Held
  <1> QED
    BY <1>1, <1>2, <1>3, <1>4 DEF Next

\* The calls change the vault at one point each, as VaultSpec says, whichever of
\* their op commands fail and however they interleave.
THEOREM ImplementsVaultHolds ==
  ASSUME TidyVaults
  PROVE  Spec => ImplementsVault
  <1>1. Init => Atomic!Init
    BY AtomicInit
  <1>2. Typed /\ ApartInv /\ [Next]_vars => [Atomic!Next]_(Atomic!vars)
    BY AtomicStep DEF Atomic!vars, Status, Held
  <1> QED
    BY <1>1, <1>2, TypedHolds, ApartInvHolds, PTL
    DEF Spec, ImplementsVault, Atomic!Spec

=============================================================================
