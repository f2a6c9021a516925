--------------------------- MODULE LeakAlarmProofs ---------------------------
(* Proofs about module LeakAlarm, for all hooks, credentials and bounds.   *)
EXTENDS LeakAlarm, FiniteSetTheorems, TLAPS

\* What can be told of a hook by its stage.
Ordered(h) ==
    /\ stage[h] \in {"idle", "read"} => h \notin pre
    /\ stage[h] \in {"idle", "read"} => fresh[h] = {}
    /\ stage[h] \in {"idle", "read", "record"} \cup SavingStages
          => trace[h] = "absent"
    /\ h \in sent => stage[h] \in {"rerecord", "reclose", "say", "done", "dead"}
    /\ h \in clearing => trace[h] # "absent"

\* Every copy of the fingerprints that may become the session's is covered: the
\* file, the temporary file, and what a hook is about to write.
CopiesCovered ==
    /\ Covered(Parsed(seen) \ past)
    /\ Covered(Parsed(tmp) \ past)
    /\ \A h \in Hooks : Covered(known[h] \ past)

Inv ==
    /\ TypeOK
    /\ \A h \in Hooks : Ordered(h)

-----------------------------------------------------------------------------
\* Writing over a file leaves a file, and one that parses holds what was
\* written.
LEMMA OverContent ==
    ASSUME NEW old \in Content, NEW F \in SUBSET Tokens
    PROVE  /\ Over(old, F) \in Content
           /\ Parsed(Over(old, F)) \subseteq F
  BY DEF Over, Content, Text, Parsed

\* A fault is counted.
LEMMA StrikeTyped ==
    ASSUME faults \in Nat, Strike
    PROVE  faults' \in Nat
  BY DEF Strike

\* Every step keeps the types.
LEMMA StepTyped ==
    ASSUME TypeOK, [Next]_vars
    PROVE  TypeOK'
  <1> USE FaultsAssumption
  <1>1. ASSUME NEW h \in Hooks, StartPre(h, Tokens) PROVE TypeOK'
    BY <1>1 DEF TypeOK, StartPre, Goto, saveVars, alertVars, Stages, AlarmStages
  <1>2. ASSUME NEW h \in Hooks, NEW F \in SUBSET Tokens \ {{}}, StartPost(h, F)
        PROVE  TypeOK'
    BY <1>2 DEF TypeOK, StartPost, Goto, saveVars, alertVars, Stages
  <1>3. ASSUME NEW h \in Hooks, Read(h) PROVE TypeOK'
    <2>1. Parsed(seen) \subseteq Tokens
      BY DEF TypeOK, Content, Parsed
    <2>2. stage' \in [Hooks -> Stages]
      BY <1>3 DEF TypeOK, Read, Goto, Stages, SavingStages
    <2> QED
      BY <1>3, <2>1, <2>2 DEF TypeOK, Read, Goto, alertVars, Unseen
  <1>4. ASSUME NEW h \in Hooks, Open(h) PROVE TypeOK'
    BY <1>4 DEF TypeOK, Open, Goto, scanVars, alertVars, Stages, SavingStages,
                Content, Empty
  <1>5. ASSUME NEW h \in Hooks, Flush(h) PROVE TypeOK'
    <2>1. tmp' \in Content /\ seen' \in Content
      BY <1>5, OverContent DEF TypeOK, Flush
    <2> QED
      BY <1>5, <2>1 DEF TypeOK, Flush, Goto, scanVars, alertVars, Stages,
                        SavingStages
  <1>6. ASSUME NEW h \in Hooks, Replace(h) PROVE TypeOK'
    <2>1. seen' \in Content /\ tmp' \in Content
      BY <1>6 DEF TypeOK, Replace, Absent, Content
    <2>2. fd' \in [Hooks -> {"none", "tmp", "live", "lost"}]
      BY <1>6 DEF Replace
    <2> QED
      BY <1>6, <2>1, <2>2 DEF TypeOK, Replace, Goto, scanVars, alertVars,
                              Stages, AlarmStages
  <1>7. ASSUME NEW h \in Hooks, ReplaceFail(h) \/ SaveFail(h) PROVE TypeOK'
    <2>1. /\ known' = [known EXCEPT ![h] = {}]
          /\ fd' = [fd EXCEPT ![h] = "none"]
          /\ stage' = [stage EXCEPT ![h] = "record"]
          /\ UNCHANGED <<scanVars, seen, tmp, alertVars, clearing>>
      BY <1>7 DEF ReplaceFail, SaveFail, SaveFailed, Drop, Goto
    <2>2. faults' \in Nat
      BY <1>7, StrikeTyped DEF TypeOK, ReplaceFail, SaveFail
    <2>3. serial' \in BOOLEAN
      BY <1>7, Zenon DEF TypeOK, ReplaceFail, SaveFail
    <2> QED
      BY <2>1, <2>2, <2>3 DEF TypeOK, scanVars, alertVars, Stages, AlarmStages
  <1>8. ASSUME NEW h \in Hooks, RecordOpen(h) \/ RecordClose(h) \/ RecordFail(h)
        PROVE  TypeOK'
    <2>1. stage' \in [Hooks -> Stages] /\ trace' \in [Hooks -> Traces]
      BY <1>8 DEF TypeOK, RecordOpen, RecordClose, RecordFail, Goto, Outcome,
                  Stages, AlarmStages, Traces
    <2>2. \A g \in Hooks : fd'[g] # "none" => stage'[g] \in {"flush", "replace"}
      BY <1>8 DEF TypeOK, RecordOpen, RecordClose, RecordFail, Goto, saveVars
    <2>3. faults' \in Nat /\ unrecorded' \subseteq Hooks
      BY <1>8, StrikeTyped DEF TypeOK, RecordOpen, RecordClose, RecordFail
    <2>4. UNCHANGED <<scanVars, saveVars, sent, said, clearing, serial>>
      BY <1>8 DEF RecordOpen, RecordClose, RecordFail
    <2> QED BY <2>1, <2>2, <2>3, <2>4 DEF TypeOK, scanVars, saveVars
  <1>9. ASSUME NEW h \in Hooks, Notify(h) \/ Say(h) PROVE TypeOK'
    BY <1>9 DEF TypeOK, Notify, Say, Goto, scanVars, saveVars, Stages,
                AlarmStages
  <1>10. ASSUME NEW h \in Hooks, Kill(h) PROVE TypeOK'
    <2>1. faults' \in Nat
      BY <1>10, StrikeTyped DEF TypeOK, Kill
    <2> QED
      BY <1>10, <2>1 DEF TypeOK, Kill, Drop, Goto, scanVars, alertVars, Stages
  <1>11. CASE \E h \in Hooks : ClearLoad(h)
    BY <1>11 DEF TypeOK, ClearLoad, scanVars, saveVars, alertVars
  <1>12. ASSUME NEW h \in Hooks, ClearRemove(h) PROVE TypeOK'
    BY <1>12 DEF TypeOK, ClearRemove, Traces, scanVars, saveVars
  <1>13. CASE UNCHANGED vars
    BY <1>13 DEF TypeOK, vars, scanVars, saveVars, alertVars
  <1> QED
    BY <1>1, <1>2, <1>3, <1>4, <1>5, <1>6, <1>7, <1>8, <1>9, <1>10, <1>11,
       <1>12, <1>13 DEF Next, HookStep, Save, Alarm

\* Whatever happens, a hook's variables hold what its stage says.
LEMMA StepOrdered ==
    ASSUME TypeOK, \A h \in Hooks : Ordered(h), [Next]_vars
    PROVE  \A h \in Hooks : Ordered(h)'
  <1>1. ASSUME NEW g \in Hooks, NEW F \in SUBSET Tokens,
               StartPre(g, F) \/ StartPost(g, F) \/ Read(g)
        PROVE  \A h \in Hooks : Ordered(h)'
    <2>1. CASE StartPre(g, F)
      BY <2>1 DEF TypeOK, Ordered, SavingStages, StartPre, Goto, saveVars, alertVars
    <2>2. CASE StartPost(g, F)
      <3>1. g \notin pre'
        BY <2>2 DEF StartPost, Ordered
      <3> QED
        BY <2>2, <3>1 DEF TypeOK, Ordered, SavingStages, StartPost, Goto, saveVars, alertVars
    <2>3. CASE Read(g)
      BY <2>3 DEF TypeOK, Ordered, SavingStages, Read, Goto, saveVars, alertVars
    <2> QED BY <1>1, <2>1, <2>2, <2>3
  <1>2. ASSUME NEW g \in Hooks, Save(g) \/ SaveFail(g) \/ Kill(g)
        PROVE  \A h \in Hooks : Ordered(h)'
    BY <1>2 DEF TypeOK, Ordered, SavingStages, Save, Open, Flush, Replace, ReplaceFail,
                SaveFail, SaveFailed, Kill, Running, Goto, scanVars, alertVars
  <1>3. ASSUME NEW g \in Hooks, Alarm(g) \/ RecordFail(g)
        PROVE  \A h \in Hooks : Ordered(h)'
    <2> USE DEF TypeOK, Ordered, SavingStages, Goto, scanVars, saveVars
    <2>1. CASE RecordOpen(g)
      BY <2>1 DEF RecordOpen
    <2>2. CASE RecordClose(g)
      <3>1. \A h \in Hooks :
               trace'[h] # trace[h] => h = g /\ trace'[h] = Outcome(h)
        BY <2>2 DEF RecordClose
      <3>2. Outcome(g) # "absent"
        BY DEF Outcome
      <3> QED BY <2>2, <3>1, <3>2 DEF RecordClose
    <2>3. CASE RecordFail(g)
      BY <2>3 DEF RecordFail
    <2>4. CASE Notify(g)
      BY <2>4 DEF Notify
    <2>5. CASE Say(g)
      BY <2>5 DEF Say
    <2> QED BY <1>3, <2>1, <2>2, <2>3, <2>4, <2>5 DEF Alarm
  <1>4. CASE (\E g \in Hooks : ClearLoad(g) \/ ClearRemove(g)) \/ UNCHANGED vars
    BY <1>4 DEF TypeOK, Ordered, SavingStages, ClearLoad, ClearRemove, Readable, vars, scanVars, saveVars,
                alertVars
  <1> QED BY <1>1, <1>2, <1>3, <1>4 DEF Next, HookStep

LEMMA InvHolds == Spec => []Inv
  <1>1. Init => Inv
    <2> SUFFICES ASSUME Init PROVE Inv
      OBVIOUS
    <2>1. seen \in Content /\ tmp \in Content
      BY DEF Init, Content, Absent, Text
    <2> QED
      BY <2>1, FaultsAssumption DEF Init, Inv, TypeOK, Ordered, Stages, Traces
  <1>2. Inv /\ [Next]_vars => Inv'
    BY StepTyped, StepOrdered DEF Inv
  <1> QED BY <1>1, <1>2, PTL DEF Spec

\* LeakAlarm's variables have their types.
THEOREM TypeOKHolds == Spec => []TypeOK
  BY InvHolds, PTL DEF Inv

-----------------------------------------------------------------------------
\* A hook that reports a finding goes on to, whatever step is taken.
LEMMA ReportsStay ==
    ASSUME Inv, [Next]_vars, NEW h \in Hooks \ pre, NEW t, Reports(h, t)
    PROVE  h \in Hooks \ pre' /\ Reports(h, t)'
  <1> USE DEF Inv, TypeOK, Ordered, SavingStages, Reports
  <1>1. ASSUME NEW g \in Hooks, NEW F \in SUBSET Tokens,
               StartPre(g, F) \/ StartPost(g, F) \/ Read(g)
        PROVE  h \in Hooks \ pre' /\ Reports(h, t)'
    BY <1>1 DEF StartPre, StartPost, Read, Goto, saveVars, alertVars
  <1>2. ASSUME NEW g \in Hooks, Save(g) \/ SaveFail(g) \/ Kill(g)
        PROVE  h \in Hooks \ pre' /\ Reports(h, t)'
    BY <1>2 DEF Save, Open, Flush, Replace, ReplaceFail, SaveFail, SaveFailed,
                Kill, Running, Goto, scanVars, alertVars
  <1>3. ASSUME NEW g \in Hooks, Alarm(g) \/ RecordFail(g)
        PROVE  h \in Hooks \ pre' /\ Reports(h, t)'
    BY <1>3 DEF Alarm, RecordOpen, RecordClose, RecordFail, Notify, Say, Goto,
                scanVars, saveVars
  <1>4. CASE (\E g \in Hooks : ClearLoad(g) \/ ClearRemove(g)) \/ UNCHANGED vars
    BY <1>4 DEF ClearLoad, ClearRemove, vars, scanVars, saveVars, alertVars
  <1> QED BY <1>1, <1>2, <1>3, <1>4 DEF Next, HookStep

LEMMA CoveredStays ==
    ASSUME Inv, [Next]_vars, NEW F, Covered(F), NEW G, G \subseteq F
    PROVE  \A t \in G : \E h \in Hooks \ pre' : Reports(h, t)'
  BY ReportsStay DEF Covered

\* The findings a session reported before do not change.
LEMMA PastStays ==
    ASSUME [Next]_vars
    PROVE  past' = past
  BY DEF Next, StartPre, StartPost, HookStep, Read, Save, Open, Flush, Replace,
         ReplaceFail, SaveFail, Alarm, RecordOpen, RecordClose, RecordFail,
         Notify, Say, Kill, ClearLoad, ClearRemove, vars, scanVars

\* Saving moves covered copies, and a hook that reads adds what it reports.
LEMMA StepCovered ==
    ASSUME Inv, Inv', CopiesCovered, [Next]_vars
    PROVE  CopiesCovered'
  <1> DEFINE After(F) == \A t \in F : \E h \in Hooks \ pre' : Reports(h, t)'
             Known == \A h \in Hooks : After(known'[h] \ past)
             Kept == /\ After(Parsed(seen) \ past) /\ After(Parsed(tmp) \ past)
                     /\ \A h \in Hooks : After(known[h] \ past)
  <1>1. Kept
    BY CoveredStays DEF CopiesCovered
  <1>2. past' = past
    BY PastStays
  <1>3. SUFFICES /\ After(Parsed(seen') \ past) /\ After(Parsed(tmp') \ past)
                 /\ Known
    BY <1>2 DEF CopiesCovered, Covered, Parsed
  <1> HIDE DEF After
  <1>4. After({})
    BY DEF After
  <1>5. \A F, G : After(F) /\ G \subseteq F => After(G)
    BY DEF After
  <1> USE DEF Inv, TypeOK
  <1>6. ASSUME UNCHANGED <<known, seen, tmp>>
        PROVE  After(Parsed(seen') \ past) /\ After(Parsed(tmp') \ past) /\ Known
    BY <1>1, <1>6
  <1>7. ASSUME NEW g \in Hooks, Read(g)
        PROVE  After(Parsed(seen') \ past) /\ After(Parsed(tmp') \ past) /\ Known
    <2>1. seen' = seen /\ tmp' = tmp
      BY <1>7 DEF Read
    <2>2. After(known'[g] \ past)
      <3>1. known'[g] = Parsed(seen) \cup fresh'[g]
        BY <1>7 DEF Read, Unseen
      <3>2. After(fresh'[g])
        <4>1. g \notin pre' /\ stage'[g] = "done" => fresh'[g] = {}
          BY <1>7 DEF Read, Goto, Ordered
        <4>2. g \notin pre'
          BY <1>7 DEF Read, Ordered
        <4> QED BY <4>1, <4>2 DEF After, Reports
      <3> QED BY <1>1, <3>1, <3>2 DEF After
    <2>3. \A h \in Hooks : h # g => known'[h] = known[h]
      BY <1>7 DEF Read
    <2> QED BY <1>1, <2>1, <2>2, <2>3
  <1>8. ASSUME NEW g \in Hooks, Open(g)
        PROVE  After(Parsed(seen') \ past) /\ After(Parsed(tmp') \ past) /\ Known
    <2>1. Parsed(tmp') \ past = {}
      BY <1>8 DEF Open, Empty, Parsed
    <2> QED BY <1>1, <1>4, <1>8, <2>1 DEF Open
  <1>9. ASSUME NEW g \in Hooks, Flush(g)
        PROVE  After(Parsed(seen') \ past) /\ After(Parsed(tmp') \ past) /\ Known
    <2>1. /\ Parsed(seen') = Parsed(seen) \/ Parsed(seen') \subseteq known[g]
          /\ Parsed(tmp') = Parsed(tmp) \/ Parsed(tmp') \subseteq known[g]
      BY <1>9, OverContent DEF Flush
    <2>2. /\ \/ Parsed(seen') \ past = Parsed(seen) \ past
             \/ Parsed(seen') \ past \subseteq known[g] \ past
          /\ \/ Parsed(tmp') \ past = Parsed(tmp) \ past
             \/ Parsed(tmp') \ past \subseteq known[g] \ past
      BY <2>1
    <2>3. known' = known
      BY <1>9 DEF Flush
    <2> QED BY <1>1, <1>5, <2>2, <2>3
  <1>10. ASSUME NEW g \in Hooks, Replace(g)
         PROVE  After(Parsed(seen') \ past) /\ After(Parsed(tmp') \ past) /\ Known
    <2>1. seen' = tmp /\ Parsed(tmp') \ past = {}
      BY <1>10 DEF Replace, Absent, Parsed
    <2>2. \A h \in Hooks : known'[h] = known[h] \/ known'[h] \ past = {}
      BY <1>10 DEF Replace
    <2> QED BY <1>1, <1>4, <2>1, <2>2
  <1>11. ASSUME NEW g \in Hooks, ReplaceFail(g) \/ SaveFail(g) \/ Kill(g)
         PROVE  After(Parsed(seen') \ past) /\ After(Parsed(tmp') \ past) /\ Known
    <2>1. seen' = seen /\ tmp' = tmp
      BY <1>11 DEF ReplaceFail, SaveFail, Kill
    <2>2. \A h \in Hooks : known'[h] = known[h] \/ known'[h] \ past = {}
      BY <1>11 DEF ReplaceFail, SaveFail, SaveFailed, Kill, Drop
    <2> QED BY <1>1, <1>4, <2>1, <2>2
  <1>12. CASE UNCHANGED vars
    BY <1>6, <1>12 DEF vars, saveVars
  <1>13. CASE Next
    <2>1. ASSUME NEW g \in Hooks, NEW F, StartPre(g, F) \/ StartPost(g, F)
          PROVE  UNCHANGED <<known, seen, tmp>>
      BY <2>1 DEF StartPre, StartPost, saveVars
    <2>2. ASSUME NEW g \in Hooks, Alarm(g) \/ RecordFail(g) \/ ClearRemove(g)
          PROVE  UNCHANGED <<known, seen, tmp>>
      BY <2>2 DEF Alarm, RecordOpen, RecordClose, Notify, Say, RecordFail,
                  ClearRemove, saveVars
    <2>3. (\E g \in Hooks : ClearLoad(g)) => UNCHANGED <<known, seen, tmp>>
      BY DEF ClearLoad, saveVars
    <2> QED
      BY <1>6, <1>7, <1>8, <1>9, <1>10, <1>11, <1>13, <2>1, <2>2, <2>3
         DEF Next, HookStep, Save
  <1> QED BY <1>12, <1>13

\* What the session takes for reported has a hook that reports it, for any
\* number of hooks that overlap, saves that fail and hooks that are killed.
THEOREM SeenIsReportedHolds == Spec => []SeenIsReported
  <1>1. Init => CopiesCovered
    BY DEF Init, CopiesCovered, Covered, Parsed, Absent, Text
  <1>2. Inv /\ Inv' /\ CopiesCovered /\ [Next]_vars => CopiesCovered'
    BY StepCovered
  <1>3. CopiesCovered => SeenIsReported
    BY DEF CopiesCovered, SeenIsReported
  <1> QED BY InvHolds, <1>1, <1>2, <1>3, PTL DEF Spec

-----------------------------------------------------------------------------
\* An alert that is about to be notified, or was, can be listed, unless its
\* record failed or somebody cleared it.
THEOREM TraceIsLeftHolds == Spec => []TraceIsLeft
  <1>1. Init => TraceIsLeft
    BY DEF Init, TraceIsLeft
  <1>2. ASSUME Inv, TraceIsLeft, [Next]_vars
        PROVE  TraceIsLeft'
    <2> USE <1>2 DEF Inv, TypeOK, TraceIsLeft, Readable
    <2>1. ASSUME NEW g \in Hooks, NEW F \in SUBSET Tokens,
                 StartPre(g, F) \/ StartPost(g, F) \/ Read(g)
          PROVE  TraceIsLeft'
      BY <2>1 DEF StartPre, StartPost, Read, Goto, saveVars, alertVars
    <2>2. ASSUME NEW g \in Hooks, Save(g) \/ SaveFail(g) \/ Kill(g)
          PROVE  TraceIsLeft'
      BY <2>2 DEF Save, Open, Flush, Replace, ReplaceFail, SaveFail, SaveFailed,
                  Kill, Goto, scanVars, alertVars
    <2>3. ASSUME NEW g \in Hooks, Alarm(g) \/ RecordFail(g)
          PROVE  TraceIsLeft'
      BY <2>3 DEF Alarm, RecordOpen, RecordClose, RecordFail, Notify, Say, Goto,
                  Outcome, scanVars, saveVars
    <2>4. CASE (\E g \in Hooks : ClearLoad(g) \/ ClearRemove(g)) \/ UNCHANGED vars
      BY <2>4 DEF ClearLoad, ClearRemove, vars, scanVars, saveVars, alertVars
    <2> QED BY <2>1, <2>2, <2>3, <2>4, <1>2 DEF Next, HookStep
  <1> QED BY InvHolds, <1>1, <1>2, PTL DEF Spec

\* The recorded outcome is the outcome.
THEOREM DeliveryIsRecordedHolds == Spec => []DeliveryIsRecorded
  <1>1. Init => DeliveryIsRecorded
    BY DEF Init, DeliveryIsRecorded
  <1>2. ASSUME Inv, DeliveryIsRecorded, [Next]_vars
        PROVE  DeliveryIsRecorded'
    <2> USE <1>2 DEF Inv, TypeOK, Ordered, DeliveryIsRecorded
    <2>1. ASSUME NEW g \in Hooks, NEW F \in SUBSET Tokens,
                 StartPre(g, F) \/ StartPost(g, F) \/ Read(g)
          PROVE  DeliveryIsRecorded'
      BY <2>1 DEF StartPre, StartPost, Read, Goto, saveVars, alertVars
    <2>2. ASSUME NEW g \in Hooks, Save(g) \/ SaveFail(g) \/ Kill(g)
          PROVE  DeliveryIsRecorded'
      BY <2>2 DEF Save, Open, Flush, Replace, ReplaceFail, SaveFail, SaveFailed,
                  Kill, Goto, scanVars, alertVars
    <2>3. ASSUME NEW g \in Hooks, Alarm(g) \/ RecordFail(g)
          PROVE  DeliveryIsRecorded'
      BY <2>3 DEF Alarm, RecordOpen, RecordClose, RecordFail, Notify, Say, Goto,
                  Outcome, scanVars, saveVars
    <2>4. CASE (\E g \in Hooks : ClearLoad(g) \/ ClearRemove(g)) \/ UNCHANGED vars
      BY <2>4 DEF ClearLoad, ClearRemove, vars, scanVars, saveVars, alertVars
    <2> QED BY <2>1, <2>2, <2>3, <2>4, <1>2 DEF Next, HookStep
  <1> QED BY InvHolds, <1>1, <1>2, PTL DEF Spec

\* Only its own hook, or a human who clears it, takes an alert off the list.
THEOREM AlertsStayHolds == Spec => AlertsStay
  <1>1. ASSUME Inv, [Next]_vars, NEW h \in Hooks, Readable(h), ~(Readable(h))'
        PROVE  h \in clearing \/ stage[h] = "rerecord"
    <2> USE <1>1 DEF Inv, TypeOK, Readable
    <2>1. ASSUME NEW g \in Hooks, ClearRemove(g)
          PROVE  h \in clearing
      BY <2>1 DEF ClearRemove
    <2>2. ASSUME NEW g \in Hooks, RecordOpen(g)
          PROVE  stage[h] = "rerecord"
      BY <2>2 DEF RecordOpen, Ordered
    <2>3. ASSUME NEW g \in Hooks, RecordClose(g) PROVE FALSE
      BY <2>3 DEF RecordClose, Outcome
    <2>4. trace' # trace
      OBVIOUS
    <2>5. ASSUME NEW g \in Hooks, NEW F,
                 \/ StartPre(g, F) \/ StartPost(g, F) \/ Read(g) \/ Save(g)
                 \/ SaveFail(g) \/ RecordFail(g) \/ Notify(g) \/ Say(g)
                 \/ Kill(g)
          PROVE  FALSE
      BY <2>4, <2>5 DEF StartPre, StartPost, Read, Save, Open, Flush, Replace,
                        ReplaceFail, SaveFail, RecordFail, Notify, Say, Kill,
                        alertVars
    <2>6. (\A g \in Hooks : ~ClearLoad(g)) /\ ~ UNCHANGED vars
      BY <2>4 DEF ClearLoad, vars, alertVars
    <2> QED
      BY <2>1, <2>2, <2>3, <2>5, <2>6 DEF Next, HookStep, Alarm
  <1>2. Inv /\ [Next]_vars
          => [\A h \in Hooks : Readable(h) /\ ~(Readable(h))'
                 => h \in clearing \/ stage[h] = "rerecord"]_vars
    BY <1>1
  <1> QED BY InvHolds, <1>2, PTL DEF Spec, AlertsStay

-----------------------------------------------------------------------------
(* Hooks that run one after the other.                                     *)

\* While every hook that looks at the seen file has it for itself, one that
\* saves is about to add what it reports to what the file holds, and what the
\* others report the file holds already.
Saver(h) ==
    stage[h] \in SavingStages =>
        /\ Parsed(seen) \cup fresh[h] \subseteq known[h]
        /\ fresh[h] \cap Parsed(seen) = {}
        /\ stage[h] = "flush" => fd[h] = "tmp" /\ tmp = Empty
        /\ stage[h] = "replace" => tmp = Text(known[h])

Saved(h) ==
    stage[h] \in AlarmStages \cup {"done"} => fresh[h] \subseteq Parsed(seen)

Serial ==
    /\ \A g, h \in Running \ pre : g = h
    /\ \A h \in Hooks : stage[h] # "dead"
    /\ \A h \in Hooks \ pre : Saver(h) /\ Saved(h)
    /\ \A g, h \in Hooks \ pre : fresh[g] \cap fresh[h] # {} => g = h

Once ==
    /\ \A h \in Hooks : stage[h] \in SavingStages => h \notin pre
    /\ serial => Serial

\* Fingerprints written to an empty file are the text of the file: no set of
\* them is smaller than none.
LEMMA OverEmpty ==
    ASSUME NEW F \in SUBSET Tokens
    PROVE  Over(Empty, F) = Text(F)
  <1>1. IsFiniteSet(F)
    BY TokensAssumption, FS_Subset
  <1>2. Cardinality(F) \in Nat /\ Cardinality({}) = 0
    BY <1>1, FS_CardinalityType, FS_EmptySet
  <1> QED
    BY <1>2 DEF Over, Empty

\* No hook starts to save before its tool call.
LEMMA SaversArePost ==
    ASSUME Inv, Once, [Next]_vars
    PROVE  \A h \in Hooks : stage'[h] \in SavingStages => h \notin pre'
  <1> USE DEF Inv, TypeOK, SavingStages, AlarmStages, Goto
  <1>1. ASSUME NEW g \in Hooks, NEW F, StartPre(g, F) \/ StartPost(g, F)
        PROVE  \A h \in Hooks : stage'[h] \in SavingStages => h \notin pre'
    BY <1>1 DEF Once, StartPre, StartPost
  <1>2. ASSUME NEW g \in Hooks, Read(g) \/ Save(g) \/ SaveFail(g) \/ Kill(g)
        PROVE  \A h \in Hooks : stage'[h] \in SavingStages => h \notin pre'
    <2>1. pre' = pre
      BY <1>2 DEF Read, Save, Open, Flush, Replace, ReplaceFail, SaveFail, Kill, scanVars
    <2>2. stage[g] \in SavingStages \cup {"read"} \/ stage'[g] = "dead"
      BY <1>2 DEF Read, Save, Open, Flush, Replace, ReplaceFail, SaveFail, Kill
    <2>3. \A h \in Hooks : h # g => stage'[h] = stage[h]
      BY <1>2 DEF Read, Save, Open, Flush, Replace, ReplaceFail, SaveFail,
                  SaveFailed, Kill
    <2>4. stage[g] = "read" => g \notin pre
      BY DEF Ordered
    <2> QED
      BY <2>1, <2>2, <2>3, <2>4 DEF Once
  <1>3. ASSUME NEW g \in Hooks, Alarm(g) \/ RecordFail(g)
        PROVE  \A h \in Hooks : stage'[h] \in SavingStages => h \notin pre'
    BY <1>3 DEF Once, Alarm, RecordOpen, RecordClose, Notify, Say, RecordFail, scanVars
  <1>4. CASE (\E g \in Hooks : ClearLoad(g) \/ ClearRemove(g)) \/ UNCHANGED vars
    BY <1>4 DEF Once, ClearLoad, ClearRemove, vars, scanVars
  <1> QED
    BY <1>1, <1>2, <1>3, <1>4 DEF Next, HookStep

\* One hook at a time: what each of the steps does to the seen file.
LEMMA StepSerial ==
    ASSUME Inv, Inv', Once, serial, serial', Serial, [Next]_vars
    PROVE  Serial'
  <1> USE DEF Inv, TypeOK, SavingStages, AlarmStages, Goto, Running
  <1>1. ASSUME NEW g \in Hooks, StartPre(g, Tokens) PROVE Serial'
    <2>1. /\ pre' = pre \cup {g} /\ stage' = [stage EXCEPT ![g] = "record"]
          /\ UNCHANGED <<seen, tmp, fd, known>>
          /\ \A h \in Hooks : h # g => stage'[h] = stage[h] /\ fresh'[h] = fresh[h]
      BY <1>1 DEF StartPre, saveVars
    <2>2. \A h \in Hooks \ pre' : h \in Hooks \ pre /\ h # g
      BY <2>1
    <2>3. \A h \in Hooks \ pre' : (Saver(h) /\ Saved(h))'
      BY <2>1, <2>2 DEF Serial, Saver, Saved, Parsed
    <2>4. \A h \in Running' \ pre' : h \in Running \ pre
      BY <2>1
    <2> QED
      BY <2>1, <2>2, <2>3, <2>4 DEF Serial
  <1>2. ASSUME NEW g \in Hooks, NEW F, StartPost(g, F) PROVE Serial'
    <2>1. /\ stage' = [stage EXCEPT ![g] = "read"] /\ Running \subseteq pre
          /\ UNCHANGED <<pre, fresh, seen, tmp, fd, known>>
      BY <1>2 DEF StartPost, saveVars
    <2>2. \A h \in Hooks : h # g => stage'[h] = stage[h]
      BY <2>1
    <2>3. \A h \in Hooks \ pre' : (Saver(h) /\ Saved(h))'
      BY <2>1, <2>2 DEF Serial, Saver, Saved, Parsed
    <2>4. Running' \ pre' \subseteq {g}
      BY <2>1
    <2> QED
      BY <2>1, <2>3, <2>4 DEF Serial
  <1>3. ASSUME NEW g \in Hooks, Read(g) PROVE Serial'
    <2>1. /\ UNCHANGED <<pre, seen, tmp, fd>>
          /\ g \in Running \ pre
          /\ fresh'[g] \cap Parsed(seen) = {}
          /\ known'[g] = Parsed(seen) \cup fresh'[g]
          /\ stage'[g] = IF fresh'[g] = {} THEN "done" ELSE "open"
      BY <1>3 DEF Read, Unseen, Ordered
    <2>2. \A h \in Hooks : h # g =>
              stage'[h] = stage[h] /\ fresh'[h] = fresh[h] /\ known'[h] = known[h]
      BY <1>3 DEF Read
    <2>3. \A h \in Hooks \ pre : (Saver(h) /\ Saved(h))'
      BY <2>1, <2>2 DEF Serial, Saver, Saved, Parsed
    <2>4. Running' \subseteq Running
      BY <2>1, <2>2
    <2>5. ASSUME NEW h \in Hooks \ pre, h # g PROVE fresh[h] \subseteq Parsed(seen)
      <3>1. h \notin Running
        BY <2>1, <2>5 DEF Serial
      <3>2. stage[h] \in {"idle", "done"}
        BY <3>1, <2>5 DEF Serial
      <3> QED
        BY <3>2, <2>5 DEF Serial, Saved, Ordered
    <2>6. \A h, i \in Hooks \ pre : fresh'[h] \cap fresh'[i] # {} => h = i
      BY <2>1, <2>2, <2>5 DEF Serial
    <2> QED
      BY <2>1, <2>2, <2>3, <2>4, <2>6 DEF Serial
  <1>4. ASSUME NEW g \in Hooks, Save(g) PROVE Serial'
    <2>1. /\ UNCHANGED <<pre, fresh>> /\ stage[g] \in SavingStages
          /\ g \in Running \ pre /\ Saver(g)
      BY <1>4 DEF Save, Open, Flush, Replace, ReplaceFail, scanVars, Once, Serial
    <2>2. \A h \in Hooks : h # g => stage'[h] = stage[h]
      BY <1>4 DEF Save, Open, Flush, Replace, ReplaceFail, SaveFailed
    <2>3. ASSUME NEW h \in Hooks \ pre, h # g
          PROVE  stage[h] \in {"idle", "done"} /\ stage'[h] = stage[h]
      <3>1. h \notin Running
        BY <2>1, <2>3 DEF Serial
      <3> QED
        BY <2>2, <2>3, <3>1 DEF Serial
    <2>4. stage'[g] # "dead" /\ Running' \subseteq Running
      BY <1>4, <2>1, <2>2 DEF Save, Open, Flush, Replace, ReplaceFail, SaveFailed
    <2>5. /\ (Saver(g) /\ Saved(g))' /\ Parsed(seen) \subseteq Parsed(seen')
      <3>1. CASE Open(g)
        BY <2>1, <3>1 DEF Open, Saver, Saved, Parsed
      <3>2. CASE Flush(g)
        <4>1. tmp' = Text(known[g]) /\ known' = known /\ seen' = seen
          BY <2>1, <3>2, OverEmpty DEF Flush, Saver
        <4> QED
          BY <2>1, <3>2, <4>1 DEF Flush, Saver, Saved, Parsed
      <3>3. CASE Replace(g)
        <4>1. seen' = Text(known[g]) /\ stage'[g] = "record"
          BY <2>1, <3>3 DEF Replace, Saver
        <4>2. Parsed(seen') = known[g]
          BY <4>1 DEF Parsed, Text
        <4> QED
          BY <2>1, <3>3, <4>1, <4>2 DEF Replace, Saver, Saved
      <3>4. CASE ReplaceFail(g)
        BY <2>1, <3>4 DEF ReplaceFail, Saver, Text
      <3> QED
        BY <1>4, <3>1, <3>2, <3>3, <3>4 DEF Save
    <2>6. \A h \in Hooks \ pre : h # g => (Saver(h) /\ Saved(h))'
      BY <2>1, <2>3, <2>5 DEF Serial, Saver, Saved, Parsed
    <2> QED
      BY <2>1, <2>2, <2>4, <2>5, <2>6 DEF Serial
  <1>5. ASSUME NEW g \in Hooks, Alarm(g) \/ RecordFail(g) PROVE Serial'
    <2>1. /\ UNCHANGED <<pre, fresh, seen, tmp, fd, known>>
          /\ stage[g] \in AlarmStages /\ stage'[g] \in AlarmStages \cup {"done"}
      BY <1>5 DEF Alarm, RecordOpen, RecordClose, Notify, Say, RecordFail,
                  scanVars, saveVars
    <2>2. \A h \in Hooks : h # g => stage'[h] = stage[h]
      BY <1>5 DEF Alarm, RecordOpen, RecordClose, Notify, Say, RecordFail
    <2>3. \A h \in Hooks \ pre : (Saver(h) /\ Saved(h))'
      BY <2>1, <2>2 DEF Serial, Saver, Saved, Parsed
    <2>4. Running' \subseteq Running
      BY <2>1, <2>2
    <2> QED
      BY <2>1, <2>2, <2>3, <2>4 DEF Serial
  <1>6. CASE (\E g \in Hooks : ClearLoad(g) \/ ClearRemove(g)) \/ UNCHANGED vars
    <2>1. UNCHANGED <<stage, pre, fresh, seen, tmp, fd, known>>
      BY <1>6 DEF ClearLoad, ClearRemove, vars, scanVars, saveVars
    <2> QED
      BY <2>1 DEF Serial, Saver, Saved, Parsed
  <1>7. ASSUME NEW g \in Hooks, SaveFail(g) \/ Kill(g) PROVE Serial'
    BY <1>7 DEF SaveFail, Kill
  <1> QED
    BY <1>1, <1>2, <1>3, <1>4, <1>5, <1>6, <1>7 DEF Next, HookStep

LEMMA StepOnce ==
    ASSUME Inv, Inv', Once, [Next]_vars
    PROVE  Once'
  <1>1. serial' => serial
    BY DEF Next, StartPre, StartPost, HookStep, Read, Save, Open, Flush, Replace,
           ReplaceFail, SaveFail, Alarm, RecordOpen, RecordClose, RecordFail,
           Notify, Say, Kill, ClearLoad, ClearRemove, vars
  <1> QED
    BY <1>1, SaversArePost, StepSerial DEF Once

\* Hooks that run one after the other, whose saves work and which nobody kills,
\* report a credential in tool output once per session (already_seen).
THEOREM PagesOnceHolds == Spec => []PagesOnce
  <1>1. Init => Once
    BY DEF Init, Once, Serial, Saver, Saved, Running, SavingStages, AlarmStages
  <1>2. Inv /\ Inv' /\ Once /\ [Next]_vars => Once'
    BY StepOnce
  <1>3. Once => PagesOnce
    BY DEF Once, Serial, PagesOnce
  <1> QED
    BY InvHolds, <1>1, <1>2, <1>3, PTL DEF Spec

=============================================================================
