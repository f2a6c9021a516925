---------------------------- MODULE AlertsProofs ----------------------------
(***************************************************************************)
(* What holds of Alerts for any number of alerts, kills and                *)
(* acknowledgements: its types, and that an acknowledgement that no sweep  *)
(* overlapped is final.                                                    *)
(***************************************************************************)
EXTENDS Alerts, TLAPS

-----------------------------------------------------------------------------
(* The invariant, alert by alert.                                          *)

\* raise_alert works on an alert without a record, the others on one that has
\* a record; a record is never removed.
Recorded(a) ==
    /\ file[a] # "absent" => a \in reported
    /\ stage["report"][a] # "idle" => a \in reported /\ file[a] = "absent"
    /\ fd["report"][a] \in {"none", "tmp"}
    /\ \/ a \in todo
       \/ stage["sweep"][a] # "idle"
       \/ stage["ack"][a] # "idle"
       => file[a] # "absent"

\* A sweep pushes an alert once, and has none left when it is over.
Swept(a) ==
    /\ stage["sweep"][a] # "idle" => a \notin todo
    /\ ~sweeping => a \notin todo /\ stage["sweep"][a] = "idle"

\* A program that writes has the temporary file for itself.
Owns(p, a) ==
    /\ stage[p][a] \in {"flush", "replace"} => fd[p][a] = "tmp"
    /\ stage[p][a] = "flush" => tmp[a] = "empty"
    /\ stage[p][a] = "replace" => tmp[a] = Record(p)

\* An alert that was not acknowledged while a sweep was running.
Calm(a) ==
    /\ stage["ack"][a] # "idle" => ~sweeping
    /\ \A p \in Programs : Owns(p, a)
    /\ file[a] = "acked" => a \notin todo /\ stage["sweep"][a] = "idle"
    /\ a \in acknowledged => file[a] = "acked"

Alert(a) == Recorded(a) /\ Swept(a) /\ (a \notin raced => Calm(a))

AlertInv == \A a \in Ids : Alert(a)

-----------------------------------------------------------------------------
(* What the helpers of the actions change.                                 *)

StageType == [Programs -> [Ids -> Stages]]
FdType    == [Programs -> [Ids -> {"none", "tmp", "live", "lost"}]]

LEMMA GotoStage ==
  ASSUME stage \in StageType, NEW p \in Programs, NEW a \in Ids,
         NEW s \in Stages, Goto(p, a, s)
  PROVE  /\ stage' \in StageType
         /\ stage'[p][a] = s
         /\ \A q \in Programs, b \in Ids :
               q # p \/ b # a => stage'[q][b] = stage[q][b]
  BY DEF StageType, Goto

LEMMA OpenFd ==
  ASSUME fd \in FdType, NEW p \in Programs, NEW a \in Ids,
         fd' = [fd EXCEPT ![p][a] = "tmp"]
  PROVE  /\ fd' \in FdType
         /\ fd'[p][a] = "tmp"
         /\ \A q \in Programs, b \in Ids :
               q # p \/ b # a => fd'[q][b] = fd[q][b]
  BY DEF FdType

LEMMA ReplaceFd ==
  ASSUME fd \in FdType, NEW p \in Programs, NEW a \in Ids, Replace(p, a)
  PROVE  /\ fd' \in FdType
         /\ fd'[p][a] = "none"
         /\ \A q \in Programs \ {p} :
               /\ fd[q][a] = "none" => fd'[q][a] = "none"
               /\ fd[q][a] # "none" => fd'[q][a] # "none"
         /\ \A q \in Programs, b \in Ids \ {a} : fd'[q][b] = fd[q][b]
  <1>1. ASSUME NEW q \in Programs
        PROVE  /\ fd'[q] \in [Ids -> {"none", "tmp", "live", "lost"}]
               /\ q = p => fd'[q][a] = "none"
               /\ q # p => /\ fd[q][a] = "none" => fd'[q][a] = "none"
                           /\ fd[q][a] # "none" => fd'[q][a] # "none"
               /\ \A b \in Ids \ {a} : fd'[q][b] = fd[q][b]
    BY DEF Replace, FdType
  <1>2. fd' = [q \in Programs |-> fd'[q]]
    BY DEF Replace
  <1>3. fd' \in FdType
    BY <1>1, <1>2 DEF FdType
  <1> QED
    BY <1>1, <1>3

LEMMA EndStage ==
  ASSUME stage \in StageType, fd \in FdType, NEW p \in Programs, End(p)
  PROVE  /\ stage' \in StageType /\ fd' \in FdType
         /\ \A a \in Ids : stage'[p][a] = "idle" /\ fd'[p][a] = "none"
         /\ \A q \in Programs \ {p}, a \in Ids :
               stage'[q][a] = stage[q][a] /\ fd'[q][a] = fd[q][a]
  BY DEF StageType, FdType, End, Stages

-----------------------------------------------------------------------------
(* Types.                                                                  *)

Inv == TypeOK /\ \A a \in Ids : Recorded(a)

OpenFile == \A p \in Programs, a \in Ids :
              (fd[p][a] # "none") <=> stage[p][a] \in {"flush", "replace"}

\* A program has a descriptor while it writes, whoever moves.
LEMMA OpenFileStep ==
  ASSUME Inv, [Next]_vars
  PROVE  /\ stage' \in StageType
         /\ fd' \in FdType
         /\ OpenFile'
  <1> USE DEF OpenFile, Programs, Stages
  <1>0. stage \in StageType /\ fd \in FdType /\ OpenFile
    BY DEF Inv, TypeOK, StageType, FdType
  <1>1. ASSUME NEW p \in Programs, NEW a \in Ids, NEW s \in {"push", "open"},
               Goto(p, a, s), fd' = fd, stage[p][a] \in {"idle", "push"}
        PROVE  stage' \in StageType /\ fd' \in FdType /\ OpenFile'
    BY <1>0, <1>1, GotoStage
  <1>2. ASSUME NEW a \in Ids, Report(a) \/ Ack(a) \/ Ripen(a)
        PROVE  stage' \in StageType /\ fd' \in FdType /\ OpenFile'
    <2>1. CASE Report(a)
      <3>1. stage["report"][a] = "idle"
        BY <2>1 DEF Report, Inv, Recorded
      <3> QED
        BY <1>1, <2>1, <3>1 DEF Report
    <2>2. CASE Ack(a)
      <3>1. stage["ack"][a] = "idle"
        BY <2>2 DEF Ack, Busy
      <3> QED
        BY <1>1, <2>2, <3>1 DEF Ack
    <2>3. CASE Ripen(a)
      BY <1>0, <2>3 DEF Ripen
    <2> QED
      BY <1>2, <2>1, <2>2, <2>3
  <1>3. ASSUME NEW p \in Programs, NEW a \in Ids, WriteStep(p, a)
        PROVE  stage' \in StageType /\ fd' \in FdType /\ OpenFile'
    <2>1. CASE Notified(p, a)
      BY <1>1, <2>1 DEF Notified
    <2>2. CASE Open(p, a)
      <3>1. /\ stage' \in StageType /\ stage'[p][a] = "flush"
            /\ \A q \in Programs, b \in Ids :
                  q # p \/ b # a => stage'[q][b] = stage[q][b]
        BY <1>0, <2>2, GotoStage DEF Open
      <3>2. /\ fd' \in FdType /\ fd'[p][a] = "tmp"
            /\ \A q \in Programs, b \in Ids :
                  q # p \/ b # a => fd'[q][b] = fd[q][b]
        BY <1>0, <2>2, OpenFd DEF Open
      <3> QED
        BY <1>0, <3>1, <3>2
    <2>3. CASE Flush(p, a)
      BY <1>0, <2>3, GotoStage DEF Flush
    <2>4. CASE Replace(p, a)
      <3>1. /\ stage' \in StageType /\ stage'[p][a] = "idle"
            /\ \A q \in Programs, b \in Ids :
                  q # p \/ b # a => stage'[q][b] = stage[q][b]
        BY <1>0, <2>4, GotoStage DEF Replace
      <3>2. /\ fd' \in FdType /\ fd'[p][a] = "none"
            /\ \A q \in Programs \ {p} :
                  (fd[q][a] = "none") <=> (fd'[q][a] = "none")
            /\ \A q \in Programs, b \in Ids \ {a} : fd'[q][b] = fd[q][b]
        BY <1>0, <2>4, ReplaceFd
      <3> QED
        BY <1>0, <3>1, <3>2
    <2>5. CASE ReplaceFail(p, a)
      BY <1>0, <2>5, EndStage DEF ReplaceFail
    <2> QED
      BY <1>3, <2>1, <2>2, <2>3, <2>4, <2>5 DEF WriteStep
  <1>4. CASE Sweep
    BY <1>0, <1>1, <1>4 DEF Sweep, SweepStart, SweepNext, SweepEnd, Busy
  <1>5. ASSUME NEW p \in Programs, Kill(p)
        PROVE  stage' \in StageType /\ fd' \in FdType /\ OpenFile'
    BY <1>0, <1>5, EndStage DEF Kill
  <1>6. CASE UNCHANGED vars
    BY <1>0, <1>6 DEF vars
  <1> QED
    BY <1>2, <1>3, <1>4, <1>5, <1>6 DEF Next

LEMMA TypeStep == Inv /\ [Next]_vars => TypeOK'
  <1> SUFFICES ASSUME Inv, [Next]_vars PROVE TypeOK'
    OBVIOUS
  <1> USE DEF Inv, Programs, Contents
  <1>0. /\ stage' \in [Programs -> [Ids -> Stages]]
        /\ fd' \in [Programs -> [Ids -> {"none", "tmp", "live", "lost"}]]
        /\ \A p \in Programs, a \in Ids :
              (fd'[p][a] # "none") <=> stage'[p][a] \in {"flush", "replace"}
    BY OpenFileStep DEF StageType, FdType, OpenFile
  <1>1. ASSUME NEW a \in Ids, Report(a) \/ Ack(a) \/ Ripen(a) PROVE TypeOK'
    <2>1. CASE Report(a)
      BY <1>0, <2>1 DEF Report, TypeOK
    <2>2. CASE Ack(a)
      BY <1>0, <2>2, BoundsAssumption DEF Ack, TypeOK
    <2>3. CASE Ripen(a)
      BY <1>0, <2>3 DEF Ripen, TypeOK
    <2> QED
      BY <1>1, <2>1, <2>2, <2>3
  <1>2. ASSUME NEW p \in Programs, NEW a \in Ids, WriteStep(p, a)
        PROVE  TypeOK'
    <2>1. CASE Notified(p, a) \/ Open(p, a)
      BY <1>0, <2>1 DEF Notified, Open, TypeOK
    <2>2. CASE Flush(p, a)
      <3>1. Over(tmp[a], Record(p)) \in Contents
        BY DEF Over, Record
      <3>2. Over(file[a], Record(p)) \in Contents
        BY DEF Over, Record
      <3>3. file' \in [Ids -> Contents] /\ tmp' \in [Ids -> Contents]
        BY <2>2, <3>1, <3>2 DEF Flush, TypeOK
      <3>4. due' \in [Ids -> BOOLEAN]
        BY <2>2 DEF Flush, TypeOK
      <3> QED
        BY <1>0, <2>2, <3>3, <3>4 DEF Flush, TypeOK
    <2>3. CASE Replace(p, a)
      <3>1. due' \in [Ids -> BOOLEAN]
        BY <2>3 DEF Replace, TypeOK
      <3>2. p = "ack" => a \in reported
        BY <2>3 DEF Replace, Recorded, TypeOK
      <3>3. acknowledged' \subseteq reported
        BY <2>3, <3>2 DEF Replace, Acknowledge, TypeOK
      <3> QED
        BY <1>0, <2>3, <3>1, <3>3 DEF Replace, TypeOK
    <2>4. CASE ReplaceFail(p, a)
      BY <1>0, <2>4 DEF ReplaceFail, End, TypeOK
    <2> QED
      BY <1>2, <2>1, <2>2, <2>3, <2>4 DEF WriteStep
  <1>3. CASE Sweep
    BY <1>0, <1>3 DEF Sweep, SweepStart, SweepNext, SweepEnd, Busy, TypeOK
  <1>4. ASSUME NEW p \in Programs, Kill(p) PROVE TypeOK'
    BY <1>0, <1>4, BoundsAssumption DEF Kill, End, TypeOK
  <1>5. CASE UNCHANGED vars
    BY <1>0, <1>5 DEF vars, TypeOK
  <1> QED
    BY <1>1, <1>2, <1>3, <1>4, <1>5 DEF Next

-----------------------------------------------------------------------------
(* The alerts, one by one.                                                 *)

LEMMA RecordedStep ==
  ASSUME Inv, [Next]_vars, NEW b \in Ids
  PROVE  Recorded(b)'
  <1> USE DEF Programs, Stages
  <1>0. /\ stage \in StageType /\ fd \in FdType /\ OpenFile /\ Recorded(b)
        /\ file \in [Ids -> Contents]
    BY DEF Inv, TypeOK, StageType, FdType, OpenFile
  <1>1. ASSUME NEW a \in Ids, Report(a) \/ Ack(a) \/ Ripen(a)
        PROVE  Recorded(b)'
    <2>1. CASE Report(a)
      BY <1>0, <2>1, GotoStage DEF Report, Recorded
    <2>2. CASE Ack(a)
      BY <1>0, <2>2, GotoStage DEF Ack, Recorded
    <2>3. CASE Ripen(a)
      BY <1>0, <2>3 DEF Ripen, Recorded
    <2> QED
      BY <1>1, <2>1, <2>2, <2>3
  <1>2. ASSUME NEW p \in Programs, NEW a \in Ids, WriteStep(p, a)
        PROVE  Recorded(b)'
    <2>1. CASE Notified(p, a)
      BY <1>0, <2>1, GotoStage DEF Notified, Recorded
    <2>2. CASE Open(p, a)
      BY <1>0, <2>2, GotoStage, OpenFd DEF Open, Recorded
    <2>3. CASE Flush(p, a)
      <3>1. /\ fd' = fd /\ reported' = reported /\ todo' = todo
            /\ stage[p][a] = "flush" /\ Goto(p, a, "replace")
        BY <2>3 DEF Flush
      <3>2. p = "report" => file' = file
        BY <1>0, <2>3 DEF Flush, OpenFile, Inv, Recorded
      <3>3. p # "report" => file[a] # "absent"
        BY <3>1 DEF Inv, Recorded
      <3>4. Over(file[a], Record(p)) # "absent"
        BY DEF Over, Record
      <3>5. (file'[b] = "absent") <=> (file[b] = "absent")
        BY <1>0, <2>3, <3>2, <3>3, <3>4 DEF Flush
      <3> QED
        BY <1>0, <3>1, <3>5, GotoStage DEF Recorded
    <2>4. CASE Replace(p, a)
      <3>1. /\ reported' = reported /\ todo' = todo
            /\ stage[p][a] = "replace" /\ Goto(p, a, "idle")
        BY <2>4 DEF Replace
      <3>2. /\ b # a => file'[b] = file[b]
            /\ file'[a] # "absent"
        BY <1>0, <2>4 DEF Replace
      <3>3. a \in reported
        BY <3>1 DEF Inv, Recorded
      <3>4. p # "report" => stage["report"][a] = "idle"
        BY <3>1 DEF Inv, Recorded
      <3>5. p # "report" => fd["report"][a] = "none"
        BY <1>0, <3>4 DEF OpenFile
      <3>6. /\ fd'["report"][b] \in {"none", "tmp"}
        BY <1>0, <2>4, <3>5, ReplaceFd DEF Recorded
      <3>7. stage'["report"][a] = "idle"
        BY <1>0, <3>1, <3>4, GotoStage
      <3>8. b # a => \A q \in Programs : stage'[q][b] = stage[q][b]
        BY <1>0, <3>1, GotoStage
      <3> QED
        BY <1>0, <3>1, <3>2, <3>3, <3>6, <3>7, <3>8 DEF Recorded
    <2>5. CASE ReplaceFail(p, a)
      BY <1>0, <2>5, EndStage DEF ReplaceFail, End, Recorded
    <2> QED
      BY <1>2, <2>1, <2>2, <2>3, <2>4, <2>5 DEF WriteStep
  <1>3. CASE Sweep
    <2>1. CASE SweepStart
      BY <1>0, <2>1 DEF SweepStart, Quiet, Recorded
    <2>2. ASSUME NEW a \in Ids, SweepNext(a) PROVE Recorded(b)'
      BY <1>0, <2>2, GotoStage DEF SweepNext, Recorded
    <2>3. CASE SweepEnd
      BY <1>0, <2>3 DEF SweepEnd, Recorded
    <2> QED
      BY <1>3, <2>1, <2>2, <2>3 DEF Sweep
  <1>4. ASSUME NEW p \in Programs, Kill(p) PROVE Recorded(b)'
    BY <1>0, <1>4, EndStage DEF Kill, End, Recorded
  <1>5. CASE UNCHANGED vars
    BY <1>0, <1>5 DEF vars, Recorded
  <1> QED
    BY <1>1, <1>2, <1>3, <1>4, <1>5 DEF Next

LEMMA InvInit == Init => AlertInv /\ Inv
  <1> SUFFICES ASSUME Init PROVE AlertInv /\ Inv
    OBVIOUS
  <1> USE DEF Init, Programs
  <1>1. TypeOK
    <2>1. stage \in StageType /\ fd \in FdType
      BY DEF StageType, FdType, Stages
    <2>2. file \in [Ids -> Contents] /\ tmp \in [Ids -> Contents]
      BY DEF Contents
    <2>3. kills \in 0..MaxKills /\ acks \in 0..MaxAcks
      BY BoundsAssumption
    <2>4. due \in [Ids -> BOOLEAN] /\ sweeping \in BOOLEAN
      OBVIOUS
    <2> QED
      BY <2>1, <2>2, <2>3, <2>4 DEF TypeOK, StageType, FdType
  <1>2. ASSUME NEW a \in Ids PROVE Recorded(a) /\ Swept(a)
    BY DEF Recorded, Swept
  <1>3. ASSUME NEW a \in Ids PROVE Calm(a)
    BY DEF Calm, Owns
  <1> QED
    BY <1>1, <1>2, <1>3 DEF AlertInv, Alert, Inv

\* Every variable keeps its type, for any number of alerts and faults.
THEOREM TypeOKHolds == Spec => []TypeOK
  <1>1. Init => Inv
    BY InvInit
  <1>2. Inv /\ [Next]_vars => Inv'
    BY TypeStep, RecordedStep DEF Inv
  <1>3. Inv => TypeOK
    BY DEF Inv
  <1> QED
    BY <1>1, <1>2, <1>3, PTL DEF Spec

-----------------------------------------------------------------------------
(* Acknowledgements that no sweep overlapped.                              *)

LEMMA SweptEnd ==
  ASSUME Inv, NEW b \in Ids, Swept(b), NEW p \in Programs, End(p)
  PROVE  Swept(b)'
  <1>1. p # "sweep" => todo' = todo /\ (sweeping' <=> sweeping)
    BY DEF End
  <1>2. p = "sweep" => todo' = {}
    BY DEF End
  <1>3. /\ stage'[p][b] = "idle"
        /\ p # "sweep" => stage'["sweep"][b] = stage["sweep"][b]
    <2>1. stage \in StageType /\ fd \in FdType
      BY DEF Inv, TypeOK, StageType, FdType
    <2> QED
      BY <2>1, EndStage DEF Programs
  <1>4. CASE p = "sweep"
    BY <1>2, <1>3, <1>4 DEF Swept
  <1>5. CASE p # "sweep"
    BY <1>1, <1>3, <1>5 DEF Swept
  <1> QED
    BY <1>4, <1>5

LEMMA SweptStep ==
  ASSUME Inv, AlertInv, [Next]_vars, NEW b \in Ids
  PROVE  Swept(b)'
  <1> USE DEF Programs, Stages
  <1>0. stage \in StageType /\ fd \in FdType /\ Swept(b)
    BY DEF Inv, TypeOK, StageType, FdType, AlertInv, Alert
  <1>1. ASSUME NEW a \in Ids, Report(a) \/ Ack(a) \/ Ripen(a)
        PROVE  Swept(b)'
    BY <1>0, <1>1, GotoStage DEF Report, Ack, Ripen, Swept
  <1>2. ASSUME NEW p \in Programs, NEW a \in Ids, WriteStep(p, a)
        PROVE  Swept(b)'
    <2>1. CASE ReplaceFail(p, a)
      BY <1>0, <2>1, SweptEnd DEF ReplaceFail
    <2>2. CASE ~ReplaceFail(p, a)
      <3>1. PICK s \in Stages : Goto(p, a, s)
        BY <1>2, <2>2 DEF WriteStep, Notified, Open, Flush, Replace
      <3>2. todo' = todo /\ sweeping' = sweeping /\ stage[p][a] # "idle"
        BY <1>2, <2>2 DEF WriteStep, Notified, Open, Flush, Replace
      <3> QED
        BY <1>0, <3>1, <3>2, GotoStage DEF Swept
    <2> QED
      BY <2>1, <2>2
  <1>3. CASE Sweep
    <2>1. CASE SweepStart
      BY <1>0, <2>1 DEF SweepStart, Swept
    <2>2. ASSUME NEW a \in Ids, SweepNext(a) PROVE Swept(b)'
      BY <1>0, <2>2, GotoStage DEF SweepNext, Swept
    <2>3. CASE SweepEnd
      BY <1>0, <2>3 DEF SweepEnd, Busy, Swept
    <2> QED
      BY <1>3, <2>1, <2>2, <2>3 DEF Sweep
  <1>4. ASSUME NEW p \in Programs, Kill(p) PROVE Swept(b)'
    BY <1>0, <1>4, SweptEnd DEF Kill
  <1>5. CASE UNCHANGED vars
    BY <1>0, <1>5 DEF vars, Swept
  <1> QED
    BY <1>1, <1>2, <1>3, <1>4, <1>5 DEF Next

\* One program at a time works on such an alert.
LEMMA Sole ==
  ASSUME NEW b \in Ids, Alert(b), b \notin raced,
         NEW p \in Programs, NEW q \in Programs,
         stage[p][b] # "idle", stage[q][b] # "idle"
  PROVE  p = q
  BY DEF Alert, Recorded, Swept, Calm, Programs

\* A write to one alert leaves the others alone, and so does a program that
\* ends the ones it was not writing.
LEMMA CalmOthers ==
  ASSUME NEW b \in Ids, Calm(b), sweeping' => sweeping,
         UNCHANGED <<file[b], tmp[b]>>,
         \A q \in Programs : \/ UNCHANGED <<stage[q][b], fd[q][b]>>
                             \/ stage'[q][b] = "idle",
         b \in todo' => b \in todo,
         b \in acknowledged' => b \in acknowledged
  PROVE  Calm(b)'
  BY DEF Calm, Owns, Programs

LEMMA CalmWrite ==
  ASSUME Inv, AlertInv, NEW p \in Programs, NEW b \in Ids, b \notin raced,
         WriteStep(p, b)
  PROVE  Calm(b)'
  <1> USE DEF Programs, Stages
  <1>0. /\ stage \in StageType /\ fd \in FdType /\ Alert(b) /\ Calm(b)
        /\ file \in [Ids -> Contents] /\ tmp \in [Ids -> Contents]
    BY DEF Inv, TypeOK, StageType, FdType, AlertInv, Alert
  <1>1. \A q \in Programs : stage[q][b] # "idle" /\ stage[p][b] # "idle"
                              => q = p
    BY <1>0, Sole
  <1>2. CASE Notified(p, b)
    BY <1>0, <1>2, GotoStage DEF Notified, Calm, Owns
  <1>3. CASE Open(p, b)
    <2>1. \A q \in Programs \ {p} : stage'[q][b] = "idle"
      BY <1>0, <1>1, <1>3, GotoStage DEF Open
    <2>2. /\ stage'[p][b] = "flush" /\ fd'[p][b] = "tmp"
          /\ tmp'[b] = "empty"
      <3>1. stage'[p][b] = "flush"
        BY <1>0, <1>3, GotoStage DEF Open
      <3>2. fd'[p][b] = "tmp"
        BY <1>0, <1>3, OpenFd DEF Open
      <3> QED
        BY <1>0, <1>3, <3>1, <3>2 DEF Open
    <2> QED
      BY <1>0, <1>3, <2>1, <2>2 DEF Open, Calm, Owns
  <1>4. CASE Flush(p, b)
    <2>1. \A q \in Programs \ {p} : stage'[q][b] = "idle"
      BY <1>0, <1>1, <1>4, GotoStage DEF Flush
    <2>2. stage'[p][b] = "replace"
      BY <1>0, <1>4, GotoStage DEF Flush
    <2>3. fd[p][b] = "tmp" /\ tmp[b] = "empty" /\ stage[p][b] = "flush"
      BY <1>0, <1>4 DEF Flush, Calm, Owns
    <2>4. tmp'[b] = Record(p) /\ file' = file
      BY <1>0, <1>4, <2>3 DEF Flush, Over
    <2> QED
      BY <1>0, <1>4, <2>1, <2>2, <2>3, <2>4 DEF Flush, Calm, Owns, Record
  <1>5. CASE Replace(p, b)
    <2>1. \A q \in Programs : stage'[q][b] = "idle"
      BY <1>0, <1>1, <1>5, GotoStage DEF Replace
    <2>2. file'[b] = Record(p) /\ stage[p][b] = "replace"
      BY <1>0, <1>5 DEF Replace, Calm, Owns
    <2>3. /\ todo' = todo /\ sweeping' = sweeping
          /\ b \in acknowledged' => b \in acknowledged \/ p = "ack"
      BY <1>5 DEF Replace, Acknowledge
    <2>4. p # "ack" => b \notin acknowledged
      BY <1>0, <2>2 DEF Calm, Alert, Recorded
    <2>5. file'[b] = "acked" => b \notin todo
      BY <1>0, <2>2 DEF Alert, Calm, Swept, Record
    <2> QED
      BY <2>1, <2>2, <2>3, <2>4, <2>5 DEF Calm, Owns, Record
  <1>6. CASE ReplaceFail(p, b)
    <2>1. \A q \in Programs : \/ UNCHANGED <<stage[q][b], fd[q][b]>>
                              \/ stage'[q][b] = "idle"
      BY <1>0, <1>6, EndStage DEF ReplaceFail
    <2> QED
      BY <1>0, <1>6, <2>1, CalmOthers DEF ReplaceFail, End
  <1> QED
    BY <1>2, <1>3, <1>4, <1>5, <1>6 DEF WriteStep

LEMMA CalmStep ==
  ASSUME Inv, AlertInv, [Next]_vars, NEW b \in Ids, b \notin raced'
  PROVE  Calm(b)'
  <1> USE DEF Programs, Stages
  <1>0. /\ stage \in StageType /\ fd \in FdType /\ Alert(b)
        /\ file \in [Ids -> Contents] /\ tmp \in [Ids -> Contents]
    BY DEF Inv, TypeOK, StageType, FdType, AlertInv, Alert
  <1>01. b \notin raced
    BY DEF Next, Report, Ack, Ripen, WriteStep, Notified, Open, Flush, Replace,
       ReplaceFail, Sweep, SweepStart, SweepNext, SweepEnd, Kill, vars
  <1>02. Calm(b)
    BY <1>0, <1>01 DEF Alert
  <1>1. ASSUME NEW a \in Ids, Report(a) PROVE Calm(b)'
    BY <1>0, <1>02, <1>1, GotoStage DEF Report, Calm, Owns
  <1>2. ASSUME NEW a \in Ids, Ack(a) PROVE Calm(b)'
    <2>1. a = b => ~sweeping
      BY <1>2 DEF Ack
    <2> QED
      BY <1>0, <1>02, <1>2, <2>1, GotoStage DEF Ack, Calm, Owns
  <1>3. ASSUME NEW a \in Ids, Ripen(a) PROVE Calm(b)'
    BY <1>02, <1>3 DEF Ripen, Calm, Owns
  <1>4. ASSUME NEW p \in Programs, NEW a \in Ids, WriteStep(p, a)
        PROVE  Calm(b)'
    <2>1. CASE a = b
      BY <1>01, <1>4, <2>1, CalmWrite
    <2>2. CASE a # b
      <3>1. /\ UNCHANGED <<file[b], tmp[b]>>
            /\ sweeping' => sweeping
            /\ b \in todo' => b \in todo
            /\ b \in acknowledged' => b \in acknowledged
        <4>1. CASE ReplaceFail(p, a)
          BY <4>1 DEF ReplaceFail, End
        <4>2. CASE Notified(p, a) \/ Open(p, a)
          BY <1>0, <2>2, <4>2 DEF Notified, Open
        <4>3. CASE Flush(p, a)
          BY <1>0, <2>2, <4>3 DEF Flush
        <4>4. CASE Replace(p, a)
          BY <1>0, <2>2, <4>4 DEF Replace, Acknowledge
        <4> QED
          BY <1>4, <4>1, <4>2, <4>3, <4>4 DEF WriteStep
      <3>2. CASE Notified(p, a) \/ Flush(p, a)
        <4>1. /\ fd' = fd
              /\ \A q \in Programs : stage'[q][b] = stage[q][b]
          BY <1>0, <2>2, <3>2, GotoStage DEF Notified, Flush
        <4> QED
          BY <1>02, <3>1, <4>1, CalmOthers
      <3>3. CASE Open(p, a)
        <4>1. \A q \in Programs : stage'[q][b] = stage[q][b]
          BY <1>0, <2>2, <3>3, GotoStage DEF Open
        <4>2. \A q \in Programs : fd'[q][b] = fd[q][b]
          BY <1>0, <2>2, <3>3, OpenFd DEF Open
        <4> QED
          BY <1>02, <3>1, <4>1, <4>2, CalmOthers
      <3>4. CASE Replace(p, a)
        <4>1. \A q \in Programs : stage'[q][b] = stage[q][b]
          BY <1>0, <2>2, <3>4, GotoStage DEF Replace
        <4>2. \A q \in Programs : fd'[q][b] = fd[q][b]
          BY <1>0, <2>2, <3>4, ReplaceFd
        <4> QED
          BY <1>02, <3>1, <4>1, <4>2, CalmOthers
      <3>5. CASE ReplaceFail(p, a)
        <4>1. \A q \in Programs : \/ UNCHANGED <<stage[q][b], fd[q][b]>>
                                  \/ stage'[q][b] = "idle"
          BY <1>0, <3>5, EndStage DEF ReplaceFail
        <4> QED
          BY <1>02, <3>1, <4>1, CalmOthers
      <3> QED
        BY <1>4, <3>2, <3>3, <3>4, <3>5 DEF WriteStep
    <2> QED
      BY <2>1, <2>2
  <1>5. CASE SweepStart
    <2>1. stage["ack"][b] = "idle"
      BY <1>5 DEF SweepStart, Busy
    <2> QED
      BY <1>02, <1>5, <2>1 DEF SweepStart, Quiet, Calm, Owns
  <1>6. ASSUME NEW a \in Ids, SweepNext(a) PROVE Calm(b)'
    BY <1>0, <1>02, <1>6, GotoStage DEF SweepNext, Calm, Owns
  <1>7. CASE SweepEnd
    BY <1>02, <1>7 DEF SweepEnd, Calm, Owns
  <1>8. ASSUME NEW p \in Programs, Kill(p) PROVE Calm(b)'
    <2>1. /\ UNCHANGED <<file, tmp, acknowledged>>
          /\ sweeping' => sweeping
          /\ b \in todo' => b \in todo
      BY <1>8 DEF Kill, End
    <2>2. \A q \in Programs : \/ UNCHANGED <<stage[q][b], fd[q][b]>>
                              \/ stage'[q][b] = "idle"
      BY <1>0, <1>8, EndStage DEF Kill
    <2> QED
      BY <1>02, <2>1, <2>2, CalmOthers
  <1>9. CASE UNCHANGED vars
    BY <1>02, <1>9 DEF vars, Calm, Owns
  <1> QED
    BY <1>1, <1>2, <1>3, <1>4, <1>5, <1>6, <1>7, <1>8, <1>9 DEF Next, Sweep

THEOREM AlertInvHolds == Spec => [](Inv /\ AlertInv)
  <1>1. Init => Inv /\ AlertInv
    BY InvInit
  <1>2. Inv /\ AlertInv /\ [Next]_vars => Inv' /\ AlertInv'
    <2> SUFFICES ASSUME Inv, AlertInv, [Next]_vars
                 PROVE  Inv' /\ AlertInv'
      OBVIOUS
    <2>1. \A b \in Ids : Recorded(b)' /\ Swept(b)'
      BY RecordedStep, SweptStep
    <2>2. \A b \in Ids : b \notin raced' => Calm(b)'
      BY CalmStep
    <2> QED
      BY <2>1, <2>2, TypeStep DEF Inv, AlertInv, Alert
  <1> QED
    BY <1>1, <1>2, PTL DEF Spec

\* An acknowledgement that no sweep overlapped is final.
THEOREM AcksAreFinalHolds == Spec => []AcksAreFinal
  <1>1. Inv /\ AlertInv => AcksAreFinal
    BY DEF Inv, TypeOK, AlertInv, Alert, Calm, AcksAreFinal
  <1> QED
    BY <1>1, AlertInvHolds, PTL

\* The record of such an alert stays readable, and open until somebody
\* acknowledges it.
THEOREM RecordsStayHolds == Spec => RecordsStay
  <1>1. ASSUME Inv, AlertInv, [Next]_vars, NEW b \in Ids \ raced,
               file[b] = "open"
        PROVE  file'[b] = "open" \/ (file'[b] = "acked" /\ b \in Busy("ack"))
    <2> USE <1>1
    <2>0. Calm(b) /\ file \in [Ids -> Contents] /\ Recorded(b)
      BY DEF Inv, TypeOK, AlertInv, Alert
    <2>1. ASSUME NEW p \in Programs, NEW a \in Ids, Flush(p, a)
          PROVE  file'[b] = file[b]
      <3>1. a = b => fd[p][a] = "tmp"
        BY <2>0, <2>1 DEF Flush, Calm, Owns
      <3> QED
        BY <2>0, <2>1, <3>1 DEF Flush
    <2>2. ASSUME NEW p \in Programs, NEW a \in Ids, Replace(p, a)
          PROVE  file'[b] = file[b]
                 \/ (file'[b] = "acked" /\ b \in Busy("ack"))
                 \/ file'[b] = "open"
      BY <2>0, <2>2 DEF Replace, Calm, Owns, Record, Busy
    <2>3. CASE file' = file
      BY <2>3
    <2>4. \/ file' = file
          \/ \E p \in Programs, a \in Ids : Flush(p, a) \/ Replace(p, a)
      BY DEF Next, Report, Ack, Ripen, WriteStep, Notified, Open, ReplaceFail,
         Sweep, SweepStart, SweepNext, SweepEnd, Kill, vars
    <2> QED
      BY <2>1, <2>2, <2>3, <2>4
  <1>2. Inv /\ AlertInv /\ [Next]_vars
          => [\A a \in Ids \ raced : file[a] = "open" =>
                \/ file'[a] = "open"
                \/ file'[a] = "acked" /\ a \in Busy("ack")]_vars
    BY <1>1
  <1> QED
    BY <1>2, AlertInvHolds, PTL DEF Spec, RecordsStay

=============================================================================
