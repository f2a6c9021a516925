----------------------------- MODULE GateProofs -----------------------------
(* Proofs about module Gate, for all values of its constants.              *)
EXTENDS Gate, TLAPS

\* The marker and the operator's command: what makes the reports true.
Report ==
    /\ op.step # "idle" => told = "nothing"
    /\ told = "locked" => marker.reader = "nobody"
    /\ told = "unlocked" => marker.reader = "broker"

\* Every time the operator asked for is at most MaxMinutes ahead.
Near ==
    /\ marker.until <= now + MaxMinutes
    /\ op.until <= now + MaxMinutes

\* store writes what a command printed.
Traced(c) ==
    /\ step[c] = "write" /\ tool[c] = "store" =>
          /\ value[c] = out[c].parts /\ value[c] # {}
          /\ out[c].end = "ok"

Results ==
    /\ \A c \in Callers : Traced(c)
    /\ StoredIsMinted

-----------------------------------------------------------------------------
\* Bounds are natural numbers.
LEMMA Bounds ==
    MaxMinutes \in Nat /\ MaxTime \in Nat /\ MaxCommands \in Nat /\ MaxCalls \in Nat
  BY BoundsAssumption

\* A call that does not start leaves the typed call variables typed.
LEMMA ReturnTyped ==
    ASSUME TypeOK, NEW c \in Callers, Return(c),
           stored' \subseteq [value : SUBSET Parts, output : Outputs]
    PROVE  TypeOK'
  <1>1. Nothing \in Outputs
    BY DEF Nothing, Outputs, AnyPipe
  <1> QED BY <1>1 DEF TypeOK, Return, Goto, gateVars

\* Operator steps and the clock keep the types.
LEMMA OperatorTyped ==
    ASSUME TypeOK, Tick \/ Operator
    PROVE  TypeOK'
  <1> USE Bounds
  <1>1. CASE Tick
    BY <1>1 DEF TypeOK, Tick, callVars
  <1>2. ASSUME NEW m \in 1..MaxMinutes, UnlockBegin(m) PROVE TypeOK'
    BY <1>2 DEF TypeOK, UnlockBegin, Invoke, Command, callVars
  <1>3. CASE UnlockWrite
    BY <1>3 DEF TypeOK, UnlockWrite, Command, callVars
  <1>4. CASE UnlockDenied
    BY <1>4 DEF TypeOK, UnlockDenied, Command, callVars
  <1>5. CASE UnlockHand
    BY <1>5 DEF TypeOK, UnlockHand, Command, callVars
  <1>6. CASE UnlockConfirm
    BY <1>6 DEF TypeOK, UnlockConfirm, Command, callVars
  <1>7. CASE Lock
    BY <1>7 DEF TypeOK, Lock, Invoke, Command, callVars
  <1>8. CASE LockDenied
    BY <1>8 DEF TypeOK, LockDenied, Invoke, Command, callVars
  <1>9. CASE Interrupt
    BY <1>9 DEF TypeOK, Interrupt, Command, callVars
  <1> QED
    BY <1>1, <1>2, <1>3, <1>4, <1>5, <1>6, <1>7, <1>8, <1>9 DEF Operator, Unlock

\* So do the steps of a call.
LEMMA CallTyped ==
    ASSUME TypeOK, NEW c \in Callers, Start(c) \/ Proceed(c) \/ Drain(c)
    PROVE  TypeOK'
  <1> USE Bounds
  <1>1. ASSUME NEW t \in {"run", "store", "other"}, Refuse(c, t) PROVE TypeOK'
    BY <1>1 DEF TypeOK, Refuse, gateVars, callVars
  <1>2. ASSUME NEW t \in {"run", "store", "other"}, NEW R \in SUBSET Refs,
               Begin(c, t, R)
        PROVE  TypeOK'
    <2>1. got'[c] = got[c] /\ step[c] = "idle"
      BY <1>2 DEF Begin
    <2> QED BY <1>2, <2>1 DEF TypeOK, Begin, gateVars
  <1>3. ASSUME NEW r \in Refs, Resolve(c, r) PROVE TypeOK'
    BY <1>3 DEF TypeOK, Resolve, gateVars
  <1>4. CASE ResolveFail(c)
    BY <1>4, ReturnTyped DEF ResolveFail, TypeOK
  <1>5. ASSUME NEW o \in Outputs, Launch(c, o) PROVE TypeOK'
    BY <1>5 DEF TypeOK, Launch, Goto, gateVars
  <1>6. CASE Finish(c)
    BY <1>6 DEF TypeOK, Finish, Goto, gateVars
  <1>7. CASE Timeout(c)
    <2>1. [out[c] EXCEPT !.end = "late"] \in Outputs
      BY DEF TypeOK, Outputs
    <2> QED BY <1>7, <2>1 DEF TypeOK, Timeout, Goto, gateVars
  <1>8. CASE Reply(c)
    BY <1>8, ReturnTyped DEF Reply, TypeOK
  <1>9. CASE Mint(c)
    <2>1. PICK kept \in Cut(out[c]) : value' = [value EXCEPT ![c] = Clean(c, kept)]
      BY <1>9 DEF Mint
    <2>2. kept \subseteq Parts
      BY DEF Cut, TypeOK, Outputs
    <2> QED BY <1>9, <2>1, <2>2 DEF Mint, Clean, TypeOK, Goto, gateVars
  <1>10. CASE MintRefuse(c)
    BY <1>10, ReturnTyped DEF MintRefuse, TypeOK
  <1>11. CASE Write(c)
    BY <1>11, ReturnTyped DEF Write, TypeOK
  <1>12. CASE WriteFail(c)
    BY <1>12, ReturnTyped DEF WriteFail, TypeOK
  <1>13. CASE Drain(c)
    BY <1>13 DEF TypeOK, Drain, Goto, gateVars
  <1> QED
    BY <1>1, <1>2, <1>3, <1>4, <1>5, <1>6, <1>7, <1>8, <1>9, <1>10, <1>11,
       <1>12, <1>13 DEF Start, Proceed, Ask

\* Types are kept, whatever the bounds.
THEOREM TypeCorrect == Spec => []TypeOK
  <1>1. Init => TypeOK
    BY Bounds DEF Init, TypeOK, Nothing, Outputs, AnyPipe, Parts
  <1>2. TypeOK /\ [Next]_vars => TypeOK'
    <2> SUFFICES ASSUME TypeOK, [Next]_vars PROVE TypeOK'
      OBVIOUS
    <2>1. CASE UNCHANGED vars
      BY <2>1 DEF TypeOK, vars, gateVars, callVars
    <2>2. CASE Next
      BY <2>2, OperatorTyped, CallTyped DEF Next
    <2> QED BY <2>1, <2>2
  <1> QED BY <1>1, <1>2, PTL DEF Spec

-----------------------------------------------------------------------------
\* Nothing a call does changes the clock, the marker or the operator's command.
LEMMA CallsKeepGate ==
    ASSUME NEW c \in Callers, Start(c) \/ Proceed(c) \/ Drain(c)
    PROVE  UNCHANGED gateVars
  BY DEF Start, Refuse, Begin, Proceed, Ask, Resolve, ResolveFail, Launch, Finish,
         Timeout, Drain, Reply, Mint, MintRefuse, Write, WriteFail, Return

\* What was reported, and what the marker looks like, change together.
LEMMA ReportInductive ==
    ASSUME TypeOK, Report, [Next]_vars
    PROVE  Report'
  <1>1. CASE UNCHANGED gateVars
    BY <1>1 DEF Report, gateVars
  <1>2. CASE Tick
    BY <1>2 DEF Report, Tick
  <1>3. ASSUME NEW m \in 1..MaxMinutes, UnlockBegin(m) PROVE Report'
    BY <1>3 DEF Report, UnlockBegin, Invoke, Command
  <1>4. CASE UnlockWrite
    BY <1>4 DEF Report, UnlockWrite, Command
  <1>5. CASE UnlockDenied
    BY <1>5 DEF Report, UnlockDenied, Command
  <1>6. CASE UnlockHand
    BY <1>6 DEF Report, UnlockHand, Command
  <1>7. CASE UnlockConfirm
    BY <1>7 DEF Report, UnlockConfirm, Command, Open
  <1>8. CASE Lock
    BY <1>8 DEF Report, Lock, Invoke, Command
  <1>9. CASE LockDenied
    BY <1>9 DEF Report, LockDenied, Invoke, Command
  <1>10. CASE Interrupt
    BY <1>10 DEF Report, Interrupt, Command
  <1>11. ASSUME NEW c \in Callers, Start(c) \/ Proceed(c) \/ Drain(c)
         PROVE  Report'
    BY <1>1, <1>11, CallsKeepGate
  <1>12. CASE UNCHANGED vars
    BY <1>1, <1>12 DEF vars
  <1> QED
    BY <1>2, <1>3, <1>4, <1>5, <1>6, <1>7, <1>8, <1>9, <1>10, <1>11, <1>12
       DEF Next, Operator, Unlock

\* After `lock` the vault is locked, after a confirmed `unlock` it is open until
\* the grant expires: a report is only made when the marker agrees, and the
\* marker only changes while there is no report.
THEOREM OperatorIsToldTheTruthHolds == Spec => []OperatorIsToldTheTruth
  <1>1. Init => Report
    BY DEF Init, Report
  <1>2. TypeOK /\ Report /\ [Next]_vars => Report'
    BY ReportInductive
  <1>3. TypeOK /\ Report => OperatorIsToldTheTruth
    BY BoundsAssumption DEF TypeOK, Report, OperatorIsToldTheTruth, Open
  <1> QED BY <1>1, <1>2, <1>3, TypeCorrect, PTL DEF Spec

\* Every time ever granted or about to be granted lies within MaxMinutes.
LEMMA NearInductive ==
    ASSUME TypeOK, Near, [Next]_vars
    PROVE  Near'
  <1> USE Bounds
  <1>1. CASE UNCHANGED gateVars
    BY <1>1 DEF Near, gateVars
  <1>2. CASE Tick
    BY <1>2 DEF TypeOK, Near, Tick
  <1>3. ASSUME NEW m \in 1..MaxMinutes, UnlockBegin(m) PROVE Near'
    BY <1>3 DEF TypeOK, Near, UnlockBegin, Invoke, Command
  <1>4. CASE UnlockWrite
    BY <1>4 DEF TypeOK, Near, UnlockWrite, Command
  <1>5. CASE UnlockDenied
    BY <1>5 DEF TypeOK, Near, UnlockDenied, Command
  <1>6. CASE UnlockHand
    BY <1>6 DEF TypeOK, Near, UnlockHand, Command
  <1>7. CASE UnlockConfirm
    BY <1>7 DEF TypeOK, Near, UnlockConfirm, Command
  <1>8. CASE Lock
    BY <1>8 DEF TypeOK, Near, Lock, Invoke, Command
  <1>9. CASE LockDenied
    BY <1>9 DEF TypeOK, Near, LockDenied, Invoke, Command
  <1>10. CASE Interrupt
    BY <1>10 DEF TypeOK, Near, Interrupt, Command
  <1>11. ASSUME NEW c \in Callers, Start(c) \/ Proceed(c) \/ Drain(c)
         PROVE  Near'
    BY <1>1, <1>11, CallsKeepGate
  <1>12. CASE UNCHANGED vars
    BY <1>1, <1>12 DEF vars
  <1> QED
    BY <1>2, <1>3, <1>4, <1>5, <1>6, <1>7, <1>8, <1>9, <1>10, <1>11, <1>12
       DEF Next, Operator, Unlock

\* However unlocks follow one another, none holds for longer than MaxMinutes
\* from now.
THEOREM GrantsAreBoundedHolds == Spec => []GrantsAreBounded
  <1>1. Init => Near
    BY Bounds DEF Init, Near
  <1>2. TypeOK /\ Near /\ [Next]_vars => Near'
    BY NearInductive
  <1>3. Near => GrantsAreBounded
    BY DEF Near, GrantsAreBounded
  <1> QED BY <1>1, <1>2, <1>3, TypeCorrect, PTL DEF Spec

\* Once `lock` has returned, no tool call gets past the gates until the next
\* unlock: the marker the tools look at is gone.
THEOREM LockedVaultStartsNothingHolds == Spec => LockedVaultStartsNothing
  <1>1. ASSUME TypeOK, Report, [Next]_vars, told = "locked",
               NEW c \in Callers, step[c] = "idle"
        PROVE  step'[c] = "idle"
    <2>1. ~Open
      BY <1>1 DEF Report, Open
    <2>2. ASSUME NEW d \in Callers, Start(d) PROVE step'[c] = "idle"
      BY <1>1, <2>1, <2>2 DEF Start, Refuse, Begin, Admitted, callVars
    <2>3. ASSUME NEW d \in Callers, Proceed(d) \/ Drain(d) PROVE step'[c] = "idle"
      BY <1>1, <2>3 DEF TypeOK, Proceed, Ask, Resolve, ResolveFail, Launch, Finish,
         Timeout, Drain, Reply, Mint, MintRefuse, Write, WriteFail, Return, Goto
    <2>4. CASE Tick \/ Operator
      BY <1>1, <2>4 DEF Tick, Operator, Unlock, UnlockBegin, UnlockWrite,
         UnlockDenied, UnlockHand, UnlockConfirm, Lock, LockDenied, Interrupt,
         Invoke, Command, callVars
    <2>5. CASE UNCHANGED vars
      BY <1>1, <2>5 DEF vars, callVars
    <2> QED BY <1>1, <2>2, <2>3, <2>4, <2>5 DEF Next
  <1>2. TypeOK /\ Report /\ [Next]_vars =>
          [told = "locked" => \A c \in Callers :
             step[c] = "idle" => step'[c] = "idle"]_vars
    BY <1>1
  <1>3. Init => Report
    BY DEF Init, Report
  <1>4. TypeOK /\ Report /\ [Next]_vars => Report'
    BY ReportInductive
  <1> QED BY <1>2, <1>3, <1>4, TypeCorrect, PTL DEF Spec, LockedVaultStartsNothing

-----------------------------------------------------------------------------
\* A call that returns leaves nothing behind.
LEMMA ReturnTraced ==
    ASSUME TypeOK, NEW c \in Callers, NEW d \in Callers, Traced(d), Return(c)
    PROVE  Traced(d)'
  <1>1. CASE d = c
    BY <1>1 DEF TypeOK, Traced, Return, Goto, Nothing
  <1>2. CASE d # c
    BY <1>2 DEF TypeOK, Traced, Return, Goto
  <1> QED BY <1>1, <1>2

\* What a call is about to store is what its command printed.
LEMMA TracedInductive ==
    ASSUME TypeOK, NEW d \in Callers, Traced(d), [Next]_vars
    PROVE  Traced(d)'
  <1>1. CASE UNCHANGED callVars
    BY <1>1 DEF Traced, callVars
  <1>2. CASE Tick \/ Operator
    BY <1>1, <1>2 DEF Tick, Operator, Unlock, UnlockBegin, UnlockWrite,
       UnlockDenied, UnlockHand, UnlockConfirm, Lock, LockDenied, Interrupt,
       Invoke, Command
  <1>3. ASSUME NEW c \in Callers, Start(c) PROVE Traced(d)'
    <2>1. ASSUME NEW t \in {"run", "store", "other"}, Refuse(c, t)
          PROVE  Traced(d)'
      BY <1>1, <2>1 DEF Refuse
    <2>2. ASSUME NEW t \in {"run", "store", "other"}, NEW R \in SUBSET Refs,
                 Begin(c, t, R)
          PROVE  Traced(d)'
      BY <2>2 DEF TypeOK, Traced, Begin
    <2> QED BY <1>3, <2>1, <2>2 DEF Start
  <1>4. ASSUME NEW c \in Callers, NEW r \in Refs, Resolve(c, r) PROVE Traced(d)'
    BY <1>4 DEF TypeOK, Traced, Resolve
  <1>5. ASSUME NEW c \in Callers, NEW o \in Outputs, Launch(c, o) PROVE Traced(d)'
    BY <1>5 DEF TypeOK, Traced, Launch, Goto
  <1>6. ASSUME NEW c \in Callers, Finish(c) \/ Drain(c) PROVE Traced(d)'
    BY <1>6 DEF TypeOK, Traced, Finish, Drain, Goto
  <1>7. ASSUME NEW c \in Callers, Timeout(c) PROVE Traced(d)'
    BY <1>7 DEF TypeOK, Traced, Timeout, Goto, Outputs
  <1>8. ASSUME NEW c \in Callers, Mint(c) PROVE Traced(d)'
    <2>1. PICK kept \in Cut(out[c]) :
            /\ Storable(c, kept)
            /\ value' = [value EXCEPT ![c] = Clean(c, kept)]
      BY <1>8 DEF Mint
    <2>2. kept = out[c].parts /\ Clean(c, kept) = kept
      BY <2>1 DEF Cut, Storable, Clean, TypeOK, Outputs
    <2> QED BY <1>8, <2>1, <2>2 DEF TypeOK, Traced, Mint, Storable, Goto
  <1>9. ASSUME NEW c \in Callers,
               ResolveFail(c) \/ Reply(c) \/ MintRefuse(c) \/ Write(c) \/ WriteFail(c)
        PROVE  Traced(d)'
    BY <1>9, ReturnTraced DEF ResolveFail, Reply, MintRefuse, Write, WriteFail
  <1>10. CASE UNCHANGED vars
    BY <1>1, <1>10 DEF vars
  <1> QED
    BY <1>2, <1>3, <1>4, <1>5, <1>6, <1>7, <1>8, <1>9, <1>10
       DEF Next, Proceed, Ask

\* What is stored is as good as what the call held.
LEMMA ResultsInductive ==
    ASSUME TypeOK, Results, [Next]_vars
    PROVE  StoredIsMinted'
  <1>1. CASE UNCHANGED stored
    BY <1>1 DEF Results, StoredIsMinted
  <1>2. ASSUME NEW c \in Callers, Reply(c) PROVE StoredIsMinted'
    BY <1>1, <1>2 DEF Reply
  <1>3. ASSUME NEW c \in Callers, Write(c)
        PROVE  StoredIsMinted'
    BY <1>3 DEF Write, Results, Traced, StoredIsMinted
  <1>4. CASE Tick \/ Operator
    BY <1>1, <1>4 DEF Tick, Operator, Unlock, UnlockBegin, UnlockWrite,
       UnlockDenied, UnlockHand, UnlockConfirm, Lock, LockDenied, Interrupt,
       Invoke, Command
  <1>5. ASSUME NEW c \in Callers,
               Start(c) \/ Ask(c) \/ Finish(c) \/ Timeout(c) \/ Drain(c) \/ Mint(c)
                 \/ MintRefuse(c) \/ WriteFail(c)
        PROVE  StoredIsMinted'
    BY <1>1, <1>5 DEF Start, Refuse, Begin, Ask, Resolve, ResolveFail, Launch,
       Finish, Timeout, Drain, Mint, MintRefuse, WriteFail
  <1>6. CASE UNCHANGED vars
    BY <1>1, <1>6 DEF vars
  <1> QED BY <1>2, <1>3, <1>4, <1>5, <1>6 DEF Next, Proceed

\* Results is an invariant.
LEMMA ResultsHold == Spec => []Results
  <1>1. Init => Results
    BY DEF Init, Results, Traced, StoredIsMinted, Nothing
  <1>2. TypeOK /\ Results /\ [Next]_vars => Results'
    BY TracedInductive, ResultsInductive DEF Results
  <1> QED BY <1>1, <1>2, TypeCorrect, PTL DEF Spec

\* store never writes a prefix, a placeholder or the output of a failed command,
\* for any number of calls at a time and any references.
THEOREM StoredIsMintedHolds == Spec => []StoredIsMinted
  <1>1. Results => StoredIsMinted
    BY DEF Results
  <1> QED BY <1>1, ResultsHold, PTL
=============================================================================
