---------------------------- MODULE BridgeProofs ----------------------------
(***************************************************************************)
(* What holds of Bridge for any sets of requests and relays, any kinds of  *)
(* message and any number of faults.                                       *)
(***************************************************************************)
EXTENDS Bridge, TLAPS

USE DEF Faults, BothDirs, Replies, WorkerStates, CallStates

-----------------------------------------------------------------------------
(* Type correctness.                                                       *)

LEMMA TypeInit == Init => TypeOK
  BY DEF Init, TypeOK

LEMMA TypeStep == TypeOK /\ [Next]_vars => TypeOK'
  <1> SUFFICES ASSUME TypeOK, [Next]_vars
               PROVE  TypeOK'
    OBVIOUS
  <1> USE DEF TypeOK
  <1>1. CASE ClientProcess
    <2>1. CASE ClientEnsureQueue
      BY <2>1 DEF ClientEnsureQueue, relayVars, daemonVars
    <2>2. CASE ClientServe
      BY <2>2 DEF ClientServe, queueVars, relayVars, daemonVars
    <2>3. CASE ClientGiveUp
      BY <2>3 DEF ClientGiveUp, queueVars, relayVars, daemonVars
    <2>4. CASE ClientExit
      BY <2>4 DEF ClientExit, queueVars, relayVars, daemonVars
    <2> QED
      BY <1>1, <2>1, <2>2, <2>3, <2>4 DEF ClientProcess
  <1>2. CASE \E r \in Requests : ClientStep(r)
    <2> PICK r \in Requests : ClientStep(r)
      BY <1>2
    <2>1. CASE Submit(r)
      BY <2>1 DEF Submit, relayVars, daemonVars
    <2>2. CASE SubmitFail(r)
      BY <2>2 DEF SubmitFail, queueVars, relayVars, daemonVars
    <2>3. CASE ReadReply(r)
      BY <2>3 DEF ReadReply, Printed, relayVars, daemonVars
    <2>4. CASE ClientTimeout(r)
      BY <2>4 DEF ClientTimeout, queueVars, relayVars, daemonVars
    <2> QED
      BY <2>1, <2>2, <2>3, <2>4 DEF ClientStep
  <1>3. CASE \E b \in Relays : LoopStep(b)
    <2> PICK b \in Relays : LoopStep(b)
      BY <1>3
    <2>1. CASE RelayStart(b)
      BY <2>1 DEF RelayStart, clientVars, daemonVars
    <2>2. CASE List(b)
      BY <2>2 DEF List, clientVars, queueVars, daemonVars
    <2>3. CASE Rebuild(b)
      BY <2>3 DEF Rebuild, clientVars, daemonVars
    <2>4. ASSUME NEW r \in Requests, Claim(b, r) PROVE TypeOK'
      BY <2>4 DEF Claim, clientVars, daemonVars
    <2>5. ASSUME NEW r \in Requests, ClaimFail(b, r) PROVE TypeOK'
      BY <2>5 DEF ClaimFail, clientVars, queueVars, daemonVars
    <2> QED
      BY <2>1, <2>2, <2>3, <2>4, <2>5 DEF LoopStep
  <1>4. CASE \E b \in Relays, r \in Requests : WorkerStep(b, r) \/ DaemonStep(b, r)
    <2> PICK b \in Relays, r \in Requests : WorkerStep(b, r) \/ DaemonStep(b, r)
      BY <1>4
    <2>0. ASSUME NEW s \in WorkerStates, Goto(b, r, s)
          PROVE  worker' \in [Relays -> [Requests -> WorkerStates]]
      BY <2>0 DEF Goto
    <2>1. CASE Load(b, r)
      BY <2>0, <2>1 DEF Load, clientVars, daemonVars
    <2>2. CASE LoadFail(b, r)
      BY <2>0, <2>2 DEF LoadFail, clientVars, queueVars, daemonVars
    <2>3. CASE Send(b, r)
      BY <2>0, <2>3 DEF Send, clientVars, queueVars
    <2>4. CASE SendFail(b, r)
      BY <2>0, <2>4 DEF SendFail, Failed, clientVars, queueVars, daemonVars
    <2>5. CASE Receive(b, r)
      BY <2>0, <2>5 DEF Receive, Failed, clientVars, queueVars, daemonVars
    <2>6. CASE RecvTimeout(b, r)
      BY <2>0, <2>6 DEF RecvTimeout, Failed, clientVars, queueVars, daemonVars
    <2>7. CASE WriteReply(b, r)
      BY <2>0, <2>7 DEF WriteReply, clientVars, daemonVars
    <2>8. CASE Execute(b, r)
      BY <2>8 DEF Execute, clientVars, queueVars, relayVars
    <2>9. CASE Respond(b, r)
      BY <2>9 DEF Respond, clientVars, queueVars, relayVars
    <2> QED
      BY <2>1, <2>2, <2>3, <2>4, <2>5, <2>6, <2>7, <2>8, <2>9
      DEF WorkerStep, DaemonStep
  <1>5. CASE DaemonStart
    BY <1>5 DEF DaemonStart, clientVars, queueVars, relayVars
  <1>6. CASE Environment
    <2>1. ASSUME NEW b \in Relays, RelayCrash(b) PROVE TypeOK'
      BY <2>1 DEF RelayCrash, Strike, clientVars, queueVars, daemonVars
    <2>2. CASE DaemonCrash
      <3>1. \A b \in Relays, r \in Requests :
              (CASE call[b][r] = "buffered" -> "reset"
                 [] call[b][r] \in {"executing", "silent"} -> "eof"
                 [] OTHER -> call[b][r]) \in CallStates
        OBVIOUS
      <3>2. call' \in [Relays -> [Requests -> CallStates]]
        BY <2>2, <3>1 DEF DaemonCrash
      <3>3. faults' \in [Faults -> Nat]
        BY <2>2 DEF DaemonCrash, Strike
      <3> QED
        BY <2>2, <3>2, <3>3
        DEF DaemonCrash, clientVars, queueVars, relayVars
    <2>3. ASSUME NEW d \in BothDirs, Clean(d) PROVE TypeOK'
      BY <2>3 DEF Clean, Strike, clientVars, relayVars, daemonVars
    <2>4. CASE BeatExpires
      BY <2>4 DEF BeatExpires, clientVars, queueVars, daemonVars
    <2> QED
      BY <1>6, <2>1, <2>2, <2>3, <2>4 DEF Environment
  <1>7. CASE UNCHANGED vars
    BY <1>7 DEF vars, clientVars, queueVars, relayVars, daemonVars
  <1> QED
    BY <1>1, <1>2, <1>3, <1>4, <1>5, <1>6, <1>7 DEF Next

\* Every variable keeps its type in every behaviour of the bridge.
THEOREM TypeCorrect == Spec => []TypeOK
  <1>1. Init => TypeOK
    BY TypeInit
  <1>2. TypeOK /\ [Next]_vars => TypeOK'
    BY TypeStep
  <1> QED
    BY <1>1, <1>2, PTL DEF Spec

-----------------------------------------------------------------------------
(* The path of a message: OneFlow is inductive.                            *)

LEMMA FlowInit == Init => OneFlow
  BY DEF Init, OneFlow, Flow, Untouched, Unclaimed, SoleWorker, SentByWorker,
     Begun, Counted, Earned, RepliedByWorker, ToldOnce

\* The steps of a worker change one entry of the array of workers.
LEMMA GotoOne ==
  ASSUME TypeOK, NEW b \in Relays, NEW r \in Requests, NEW s, Goto(b, r, s)
  PROVE  /\ worker'[b][r] = s
         /\ \A c \in Relays, q \in Requests :
              c # b \/ q # r => worker'[c][q] = worker[c][q]
  BY DEF TypeOK, Goto

\* Where the client and its files stay as they are, and so do the other
\* requests, only the claims about workers, connections and executions move.
LEMMA FlowStep ==
  ASSUME TypeOK, OneFlow, [Next]_vars
  PROVE  OneFlow'
  <1> SUFFICES ASSUME NEW q \in Requests
               PROVE  Flow(q)'
    BY DEF OneFlow
  <1> Flow(q)
    BY DEF OneFlow
  <1> USE DEF Flow, Untouched, Unclaimed, SoleWorker, SentByWorker, Begun,
              Counted, Earned, RepliedByWorker, ToldOnce
  <1>1. CASE ClientProcess
    <2>1. CASE ClientEnsureQueue
      BY <2>1 DEF ClientEnsureQueue, relayVars, daemonVars
    <2>2. CASE ClientServe
      BY <2>2 DEF ClientServe, queueVars, relayVars, daemonVars
    <2>3. CASE ClientGiveUp
      BY <2>3 DEF ClientGiveUp, queueVars, relayVars, daemonVars
    <2>4. CASE ClientExit
      BY <2>4 DEF ClientExit, queueVars, relayVars, daemonVars
    <2> QED
      BY <1>1, <2>1, <2>2, <2>3, <2>4 DEF ClientProcess
  <1>2. CASE \E r \in Requests : ClientStep(r)
    <2> PICK r \in Requests : ClientStep(r)
      BY <1>2
    <2>1. CASE Submit(r)
      BY <2>1 DEF Submit, relayVars, daemonVars, TypeOK
    <2>2. CASE SubmitFail(r)
      BY <2>2 DEF SubmitFail, queueVars, relayVars, daemonVars, TypeOK
    <2>3. CASE ReadReply(r)
      BY <2>3 DEF ReadReply, Printed, relayVars, daemonVars, TypeOK
    <2>4. CASE ClientTimeout(r)
      BY <2>4 DEF ClientTimeout, queueVars, relayVars, daemonVars, TypeOK
    <2> QED
      BY <2>1, <2>2, <2>3, <2>4 DEF ClientStep
  <1>3. CASE \E b \in Relays : LoopStep(b)
    <2> PICK b \in Relays : LoopStep(b)
      BY <1>3
    <2>1. CASE RelayStart(b)
      BY <2>1 DEF RelayStart, clientVars, daemonVars
    <2>2. CASE List(b)
      BY <2>2 DEF List, clientVars, queueVars, daemonVars
    <2>3. CASE Rebuild(b)
      BY <2>3 DEF Rebuild, clientVars, daemonVars
    <2>4. ASSUME NEW r \in Requests, Claim(b, r) PROVE Flow(q)'
      <3>1. Goto(b, r, "claimed")
        BY <2>4 DEF Claim, Goto
      <3>2. /\ worker'[b][r] = "claimed"
            /\ \A c \in Relays, x \in Requests :
                 c # b \/ x # r => worker'[c][x] = worker[c][x]
        BY <3>1, GotoOne
      <3>3. /\ reqFile[r] = "queued" /\ reqFile'[r] = "taken"
            /\ \A x \in Requests \ {r} : reqFile'[x] = reqFile[x]
        BY <2>4 DEF Claim, TypeOK
      <3>4. UNCHANGED <<thread, answer, respFile, call, executed>>
        BY <2>4 DEF Claim, clientVars, daemonVars
      <3> QED
        BY <3>2, <3>3, <3>4
    <2>5. ASSUME NEW r \in Requests, ClaimFail(b, r) PROVE Flow(q)'
      BY <2>5 DEF ClaimFail, clientVars, queueVars, daemonVars
    <2> QED
      BY <2>1, <2>2, <2>3, <2>4, <2>5 DEF LoopStep
  <1>4. CASE \E b \in Relays, r \in Requests : WorkerStep(b, r) \/ DaemonStep(b, r)
    <2> PICK b \in Relays, r \in Requests : WorkerStep(b, r) \/ DaemonStep(b, r)
      BY <1>4
    <2>1. CASE Load(b, r)
      <3>1. /\ worker[b][r] = "claimed" /\ worker'[b][r] = "loaded"
            /\ \A c \in Relays, x \in Requests :
                 c # b \/ x # r => worker'[c][x] = worker[c][x]
        BY <2>1, GotoOne DEF Load
      <3>2. /\ reqFile[r] = "taken" /\ reqFile'[r] = "absent"
            /\ \A x \in Requests \ {r} : reqFile'[x] = reqFile[x]
        BY <2>1 DEF Load, TypeOK
      <3>3. UNCHANGED <<thread, answer, respFile, call, executed>>
        BY <2>1 DEF Load, clientVars, daemonVars
      <3> QED
        BY <3>1, <3>2, <3>3
    <2>2. CASE LoadFail(b, r)
      BY <2>2, GotoOne DEF LoadFail, clientVars, queueVars, daemonVars
    <2>3. CASE Send(b, r)
      <3>1. /\ worker[b][r] = "loaded" /\ worker'[b][r] \in {"sent", "noReply"}
            /\ \A c \in Relays, x \in Requests :
                 c # b \/ x # r => worker'[c][x] = worker[c][x]
        BY <2>3, GotoOne DEF Send
      <3>2. /\ call'[b][r] = "buffered"
            /\ \A c \in Relays, x \in Requests :
                 c # b \/ x # r => call'[c][x] = call[c][x]
        BY <2>3 DEF Send, TypeOK
      <3>3. UNCHANGED <<thread, answer, reqFile, respFile, executed>>
        BY <2>3 DEF Send, clientVars, queueVars
      <3> QED
        BY <3>1, <3>2, <3>3
    <2>4. CASE SendFail(b, r)
      BY <2>4, GotoOne DEF SendFail, Failed, clientVars, queueVars, daemonVars
    <2>5. CASE Receive(b, r)
      BY <2>5, GotoOne DEF Receive, Failed, clientVars, queueVars, daemonVars
    <2>6. CASE RecvTimeout(b, r)
      BY <2>6, GotoOne DEF RecvTimeout, Failed, clientVars, queueVars, daemonVars
    <2>7. CASE WriteReply(b, r)
      <3>1. /\ worker[b][r] \in Replies /\ worker'[b][r] = "ended"
            /\ \A c \in Relays, x \in Requests :
                 c # b \/ x # r => worker'[c][x] = worker[c][x]
        BY <2>7, GotoOne DEF WriteReply
      <3>2. /\ respFile'[r] \in {respFile[r], worker[b][r]}
            /\ \A x \in Requests \ {r} : respFile'[x] = respFile[x]
        BY <2>7 DEF WriteReply, TypeOK
      <3>3. UNCHANGED <<thread, answer, reqFile, call, executed>>
        BY <2>7 DEF WriteReply, clientVars, daemonVars
      <3> QED
        BY <3>1, <3>2, <3>3
    <2>8. CASE Execute(b, r)
      BY <2>8 DEF Execute, clientVars, queueVars, relayVars, TypeOK
    <2>9. CASE Respond(b, r)
      BY <2>9 DEF Respond, clientVars, queueVars, relayVars, TypeOK
    <2> QED
      BY <2>1, <2>2, <2>3, <2>4, <2>5, <2>6, <2>7, <2>8, <2>9
      DEF WorkerStep, DaemonStep
  <1>5. CASE DaemonStart
    BY <1>5 DEF DaemonStart, clientVars, queueVars, relayVars
  <1>6. CASE Environment
    <2>1. ASSUME NEW b \in Relays, RelayCrash(b) PROVE Flow(q)'
      BY <2>1 DEF RelayCrash, clientVars, queueVars, daemonVars, TypeOK
    <2>2. CASE DaemonCrash
      BY <2>2 DEF DaemonCrash, clientVars, queueVars, relayVars, TypeOK
    <2>3. ASSUME NEW d \in BothDirs, Clean(d) PROVE Flow(q)'
      BY <2>3 DEF Clean, clientVars, relayVars, daemonVars, TypeOK
    <2>4. CASE BeatExpires
      BY <2>4 DEF BeatExpires, clientVars, queueVars, daemonVars
    <2> QED
      BY <1>6, <2>1, <2>2, <2>3, <2>4 DEF Environment
  <1>7. CASE UNCHANGED vars
    BY <1>7 DEF vars, clientVars, queueVars, relayVars, daemonVars
  <1> QED
    BY <1>1, <1>2, <1>3, <1>4, <1>5, <1>6, <1>7 DEF Next

\* In every behaviour a message is in one place at a time, and its reply is in
\* the hands of the one worker that sent it.
THEOREM OneFlowHolds == Spec => []OneFlow
  <1>1. Init => OneFlow
    BY FlowInit
  <1>2. TypeOK /\ OneFlow /\ [Next]_vars => OneFlow'
    BY FlowStep
  <1> QED
    BY <1>1, <1>2, TypeCorrect, PTL DEF Spec

\* The daemon executes no message twice: not for two relays on one queue, nor
\* for any number of crashes and restarts of either side.
THEOREM AtMostOnceHolds == Spec => []AtMostOnce
  <1>1. OneFlow => AtMostOnce
    BY DEF OneFlow, Flow, Counted, AtMostOnce
  <1> QED
    BY <1>1, OneFlowHolds, PTL

\* A result handed to the MCP client is the result of an execution.
THEOREM ResultsAreEarnedHolds == Spec => []ResultsAreEarned
  <1>1. OneFlow => ResultsAreEarned
    BY DEF OneFlow, Flow, ResultsAreEarned
  <1> QED
    BY <1>1, OneFlowHolds, PTL

-----------------------------------------------------------------------------
(* What a step may do to responses, and the bridge as an implementation of *)
(* Rpc.                                                                    *)

\* Responses change hands in three actions only.
LEMMA ResponseSteps ==
  ASSUME [Next]_vars
  PROVE  \/ UNCHANGED respFile
         \/ \E r \in Requests : ReadReply(r)
         \/ \E b \in Relays, r \in Requests : WriteReply(b, r)
         \/ \E d \in BothDirs : Clean(d)
  BY DEF Next, ClientProcess, ClientEnsureQueue, ClientServe, ClientGiveUp,
     ClientExit, ClientStep, Submit, SubmitFail, ClientTimeout, LoopStep,
     RelayStart, List, Rebuild, Claim, ClaimFail, WorkerStep, Load, LoadFail,
     Send, SendFail, Receive, RecvTimeout, DaemonStep, Execute, Respond,
     DaemonStart, Environment, RelayCrash, DaemonCrash, BeatExpires, vars,
     queueVars

\* A client that polls never sees its response replaced by another one.
THEOREM ResponsesAreStableHolds == Spec => ResponsesAreStable
  <1>1. ASSUME TypeOK, OneFlow, [Next]_vars, NEW q \in Requests,
               respFile[q] # "absent"
        PROVE  respFile'[q] \in {respFile[q], "absent"}
    <2> USE <1>1
    <2>1. ASSUME NEW r \in Requests, ReadReply(r)
          PROVE  respFile'[q] \in {respFile[q], "absent"}
      BY <2>1 DEF ReadReply, TypeOK
    <2>2. ASSUME NEW b \in Relays, NEW r \in Requests, WriteReply(b, r)
          PROVE  respFile'[q] \in {respFile[q], "absent"}
      <3>1. r # q
        <4>1. worker[b][r] \in Replies
          BY <2>2 DEF WriteReply
        <4>2. PICK c \in Relays : worker[c][q] = "ended"
          BY DEF OneFlow, Flow, RepliedByWorker
        <4> QED
          BY <4>1, <4>2 DEF OneFlow, Flow, SoleWorker
      <3> QED
        BY <2>2, <3>1 DEF WriteReply, TypeOK
    <2>3. ASSUME NEW d \in BothDirs, Clean(d)
          PROVE  respFile'[q] \in {respFile[q], "absent"}
      BY <2>3 DEF Clean
    <2> QED
      BY <2>1, <2>2, <2>3, ResponseSteps
  <1>2. TypeOK /\ OneFlow /\ [Next]_vars
          => [\A r \in Requests : respFile[r] # "absent"
                => respFile'[r] \in {respFile[r], "absent"}]_vars
    BY <1>1
  <1> QED
    BY <1>2, TypeCorrect, OneFlowHolds, PTL DEF Spec, ResponsesAreStable

\* What the MCP client, the daemon and the abstract relay have in common moves
\* in six actions only.
LEMMA VisibleSteps ==
  ASSUME [Next]_vars
  PROVE  \/ UNCHANGED <<thread, answer, executed>>
         \/ \E r \in Requests : ClientStep(r)
         \/ ClientExit
         \/ \E b \in Relays, r \in Requests : Execute(b, r)
  BY DEF Next, ClientProcess, ClientEnsureQueue, ClientServe, ClientGiveUp,
     LoopStep, RelayStart, List, Rebuild, Claim, ClaimFail, WorkerStep, Load,
     LoadFail, Send, SendFail, Receive, RecvTimeout, WriteReply, DaemonStep,
     Respond, DaemonStart, Environment, RelayCrash, DaemonCrash, Clean,
     BeatExpires, vars, clientVars, daemonVars

LEMMA RpcInit == Init => rpc!Init
  BY DEF Init, rpc!Init

LEMMA RpcStep ==
  ASSUME TypeOK, OneFlow, [Next]_vars
  PROVE  [rpc!Next]_rpc!vars
  <1> DEFINE submitted == {r \in Requests : thread[r] # "idle"}
  <1> USE DEF rpc!vars
  <1>1. CASE UNCHANGED <<thread, answer, executed>>
    BY <1>1
  <1>2. ASSUME NEW r \in Requests, Submit(r) \/ SubmitFail(r)
        PROVE  rpc!Send(r)
    BY <1>2 DEF Submit, SubmitFail, daemonVars, rpc!Send, TypeOK
  <1>3. ASSUME NEW r \in Requests, ReadReply(r) \/ ClientTimeout(r)
        PROVE  [rpc!Next]_rpc!vars
    <2>1. thread[r] = "waiting" /\ answer[r] = "none"
      BY <1>3 DEF ReadReply, ClientTimeout, OneFlow, Flow, ToldOnce
    <2>2. UNCHANGED <<submitted, executed>>
      BY <1>3, <2>1 DEF ReadReply, ClientTimeout, daemonVars, TypeOK
    <2>3. PICK a \in rpc!Answers : /\ answer' = [answer EXCEPT ![r] = a]
                                   /\ a = "reply" => executed[r] = 1
      <3>1. CASE ReadReply(r)
        <4>1. Printed(r) \in rpc!Answers
          BY DEF Printed, rpc!Answers
        <4>2. Printed(r) = "reply" => executed[r] = 1
          BY DEF Printed, OneFlow, Flow, Earned
        <4> QED
          BY <3>1, <4>1, <4>2 DEF ReadReply
      <3>2. CASE ClientTimeout(r)
        BY <2>1, <3>2 DEF ClientTimeout, rpc!Answers
      <3> QED
        BY <1>3, <3>1, <3>2
    <2>4. CASE a = "none"
      <3>1. answer' = answer
        BY <2>1, <2>3, <2>4 DEF TypeOK
      <3> QED
        BY <2>2, <3>1
    <2>5. CASE a # "none"
      <3>1. rpc!Tell(r, a)
        BY <2>1, <2>2, <2>3 DEF rpc!Tell
      <3> QED
        BY <2>5, <3>1 DEF rpc!Next
    <2> QED
      BY <2>4, <2>5
  <1>4. CASE ClientExit
    <2>1. UNCHANGED <<submitted, answer, executed>>
      BY <1>4 DEF ClientExit, daemonVars, TypeOK
    <2> QED
      BY <2>1
  <1>5. ASSUME NEW b \in Relays, NEW r \in Requests, Execute(b, r)
        PROVE  rpc!Execute(r)
    <2>1. call[b][r] = "buffered"
      BY <1>5 DEF Execute
    <2>2. executed[r] = 0
      <3>1. \A c \in Relays : call[c][r] # "none" => c = b
        BY <2>1 DEF OneFlow, Flow, SentByWorker, SoleWorker
      <3> QED
        BY <2>1, <3>1 DEF OneFlow, Flow, Counted, Begun
    <2>3. thread[r] # "idle"
      BY <2>1 DEF OneFlow, Flow, Untouched
    <2> QED
      BY <1>5, <2>2, <2>3 DEF Execute, clientVars, rpc!Execute, TypeOK
  <1> QED
    BY <1>1, <1>2, <1>3, <1>4, <1>5, VisibleSteps DEF ClientStep, rpc!Next

\* The queue, its relays and the daemon together implement the abstract relay:
\* every request is executed at most once and answered at most once, with a
\* result only after an execution.
THEOREM RefinesRpcHolds == Spec => RefinesRpc
  <1>1. Init => rpc!Init
    BY RpcInit
  <1>2. TypeOK /\ OneFlow /\ [Next]_vars => [rpc!Next]_rpc!vars
    BY RpcStep
  <1> QED
    BY <1>1, <1>2, TypeCorrect, OneFlowHolds, PTL DEF Spec, RefinesRpc, rpc!Spec

-----------------------------------------------------------------------------
(* What holds as long as some of the faults do not strike.                 *)

\* A fault for which there is no budget does not strike.
LEMMA NoStrike ==
  ASSUME TypeOK, NEW f \in Faults, MaxFaults[f] = 0
  PROVE  ~Strike(f)
  BY DEF TypeOK, Strike

\* Faults are counted up, and a fault that has not struck did not strike.
LEMMA NoneStruck ==
  ASSUME TypeOK, [Next]_vars, NEW f \in Faults, faults'[f] = 0
  PROVE  faults[f] = 0 /\ ~Strike(f)
  <1>1. ASSUME NEW g \in Faults, Strike(g)
        PROVE  faults[f] = 0 /\ g # f
    BY <1>1 DEF Strike, TypeOK
  <1>2. (\E g \in Faults : Strike(g)) \/ UNCHANGED faults
    BY DEF Next, ClientProcess, ClientEnsureQueue, ClientServe, ClientGiveUp,
       ClientExit, ClientStep, Submit, SubmitFail, ReadReply, ClientTimeout,
       LoopStep, RelayStart, List, Rebuild, Claim, ClaimFail, WorkerStep, Load,
       LoadFail, Send, SendFail, Receive, RecvTimeout, WriteReply, DaemonStep,
       Execute, Respond, DaemonStart, Environment, RelayCrash, DaemonCrash,
       Clean, BeatExpires, vars, Faults
  <1>3. ~Strike(f)
    BY <1>1
  <1> QED
    BY <1>1, <1>2, <1>3

\* Workers move in their own steps, by a claim, and when their relay dies.
LEMMA WorkerMoves ==
  ASSUME [Next]_vars
  PROVE  /\ UNCHANGED kind
         /\ \/ UNCHANGED worker
            \/ \E b \in Relays, r \in Requests : Claim(b, r) \/ WorkerStep(b, r)
            \/ \E b \in Relays : RelayCrash(b)
  BY DEF Next, ClientProcess, ClientEnsureQueue, ClientServe, ClientGiveUp,
     ClientExit, ClientStep, Submit, SubmitFail, ReadReply, ClientTimeout,
     LoopStep, RelayStart, List, Rebuild, Claim, ClaimFail, WorkerStep, Load,
     LoadFail, Send, SendFail, Receive, RecvTimeout, WriteReply, DaemonStep,
     Execute, Respond, DaemonStart, Environment, RelayCrash, DaemonCrash,
     Clean, BeatExpires, vars, relayVars

\* A connection moves when it is made and in the daemon's steps.
LEMMA CallMoves ==
  ASSUME [Next]_vars
  PROVE  \/ UNCHANGED <<call, daemonUp>>
         \/ \E b \in Relays, r \in Requests : Send(b, r) \/ DaemonStep(b, r)
         \/ DaemonStart \/ DaemonCrash
  BY DEF Next, ClientProcess, ClientEnsureQueue, ClientServe, ClientGiveUp,
     ClientExit, ClientStep, Submit, SubmitFail, ReadReply, ClientTimeout,
     LoopStep, RelayStart, List, Rebuild, Claim, ClaimFail, WorkerStep, Load,
     LoadFail, SendFail, Receive, RecvTimeout, WriteReply, Environment,
     RelayCrash, Clean, BeatExpires, vars, daemonVars

\* The daemon has not died.
DaemonStays == faults["daemon"] = 0

DaemonAlive ==
    /\ daemonUp
    /\ \A b \in Relays, r \in Requests : call[b][r] \notin {"eof", "reset"}

LEMMA DaemonAliveHolds == Spec => [](DaemonStays => DaemonAlive)
  <1>1. Init => DaemonAlive
    BY DEF Init, DaemonAlive
  <1>2. ASSUME TypeOK, DaemonStays => DaemonAlive, [Next]_vars, DaemonStays'
        PROVE  DaemonAlive'
    <2>0. DaemonStays /\ ~Strike("daemon")
      BY <1>2, NoneStruck DEF DaemonStays, Faults
    <2> USE <1>2, <2>0
    <2>1. ~DaemonCrash
      BY DEF DaemonCrash
    <2>2. ASSUME NEW b \in Relays, NEW r \in Requests,
                 Send(b, r) \/ DaemonStep(b, r)
          PROVE  DaemonAlive'
      <3>1. CASE Send(b, r)
        BY <3>1 DEF Send, DaemonAlive, TypeOK
      <3>2. CASE Execute(b, r)
        BY <3>2 DEF Execute, DaemonAlive, TypeOK
      <3>3. CASE Respond(b, r)
        BY <3>3 DEF Respond, DaemonAlive, TypeOK
      <3> QED
        BY <2>2, <3>1, <3>2, <3>3 DEF DaemonStep
    <2>3. CASE UNCHANGED <<call, daemonUp>> \/ DaemonStart
      BY <2>3 DEF DaemonStart, DaemonAlive
    <2> QED
      BY <2>1, <2>2, <2>3, CallMoves
  <1> QED
    BY <1>1, <1>2, TypeCorrect, PTL DEF Spec

\* What a step of a worker leads to while the daemon is there.
Leads(b, r, s) ==
    \/ s \in {"claimed", "loaded", "ended"}
    \/ s = "sent" /\ ExpectsReply(r)
    \/ s = "noReply" /\ ~ExpectsReply(r)
    \/ s = "answer" /\ worker[b][r] = "sent"
    \/ s = Failed(r) /\ worker[b][r] = "sent" /\ Deadlines

LEMMA WorkerNext ==
  ASSUME TypeOK, DaemonAlive, NEW b \in Relays, NEW r \in Requests,
         WorkerStep(b, r) \/ Claim(b, r)
  PROVE  /\ Leads(b, r, worker'[b][r])
         /\ \A c \in Relays, q \in Requests :
              c # b \/ q # r => worker'[c][q] = worker[c][q]
  <1>1. ASSUME NEW s, Goto(b, r, s), Leads(b, r, s)
        PROVE  /\ Leads(b, r, worker'[b][r])
               /\ \A c \in Relays, q \in Requests :
                    c # b \/ q # r => worker'[c][q] = worker[c][q]
    BY <1>1, GotoOne
  <1> USE DEF Leads
  <1>2. CASE Claim(b, r)
    BY <1>1, <1>2 DEF Claim, Goto
  <1>3. CASE Load(b, r) \/ LoadFail(b, r) \/ WriteReply(b, r)
    BY <1>1, <1>3 DEF Load, LoadFail, WriteReply
  <1>4. CASE Send(b, r)
    BY <1>1, <1>4 DEF Send
  <1>5. CASE SendFail(b, r)
    BY <1>5 DEF SendFail, DaemonAlive
  <1>6. CASE Receive(b, r)
    BY <1>1, <1>6 DEF Receive, DaemonAlive
  <1>7. CASE RecvTimeout(b, r)
    BY <1>1, <1>7 DEF RecvTimeout
  <1> QED
    BY <1>2, <1>3, <1>4, <1>5, <1>6, <1>7 DEF WorkerStep

LEMMA RelayCrashWorkers ==
  ASSUME TypeOK, NEW b \in Relays, RelayCrash(b)
  PROVE  \A c \in Relays, q \in Requests :
           worker'[c][q] \in {worker[c][q], "ended"}
  BY DEF RelayCrash, TypeOK

-----------------------------------------------------------------------------
(* Calls.                                                                  *)

\* No cleaner has struck.
CleanersStay == faults["cleaner"] = 0

\* The directories that the client made are there.
Queued == proc \in {"looking", "serving"} => "req" \in dirs

LEMMA QueuedHolds == Spec => [](CleanersStay => Queued)
  <1>1. Init => Queued
    BY DEF Init, Queued
  <1>2. ASSUME TypeOK, CleanersStay => Queued, [Next]_vars, CleanersStay'
        PROVE  Queued'
    <2>0. CleanersStay /\ ~Strike("cleaner")
      BY <1>2, NoneStruck DEF CleanersStay, Faults
    <2>1. ASSUME NEW d \in BothDirs PROVE ~Clean(d)
      BY <2>0 DEF Clean
    <2>2. \/ UNCHANGED <<proc, dirs>>
          \/ dirs' = BothDirs
          \/ UNCHANGED dirs /\ proc = "looking"
          \/ proc' = "exited"
      BY <1>2, <2>1 DEF Next, ClientProcess, ClientEnsureQueue, ClientServe,
         ClientGiveUp, ClientExit, ClientStep, Submit, SubmitFail, ReadReply,
         ClientTimeout, LoopStep, RelayStart, List, Rebuild, Claim, ClaimFail,
         WorkerStep, Load, LoadFail, Send, SendFail, Receive, RecvTimeout,
         WriteReply, DaemonStep, Execute, Respond, DaemonStart, Environment,
         RelayCrash, DaemonCrash, BeatExpires, vars, clientVars, queueVars
    <2> QED
      BY <1>2, <2>0, <2>2 DEF Queued
  <1> QED
    BY <1>1, <1>2, TypeCorrect, PTL DEF Spec

\* On its way a call meets nothing that the client would pass over in silence.
Answerable(r) ==
    kind[r] = "call" =>
        /\ thread[r] = "ended" => answer[r] # "none"
        /\ respFile[r] # "noReply"
        /\ \A b \in Relays : worker[b][r] # "noReply"

LEMMA AnswerableStep ==
  ASSUME TypeOK, DaemonAlive, Queued, [Next]_vars,
         NEW q \in Requests, Answerable(q)
  PROVE  Answerable(q)'
  <1> SUFFICES ASSUME kind[q] = "call"
               PROVE  /\ thread'[q] = "ended" => answer'[q] # "none"
                      /\ respFile'[q] # "noReply"
                      /\ \A b \in Relays : worker'[b][q] # "noReply"
    BY WorkerMoves DEF Answerable
  <1>0. /\ thread[q] = "ended" => answer[q] # "none"
        /\ respFile[q] # "noReply"
        /\ \A b \in Relays : worker[b][q] # "noReply"
        /\ ExpectsReply(q) /\ IsObject(q)
    BY DEF Answerable, ExpectsReply, IsObject
  <1>1. \A b \in Relays : worker'[b][q] # "noReply"
    <2>1. ASSUME NEW b \in Relays, NEW r \in Requests,
                 Claim(b, r) \/ WorkerStep(b, r), NEW c \in Relays
          PROVE  worker'[c][q] # "noReply"
      BY <1>0, <2>1, WorkerNext DEF Leads, Failed
    <2>2. ASSUME NEW b \in Relays, RelayCrash(b)
          PROVE  \A c \in Relays : worker'[c][q] # "noReply"
      BY <1>0, <2>2, RelayCrashWorkers
    <2> QED
      BY <1>0, <2>1, <2>2, WorkerMoves
  <1>2. respFile'[q] # "noReply"
    <2>1. ASSUME NEW r \in Requests, ReadReply(r)
          PROVE  respFile'[q] # "noReply"
      BY <1>0, <2>1 DEF ReadReply, TypeOK
    <2>2. ASSUME NEW b \in Relays, NEW r \in Requests, WriteReply(b, r)
          PROVE  respFile'[q] # "noReply"
      BY <1>0, <2>2 DEF WriteReply, TypeOK
    <2>3. ASSUME NEW d \in BothDirs, Clean(d)
          PROVE  respFile'[q] # "noReply"
      BY <1>0, <2>3 DEF Clean
    <2> QED
      BY <1>0, <2>1, <2>2, <2>3, ResponseSteps
  <1>3. thread'[q] = "ended" => answer'[q] # "none"
    <2>1. ASSUME NEW r \in Requests, ClientStep(r)
          PROVE  thread'[q] = "ended" => answer'[q] # "none"
      <3>1. CASE Submit(r)
        BY <1>0, <3>1 DEF Submit, TypeOK
      <3>2. CASE SubmitFail(r)
        BY <3>2 DEF SubmitFail, Queued
      <3>3. CASE ReadReply(r)
        <4>1. r = q => Printed(r) # "none"
          BY <1>0, <3>3 DEF ReadReply, Printed, TypeOK
        <4> QED
          BY <1>0, <3>3, <4>1 DEF ReadReply, TypeOK
      <3>4. CASE ClientTimeout(r)
        BY <1>0, <3>4 DEF ClientTimeout, TypeOK
      <3> QED
        BY <2>1, <3>1, <3>2, <3>3, <3>4 DEF ClientStep
    <2>2. CASE ClientExit
      BY <1>0, <2>2 DEF ClientExit, TypeOK
    <2>3. ASSUME NEW b \in Relays, NEW r \in Requests, Execute(b, r)
          PROVE  thread'[q] = "ended" => answer'[q] # "none"
      BY <1>0, <2>3 DEF Execute, clientVars
    <2> QED
      BY <1>0, <2>1, <2>2, <2>3, VisibleSteps
  <1> QED
    BY <1>1, <1>2, <1>3

\* While neither the daemon has died nor a cleaner has struck, every call whose
\* thread has ended was answered, whichever relays crash and deadlines expire.
THEOREM CallsAreAnsweredHolds == Spec => []CallsAreAnswered
  <1> DEFINE Stays == DaemonStays /\ CleanersStay
             Inv   == Stays => \A r \in Requests : Answerable(r)
  <1>1. Init => Inv
    BY DEF Init, Answerable
  <1>2. ASSUME TypeOK, DaemonStays => DaemonAlive, CleanersStay => Queued, Inv,
               [Next]_vars
        PROVE  Inv'
    <2> SUFFICES ASSUME Stays' PROVE \A r \in Requests : Answerable(r)'
      OBVIOUS
    <2>1. Stays
      BY <1>2, NoneStruck DEF DaemonStays, CleanersStay, Faults
    <2> QED
      BY <1>2, <2>1, AnswerableStep
  <1>3. Inv => CallsAreAnswered
    BY DEF Answerable, CallsAreAnswered, DaemonStays, CleanersStay
  <1> HIDE DEF Inv
  <1> QED
    BY <1>1, <1>2, <1>3, TypeCorrect, DaemonAliveHolds, QueuedHolds, PTL
    DEF Spec

-----------------------------------------------------------------------------
(* Files.                                                                  *)

RelaysStay == MaxFaults["relay"] = 0

Active == {"claimed", "loaded", "sent"} \cup Replies

\* While the client serves, a message that is anywhere on its way has its
\* thread, and a claimed file has its worker.
Polled(r) ==
    /\ proc \in {"new", "looking"} => thread[r] = "idle"
    /\ reqFile[r] = "taken" => \E b \in Relays : worker[b][r] = "claimed"
    /\ proc = "serving" =>
         /\ reqFile[r] # "absent" => thread[r] = "waiting"
         /\ respFile[r] # "absent" => thread[r] = "waiting"
         /\ \A b \in Relays : worker[b][r] \in Active => thread[r] = "waiting"

LEMMA PolledStep ==
  ASSUME TypeOK, OneFlow, RelaysStay, ~Deadlines, [Next]_vars,
         NEW q \in Requests, Polled(q)
  PROVE  Polled(q)'
  <1>0. Flow(q)
    BY DEF OneFlow
  <1> USE DEF Polled, Active
  <1>1. CASE ClientProcess
    <2>1. CASE ClientEnsureQueue \/ ClientGiveUp
      BY <2>1 DEF ClientEnsureQueue, ClientGiveUp, queueVars, relayVars
    <2>2. CASE ClientServe
      BY <1>0, <2>2 DEF ClientServe, queueVars, relayVars, Flow, Untouched
    <2>3. CASE ClientExit
      BY <2>3 DEF ClientExit, queueVars, relayVars
    <2> QED
      BY <1>1, <2>1, <2>2, <2>3 DEF ClientProcess
  <1>2. ASSUME NEW r \in Requests, ClientStep(r) PROVE Polled(q)'
    <2>1. CASE Submit(r)
      <3>1. /\ proc' = proc /\ proc = "serving" /\ worker' = worker
            /\ thread'[q] = IF r = q THEN "waiting" ELSE thread[q]
            /\ reqFile'[q] = IF r = q THEN "queued" ELSE reqFile[q]
            /\ respFile' = respFile
        BY <2>1 DEF Submit, relayVars, TypeOK
      <3> QED
        BY <3>1 DEF Polled, Active
    <2>2. CASE SubmitFail(r)
      <3>1. UNCHANGED <<proc, reqFile, respFile, worker>> /\ proc = "serving"
        BY <2>2 DEF SubmitFail, queueVars, relayVars
      <3>2. thread[r] = "idle" /\ (r # q => thread'[q] = thread[q])
        BY <2>2 DEF SubmitFail, TypeOK
      <3>3. r = q => /\ reqFile[q] = "absent" /\ respFile[q] = "absent"
                     /\ \A b \in Relays : worker[b][q] = "none"
        BY <1>0, <3>2 DEF Flow, Untouched
      <3> QED
        BY <3>1, <3>2, <3>3
    <2>3. CASE ReadReply(r)
      <3>1. /\ UNCHANGED <<proc, reqFile, worker>>
            /\ thread[r] = "waiting" /\ respFile[r] # "absent"
            /\ r # q => thread'[q] = thread[q] /\ respFile'[q] = respFile[q]
            /\ r = q => respFile'[q] = "absent"
        BY <2>3 DEF ReadReply, relayVars, TypeOK
      <3>2. r = q => /\ \A b \in Relays : worker[b][q] \in {"none", "ended"}
                     /\ \E b \in Relays : worker[b][q] = "ended"
        BY <1>0, <3>1 DEF Flow, RepliedByWorker, SoleWorker
      <3>3. r = q => reqFile[q] = "absent"
        <4>1. r = q => reqFile[q] # "queued" /\ reqFile[q] # "taken"
          BY <1>0, <3>2 DEF Flow, Unclaimed
        <4> QED
          BY <4>1 DEF TypeOK
      <3>4. r = q => proc \notin {"new", "looking"}
        BY <3>1
      <3> QED
        BY <3>1, <3>2, <3>3, <3>4
    <2>4. CASE ClientTimeout(r)
      BY <2>4 DEF ClientTimeout
    <2> QED
      BY <1>2, <2>1, <2>2, <2>3, <2>4 DEF ClientStep
  <1>3. ASSUME NEW b \in Relays, LoopStep(b) PROVE Polled(q)'
    <2>1. CASE RelayStart(b) \/ List(b) \/ Rebuild(b)
      BY <2>1 DEF RelayStart, List, Rebuild, clientVars, queueVars
    <2>2. ASSUME NEW r \in Requests, Claim(b, r) PROVE Polled(q)'
      <3>1. Goto(b, r, "claimed")
        BY <2>2 DEF Claim, Goto
      <3>2. /\ worker'[b][r] = "claimed"
            /\ \A c \in Relays, x \in Requests :
                 c # b \/ x # r => worker'[c][x] = worker[c][x]
        BY <3>1, GotoOne
      <3>3. /\ reqFile[r] = "queued" /\ reqFile'[r] = "taken"
            /\ r # q => reqFile'[q] = reqFile[q]
            /\ UNCHANGED <<proc, thread, respFile>>
        BY <2>2 DEF Claim, TypeOK, clientVars
      <3> QED
        BY <3>2, <3>3
    <2>3. ASSUME NEW r \in Requests, ClaimFail(b, r) PROVE Polled(q)'
      BY <2>3 DEF ClaimFail, clientVars, queueVars
    <2> QED
      BY <1>3, <2>1, <2>2, <2>3 DEF LoopStep
  <1>4. ASSUME NEW b \in Relays, NEW r \in Requests, WorkerStep(b, r)
        PROVE  Polled(q)'
    <2>0. ASSUME NEW s, Goto(b, r, s), worker[b][r] \in Active,
                 UNCHANGED <<proc, thread>>,
                 respFile'[q] \in {respFile[q], "absent"} \/ r = q,
                 reqFile'[q] \in {reqFile[q], "absent"},
                 worker[b][r] = "claimed" /\ q = r => reqFile'[q] # "taken"
          PROVE  Polled(q)'
      <3>1. /\ worker'[b][r] = s
            /\ \A c \in Relays, x \in Requests :
                 c # b \/ x # r => worker'[c][x] = worker[c][x]
        BY <2>0, GotoOne
      <3>2. proc = "serving" /\ r = q => thread[q] = "waiting"
        BY <2>0
      <3>3. reqFile'[q] = "taken" =>
              \E c \in Relays : worker'[c][q] = "claimed"
        <4> SUFFICES ASSUME reqFile'[q] = "taken"
                     PROVE  \E c \in Relays : worker'[c][q] = "claimed"
          OBVIOUS
        <4>1. PICK c \in Relays : worker[c][q] = "claimed"
          BY <2>0
        <4>2. c # b \/ q # r
          BY <2>0, <4>1
        <4> QED
          BY <3>1, <4>1, <4>2
      <3> QED
        BY <2>0, <3>1, <3>2, <3>3
    <2>1. CASE Load(b, r)
      BY <2>0, <2>1 DEF Load, TypeOK, clientVars
    <2>2. CASE LoadFail(b, r)
      BY <2>0, <2>2 DEF LoadFail, clientVars, queueVars
    <2>3. CASE Send(b, r) \/ SendFail(b, r)
      BY <2>0, <2>3 DEF Send, SendFail, clientVars, queueVars
    <2>4. CASE Receive(b, r)
      BY <2>0, <2>4 DEF Receive, clientVars, queueVars
    <2>5. CASE RecvTimeout(b, r)
      BY <2>5 DEF RecvTimeout
    <2>6. CASE WriteReply(b, r)
      BY <2>0, <2>6 DEF WriteReply, TypeOK, clientVars
    <2> QED
      BY <1>4, <2>1, <2>2, <2>3, <2>4, <2>5, <2>6 DEF WorkerStep
  <1>5. ASSUME NEW b \in Relays, NEW r \in Requests, DaemonStep(b, r)
        PROVE  Polled(q)'
    BY <1>5 DEF DaemonStep, Execute, Respond, clientVars, queueVars, relayVars
  <1>6. CASE Environment
    <2>1. \A b \in Relays : ~RelayCrash(b)
      BY NoStrike DEF RelaysStay, RelayCrash
    <2>2. CASE DaemonCrash \/ BeatExpires
      BY <2>2 DEF DaemonCrash, BeatExpires, clientVars, queueVars, relayVars
    <2>3. ASSUME NEW d \in BothDirs, Clean(d) PROVE Polled(q)'
      BY <2>3 DEF Clean, clientVars, relayVars
    <2> QED
      BY <1>6, <2>1, <2>2, <2>3 DEF Environment
  <1>7. CASE DaemonStart \/ UNCHANGED vars
    BY <1>7 DEF DaemonStart, vars, clientVars, queueVars, relayVars
  <1> QED
    BY <1>1, <1>2, <1>3, <1>4, <1>5, <1>6, <1>7 DEF Next

\* While no relay crashes and no deadline expires, every file of the queue has
\* somebody who will remove it, whatever becomes of the daemon and of the
\* directories.
THEOREM FilesHaveOwnersHolds ==
  ASSUME RelaysStay, ~Deadlines
  PROVE  Spec => []FilesHaveOwners
  <1> DEFINE Inv == \A r \in Requests : Polled(r)
  <1>1. Init => Inv
    BY DEF Init, Polled
  <1>2. TypeOK /\ OneFlow /\ Inv /\ [Next]_vars => Inv'
    BY PolledStep
  <1>3. Inv => FilesHaveOwners
    BY DEF Polled, FilesHaveOwners
  <1> HIDE DEF Inv
  <1> QED
    BY <1>1, <1>2, <1>3, TypeCorrect, OneFlowHolds, PTL DEF Spec

=============================================================================
