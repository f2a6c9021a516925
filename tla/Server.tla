------------------------------- MODULE Server -------------------------------
(***************************************************************************)
(* One MCP session over the unix socket (sandbroker/server.py): the agent  *)
(* writes lines to the stdin of `sandbroker connect`, whose two threads    *)
(* (bridge_stdio) relay them to the daemon and its replies back; a thread  *)
(* of the daemon (_SocketHandler) takes one line after the other and hands  *)
(* its messages to Server.handle (sandbroker/mcp.py).                      *)
(*                                                                         *)
(* Pipes and socket buffers are bounded, so each of the four may have to    *)
(* wait for the next.  The agent ends the session by closing stdin; the     *)
(* daemon, or the agent, may also die in the middle.                        *)
(***************************************************************************)
EXTENDS Naturals, Sequences, SequencesExt

CONSTANTS
    Lines,     \* what the agent may write: the parts that readline makes of it
    MaxLines,  \* bound on the lines it writes
    Room,      \* how much a pipe or a socket buffer holds
    MaxFaults  \* bound on deaths

\* A message as handle sees it.  Text that is no JSON object is Garbage.
Methods == {"known", "unknown", "notification", "number", "none"}
Garbage == [id |-> FALSE, method |-> "garbage"]
Message == [id : BOOLEAN, method : Methods] \cup {Garbage}

\* readline returns a message, a batch of them, or a blank line; a line over
\* MAX_LINE it returns in parts, which are not JSON.
Part == Seq(Message)
Line == Seq(Part) \ {<<>>}

ASSUME LinesAssumption  == Lines \subseteq Line
ASSUME RoomAssumption   == Room \in Nat \ {0}
ASSUME BoundsAssumption == MaxLines \in Nat /\ MaxFaults \in Nat

\* The k-th message of the n-th part has the id <<n, k>>, if it has one; a reply
\* is the sequence of ids it answers, one unless it answers a batch.
Null  == <<>>
Reply == Seq({Null} \cup (Nat \X Nat))

VARIABLES
    stdin,     \* lines in the agent's pipe to the bridge
    stdinOpen, \* has the agent not closed it?
    pump,      \* what the thread pump_up does next
    chunk,     \* the line it has read, when it is to send it
    up,        \* parts in the socket to the daemon
    upOpen,    \* can the bridge still send?
    handler,   \* what the daemon's thread for the connection does next
    call,      \* the part it has taken, while it works on it
    out,       \* the reply it is to write
    down,      \* replies in the socket to the bridge
    main,      \* what the bridge's main thread does next
    data,      \* what it received, when it is to write it
    stdout,    \* replies in the pipe to the agent
    reading,   \* is the agent there to read them?
    faults,    \* deaths so far
    written,   \* every part the agent wrote
    handled,   \* how many of them the daemon is done with
    failed,    \* the part that ended the connection, 0 if none
    seen       \* replies the agent read

agentVars   == <<stdinOpen, reading, written, seen>>
pumpVars    == <<stdin, pump, chunk, upOpen>>
handlerVars == <<handler, call, out, handled, failed>>
mainVars    == <<main, data>>
vars == <<agentVars, pumpVars, up, handlerVars, down, mainVars, stdout, faults>>

Running == main \in {"recv", "write"}

TypeOK ==
    /\ stdin \in Seq(Line) /\ Len(stdin) <= Room
    /\ stdinOpen \in BOOLEAN
    /\ pump \in {"read", "send", "shut", "done"}
    /\ chunk \in Seq(Part) /\ (chunk # <<>> <=> pump = "send")
    /\ up \in Seq(Part) /\ upOpen \in BOOLEAN
    /\ handler \in {"none", "read", "call", "stuck", "write", "closed"}
    /\ call \in Seq(Part) /\ Len(call) <= 1
    /\ (call # <<>> <=> handler \in {"call", "stuck"})
    /\ out \in Reply /\ (out # <<>> <=> handler = "write")
    /\ down \in Seq(Reply) /\ Len(down) <= Room
    /\ main \in {"connect", "recv", "write", "exited"}
    /\ data \in Reply /\ (data # <<>> => main \in {"write", "exited"})
    /\ stdout \in Seq(Reply) /\ Len(stdout) <= Room
    /\ reading \in BOOLEAN
    /\ faults \in 0 .. MaxFaults
    /\ written \in Seq(Part)
    /\ handled \in 0 .. Len(written) /\ failed \in 0 .. handled
    /\ seen \in Seq(Reply)

Init ==
    /\ stdin = <<>> /\ stdinOpen = TRUE
    /\ pump = "read" /\ chunk = <<>>
    /\ up = <<>> /\ upOpen = TRUE
    /\ handler = "none" /\ call = <<>> /\ out = <<>>
    /\ down = <<>>
    /\ main = "connect" /\ data = <<>>
    /\ stdout = <<>> /\ reading = TRUE
    /\ faults = 0
    /\ written = <<>> /\ handled = 0 /\ failed = 0
    /\ seen = <<>>

-----------------------------------------------------------------------------
(* The agent.                                                              *)

Write(l) ==
    /\ reading /\ stdinOpen /\ main # "exited"
    /\ Len(written) < MaxLines /\ Len(stdin) < Room
    /\ stdin' = Append(stdin, l)
    /\ written' = written \o l
    /\ UNCHANGED <<stdinOpen, reading, seen, pump, chunk, upOpen, up,
                   handlerVars, down, mainVars, stdout, faults>>

CloseStdin ==
    /\ stdinOpen
    /\ stdinOpen' = FALSE
    /\ UNCHANGED <<reading, written, seen, pumpVars, up, handlerVars, down,
                   mainVars, stdout, faults>>

ReadStdout ==
    /\ reading /\ stdout # <<>>
    /\ seen' = Append(seen, Head(stdout))
    /\ stdout' = Tail(stdout)
    /\ UNCHANGED <<stdinOpen, reading, written, pumpVars, up, handlerVars, down,
                   mainVars, faults>>

Hangup ==
    /\ reading /\ faults < MaxFaults
    /\ reading' = FALSE /\ stdinOpen' = FALSE
    /\ faults' = faults + 1
    /\ UNCHANGED <<written, seen, pumpVars, up, handlerVars, down, mainVars,
                   stdout>>

-----------------------------------------------------------------------------
(* The bridge, bridge_stdio.                                               *)

Connect ==
    /\ main = "connect"
    /\ main' = "recv" /\ handler' = "read"
    /\ UNCHANGED <<agentVars, pumpVars, up, call, out, handled, failed, down,
                   data, stdout, faults>>

\* There is no daemon: an error, and exit code 1.
Refused ==
    /\ main = "connect" /\ faults < MaxFaults
    /\ main' = "exited" /\ upOpen' = FALSE
    /\ faults' = faults + 1
    /\ UNCHANGED <<agentVars, stdin, pump, chunk, up, handlerVars, down, data,
                   stdout>>

\* Mutant of Idle: a line is sent when the last one has been answered.
IdleInStep == stdin # <<>> /\ Len(seen) = handled

\* Is there a line to relay?
Idle == stdin # <<>>

PumpRead ==
    /\ Running /\ pump = "read" /\ Idle
    /\ chunk' = Head(stdin) /\ stdin' = Tail(stdin)
    /\ pump' = "send"
    /\ UNCHANGED <<agentVars, upOpen, up, handlerVars, down, mainVars, stdout,
                   faults>>

\* Mutant of PumpEnd: the empty line at the end of stdin is sent.
PumpEndSent ==
    /\ Running /\ pump = "read" /\ stdin = <<>> /\ ~stdinOpen
    /\ pump' = "send"
    /\ UNCHANGED <<agentVars, stdin, chunk, upOpen, up, handlerVars, down,
                   mainVars, stdout, faults>>

PumpEnd ==
    /\ Running /\ pump = "read" /\ stdin = <<>> /\ ~stdinOpen
    /\ pump' = "shut"
    /\ UNCHANGED <<agentVars, stdin, chunk, upOpen, up, handlerVars, down,
                   mainVars, stdout, faults>>

PumpSend ==
    /\ Running /\ pump = "send" /\ handler # "closed" /\ Len(up) < Room
    /\ up' = up \o chunk
    /\ chunk' = <<>> /\ pump' = "read"
    /\ UNCHANGED <<agentVars, stdin, upOpen, handlerVars, down, mainVars,
                   stdout, faults>>

PumpSendFail ==
    /\ Running /\ pump = "send" /\ handler = "closed"
    /\ chunk' = <<>> /\ pump' = "shut"
    /\ UNCHANGED <<agentVars, stdin, upOpen, up, handlerVars, down, mainVars,
                   stdout, faults>>

\* Mutants of Shut: the thread just ends; the whole connection is closed.
ShutNothing == upOpen' = upOpen /\ main' = main
ShutBoth    == upOpen' = FALSE /\ main' = "exited"

\* Only the sending half is shut down.
Shut == upOpen' = FALSE /\ main' = main

PumpShut ==
    /\ Running /\ pump = "shut"
    /\ Shut
    /\ pump' = "done"
    /\ UNCHANGED <<agentVars, stdin, chunk, up, handlerVars, down, data, stdout,
                   faults>>

Recv ==
    /\ main = "recv" /\ down # <<>>
    /\ data' = Head(down) /\ down' = Tail(down)
    /\ main' = "write"
    /\ UNCHANGED <<agentVars, pumpVars, up, handlerVars, stdout, faults>>

WriteStdout ==
    /\ main = "write" /\ reading /\ Len(stdout) < Room
    /\ stdout' = Append(stdout, data)
    /\ data' = <<>> /\ main' = "recv"
    /\ UNCHANGED <<agentVars, pumpVars, up, handlerVars, down, faults>>

\* The connection is closed, and the process, pump_up included, ends.
Exit ==
    /\ \/ main = "recv" /\ down = <<>> /\ handler = "closed"
       \/ main = "write" /\ ~reading
    /\ main' = "exited" /\ upOpen' = FALSE
    /\ UNCHANGED <<agentVars, stdin, pump, chunk, up, handlerVars, down, data,
                   stdout, faults>>

-----------------------------------------------------------------------------
(* The daemon's thread.                                                    *)

\* Server.handle, for a message that has no reply.
Silent(m) == ~m.id /\ m.method \in {"notification", "unknown"}

\* A method that is not a string has no startswith, and nothing catches that.
Raises(m) == ~m.id /\ m.method = "number"

\* Mutant of ReplyId: an error of an unknown method has no id.
ReplyIdLost(m, n, k) == IF m.id /\ m.method = "known" THEN <<n, k>> ELSE Null

ReplyId(m, n, k) == IF m.id THEN <<n, k>> ELSE Null

\* _dispatch_line, for the n-th part: the replies that a batch has, in order.
Dispatch(part, n) ==
    LET answer(k) == IF Silent(part[k]) THEN <<>>
                     ELSE <<ReplyId(part[k], n, k)>>
    IN  FlattenSeq([k \in DOMAIN part |-> answer(k)])

\* One message is enough, and what went before it in the batch has been done.
Fails(part) == \E k \in DOMAIN part : Raises(part[k])

\* A call of run or store keeps its thread for as long as a process that the
\* command left outside its group holds the pipes, which no timeout bounds
\* (runner.py, communicate after _kill_group).
MayStick(part) ==
    \E k \in DOMAIN part :
        part[k].method = "known" /\ \A j \in 1 .. k - 1 : ~Raises(part[j])

HandlerRead ==
    /\ handler = "read" /\ up # <<>>
    /\ up' = Tail(up) /\ call' = <<Head(up)>>
    /\ \/ handler' = "call"
       \/ handler' = "stuck" /\ MayStick(Head(up))
    /\ UNCHANGED <<agentVars, pumpVars, out, handled, failed, down, mainVars,
                   stdout, faults>>

\* The process closes the pipes, or ends.
Unstick ==
    /\ handler = "stuck"
    /\ handler' = "call"
    /\ UNCHANGED <<agentVars, pumpVars, up, call, out, handled, failed, down,
                   mainVars, stdout, faults>>

HandlerDispatch ==
    /\ handler = "call"
    /\ handled' = handled + 1 /\ call' = <<>>
    /\ IF Fails(Head(call))
       THEN handler' = "closed" /\ failed' = handled + 1 /\ out' = <<>>
       ELSE /\ out' = Dispatch(Head(call), handled + 1)
            /\ handler' = IF out' = <<>> THEN "read" ELSE "write"
            /\ failed' = failed
    /\ UNCHANGED <<agentVars, pumpVars, up, down, mainVars, stdout, faults>>

HandlerEnd ==
    /\ handler = "read" /\ up = <<>> /\ ~upOpen
    /\ handler' = "closed"
    /\ UNCHANGED <<agentVars, pumpVars, up, call, out, handled, failed, down,
                   mainVars, stdout, faults>>

HandlerWrite ==
    /\ handler = "write" /\ Running /\ Len(down) < Room
    /\ down' = Append(down, out)
    /\ out' = <<>> /\ handler' = "read"
    /\ UNCHANGED <<agentVars, pumpVars, up, call, handled, failed, mainVars,
                   stdout, faults>>

HandlerWriteFail ==
    /\ handler = "write" /\ ~Running
    /\ out' = <<>> /\ handler' = "closed"
    /\ UNCHANGED <<agentVars, pumpVars, up, call, handled, failed, down,
                   mainVars, stdout, faults>>

DaemonCrash ==
    /\ handler \in {"read", "call", "stuck", "write"} /\ faults < MaxFaults
    /\ handler' = "closed" /\ call' = <<>> /\ out' = <<>>
    /\ faults' = faults + 1
    /\ UNCHANGED <<agentVars, pumpVars, up, handled, failed, down, mainVars,
                   stdout>>

-----------------------------------------------------------------------------
Agent   == (\E l \in Lines : Write(l)) \/ CloseStdin \/ Hangup
Pump    == PumpRead \/ PumpEnd \/ PumpSend \/ PumpSendFail \/ PumpShut
Main    == Connect \/ Recv \/ WriteStdout \/ Exit
Handler ==
    HandlerRead \/ HandlerDispatch \/ HandlerEnd \/ HandlerWrite \/ HandlerWriteFail

Next == \/ Agent \/ ReadStdout
        \/ Pump \/ Main \/ Refused
        \/ Handler \/ Unstick \/ DaemonCrash

Spec == Init /\ [][Next]_vars

\* The threads run, and an agent reads what it is sent.  A call that is stuck
\* need not come back: Unstick has no fairness.
Fairness ==
    WF_vars(Pump) /\ WF_vars(Main) /\ WF_vars(Handler) /\ WF_vars(ReadStdout)

FairSpec == Spec /\ Fairness

-----------------------------------------------------------------------------
(* Properties.                                                             *)

\* JSON-RPC: a message with an id is answered with that id, and so is, with no
\* id, text that is no request; a notification is not answered, except that the
\* daemon answers one of a method it knows.
Owed(m) == m.id \/ m.method \in {"garbage", "none", "known"}

OwedIds(part, n) ==
    LET id(k)   == IF part[k].id THEN <<n, k>> ELSE Null
        owed(k) == IF Owed(part[k]) THEN <<id(k)>> ELSE <<>>
    IN  FlattenSeq([k \in DOMAIN part |-> owed(k)])

\* The replies that the parts 1 .. n are owed, one line for each part that is
\* owed any.
Replies(n) ==
    LET owed(i)  == IF i = failed THEN <<>> ELSE OwedIds(written[i], i)
        reply(i) == IF owed(i) = <<>> THEN <<>> ELSE <<owed(i)>>
    IN  FlattenSeq([i \in 1 .. n |-> reply(i)])

\* What has reached the bridge, and what is still on the way to it.
Received == seen \o stdout \o (IF data = <<>> THEN <<>> ELSE <<data>>)
OnTheWay == down \o (IF out = <<>> THEN <<>> ELSE <<out>>)

\* The agent reads the replies to what it wrote, in that order and each once,
\* and none is lost on the way while nothing dies (_dispatch_line, handle,
\* bridge_stdio).
RepliesInOrder ==
    /\ IsPrefix(Received, Replies(handled))
    /\ faults = 0 => Received \o OnTheWay = Replies(handled)

\* A session that the agent ends by closing stdin is answered to the last line
\* before the bridge exits.  Only a death cuts it short (pump_up shuts down one
\* half only), or a message that the daemon cannot dispatch: of that line and
\* of those after it the agent hears nothing, of those before it everything.
EndIsComplete ==
    main = "exited" /\ faults = 0 =>
        /\ seen \o stdout = Replies(handled)
        /\ failed = 0 => handled = Len(written)

\* The daemon's thread waits for ever for a process outside its group.
StaysStuck == <>[](handler = "stuck")

\* Whatever fills up, the daemon deals with a line, or the session is over,
\* unless a call stays stuck.
LinesAreTaken ==
    \/ StaysStuck
    \/ \A n \in 1 .. MaxLines :
           Len(written) >= n ~> handled >= n \/ main = "exited"

\* Once stdin is closed the bridge ends, and so does the daemon's thread, unless
\* a call stays stuck.
SessionEnds ==
    \/ StaysStuck
    \/ ~stdinOpen ~> main = "exited" /\ handler \in {"none", "closed"}

=============================================================================
