------------------------------- MODULE Bridge -------------------------------
(***************************************************************************)
(* The file queue of sandbroker/bridge.py: a sandboxed client writes each  *)
(* JSON-RPC message into <base>/<vault>/req, a relay process on the host   *)
(* claims it by renaming it, hands it to a thread that talks to the        *)
(* daemon's socket (sandbroker/server.py), and writes the reply into       *)
(* <base>/<vault>/resp, where the client's thread is polling.              *)
(*                                                                         *)
(* One vault, one client process, one thread of it per request.  Several   *)
(* relays may watch the same queue.  Time is not modelled: an expired      *)
(* 900-second deadline is an action that may happen at any moment at which *)
(* the code is waiting, when Deadlines allows it.                          *)
(***************************************************************************)
EXTENDS Naturals, FiniteSets

CONSTANTS
    Requests,    \* the messages the MCP client sends in its session
    Relays,      \* `sandbroker bridge` processes watching the queue
    Kinds,       \* the kinds of message the session may contain
    Deadlines,   \* may a 900-second deadline expire?
    MaxFaults    \* how often each kind of fault may strike

Faults   == {"relay", "daemon", "cleaner"}
AllKinds == {"call", "notification", "batch", "quietBatch"}

ASSUME KindsAssumption     == Kinds \subseteq AllKinds
ASSUME DeadlinesAssumption == Deadlines \in BOOLEAN
ASSUME FaultsAssumption    == MaxFaults \in [Faults -> Nat]

VARIABLES
    kind,       \* what each message is
    proc,       \* the client process (client_stdio)
    thread,     \* its thread for each request (relay)
    answer,     \* the line that thread printed for the MCP client
    dirs,       \* the queue directories that exist
    reqFile,    \* the request's file in req/: <rid>.json, <rid>.json.taken
    respFile,   \* the payload of its file in resp/
    beat,       \* the age of the heartbeat file
    up,         \* is the relay running?
    listed,     \* names of the relay's last listing not yet visited
    worker,     \* the relay's thread for the request (handle)
    daemonUp,   \* is the daemon running?
    call,       \* the socket connection of that thread, seen by the daemon
    executed,   \* how often the daemon began to execute the message
    faults      \* faults that have struck

clientVars == <<proc, thread, answer>>
queueVars  == <<dirs, reqFile, respFile>>
relayVars  == <<beat, up, listed, worker>>
daemonVars == <<daemonUp, call, executed>>
vars == <<kind, clientVars, queueVars, relayVars, daemonVars, faults>>

BothDirs     == {"req", "resp"}
Replies      == {"answer", "noReply", "unreachable"}
WorkerStates == {"none", "claimed", "loaded", "sent", "ended"} \cup Replies
CallStates   == {"none", "buffered", "executing", "answered", "silent",
                 "eof", "reset"}

TypeOK ==
    /\ kind \in [Requests -> Kinds]
    /\ proc \in {"new", "looking", "serving", "exited"}
    /\ thread \in [Requests -> {"idle", "waiting", "ended", "killed"}]
    /\ answer \in [Requests -> {"none", "reply", "unreachable", "timeout"}]
    /\ dirs \in SUBSET BothDirs
    /\ reqFile \in [Requests -> {"absent", "queued", "taken"}]
    /\ respFile \in [Requests -> {"absent"} \cup Replies]
    /\ beat \in {"fresh", "stale"}
    /\ up \in [Relays -> BOOLEAN]
    /\ listed \in [Relays -> SUBSET Requests]
    /\ worker \in [Relays -> [Requests -> WorkerStates]]
    /\ daemonUp \in BOOLEAN
    /\ call \in [Relays -> [Requests -> CallStates]]
    /\ executed \in [Requests -> Nat]
    /\ faults \in [Faults -> Nat]

Init ==
    /\ kind \in [Requests -> Kinds]
    /\ proc = "new"
    /\ thread = [r \in Requests |-> "idle"]
    /\ answer = [r \in Requests |-> "none"]
    /\ dirs = {}
    /\ reqFile = [r \in Requests |-> "absent"]
    /\ respFile = [r \in Requests |-> "absent"]
    /\ beat = "stale"
    /\ up = [b \in Relays |-> FALSE]
    /\ listed = [b \in Relays |-> {}]
    /\ worker = [b \in Relays |-> [r \in Requests |-> "none"]]
    /\ daemonUp = TRUE
    /\ call = [b \in Relays |-> [r \in Requests |-> "none"]]
    /\ executed = [r \in Requests |-> 0]
    /\ faults = [f \in Faults |-> 0]

-----------------------------------------------------------------------------
(* What the code can tell about a message.                                 *)

\* Mutant: the test of _expects_reply inverted.
ExpectsReplyInverted(r) == kind[r] = "notification"

\* _expects_reply: only an object without an id is taken for a notification;
\* a batch is a list, so the worker waits for an answer even to a quiet one.
ExpectsReply(r) == kind[r] # "notification"

\* _dispatch_line: the daemon is silent on notifications and on a batch in
\* which every member was one.
DaemonReplies(r) == kind[r] \in {"call", "batch"}

\* message.get and reply.get exist on objects, not on lists.
IsObject(r) == kind[r] \in {"call", "notification"}

-----------------------------------------------------------------------------
(* The client: client_stdio, run inside the sandbox.                       *)

\* ensure_queue, before looking for the heartbeat.
ClientEnsureQueue ==
    /\ proc = "new"
    /\ proc' = "looking"
    /\ dirs' = BothDirs
    /\ UNCHANGED <<kind, thread, answer, reqFile, respFile, relayVars,
                   daemonVars, faults>>

\* The heartbeat is fresh: start reading stdin.
ClientServe ==
    /\ proc = "looking" /\ beat = "fresh"
    /\ proc' = "serving"
    /\ UNCHANGED <<kind, thread, answer, queueVars, relayVars, daemonVars,
                   faults>>

\* No heartbeat within HEARTBEAT_WAIT: exit 1 with a diagnosis.
ClientGiveUp ==
    /\ proc = "looking" /\ beat = "stale"
    /\ proc' = "exited"
    /\ UNCHANGED <<kind, thread, answer, queueVars, relayVars, daemonVars,
                   faults>>

\* A line arrives on stdin and its thread writes the request file.
Submit(r) ==
    /\ proc = "serving" /\ thread[r] = "idle" /\ "req" \in dirs
    /\ thread' = [thread EXCEPT ![r] = "waiting"]
    /\ reqFile' = [reqFile EXCEPT ![r] = "queued"]
    /\ UNCHANGED <<kind, proc, answer, dirs, respFile, relayVars, daemonVars,
                   faults>>

\* The write fails: the thread logs and returns.
SubmitFail(r) ==
    /\ proc = "serving" /\ thread[r] = "idle" /\ "req" \notin dirs
    /\ thread' = [thread EXCEPT ![r] = "ended"]
    /\ UNCHANGED <<kind, proc, answer, queueVars, relayVars, daemonVars,
                   faults>>

\* What the thread prints for a reply it has read: nothing for the sentinel,
\* and nothing for a batch's list, on which reply.get raises.
Printed(r) ==
    CASE respFile[r] = "unreachable" -> "unreachable"
      [] respFile[r] = "answer" /\ IsObject(r) -> "reply"
      [] OTHER -> "none"

\* Mutant: the response file is left behind.
ReadReplyKeep(r) ==
    /\ thread[r] = "waiting" /\ respFile[r] # "absent"
    /\ answer' = [answer EXCEPT ![r] = Printed(r)]
    /\ thread' = [thread EXCEPT ![r] = "ended"]
    /\ UNCHANGED <<kind, proc, queueVars, relayVars, daemonVars, faults>>

\* The response file is there: read it, unlink it, print it.
ReadReply(r) ==
    /\ thread[r] = "waiting" /\ respFile[r] # "absent"
    /\ respFile' = [respFile EXCEPT ![r] = "absent"]
    /\ answer' = [answer EXCEPT ![r] = Printed(r)]
    /\ thread' = [thread EXCEPT ![r] = "ended"]
    /\ UNCHANGED <<kind, proc, dirs, reqFile, relayVars, daemonVars, faults>>

\* Mutant: the thread gives up without a word.
ClientTimeoutSilent(r) ==
    /\ Deadlines /\ thread[r] = "waiting"
    /\ thread' = [thread EXCEPT ![r] = "ended"]
    /\ UNCHANGED <<kind, proc, answer, queueVars, relayVars, daemonVars, faults>>

\* Mutant: it reports the timeout and keeps polling.
ClientTimeoutPolls(r) ==
    /\ Deadlines /\ thread[r] = "waiting"
    /\ answer' = [answer EXCEPT ![r] = "timeout"]
    /\ UNCHANGED <<kind, proc, thread, queueVars, relayVars, daemonVars, faults>>

\* CLIENT_TIMEOUT: print an error, unless message.get raises on a list.
ClientTimeout(r) ==
    /\ Deadlines /\ thread[r] = "waiting"
    /\ answer' = [answer EXCEPT ![r] = IF IsObject(r) THEN "timeout" ELSE @]
    /\ thread' = [thread EXCEPT ![r] = "ended"]
    /\ UNCHANGED <<kind, proc, queueVars, relayVars, daemonVars, faults>>

\* stdin closes: client_stdio returns and its daemon threads die with it.
ClientExit ==
    /\ proc = "serving"
    /\ proc' = "exited"
    /\ thread' = [r \in Requests |->
                    IF thread[r] = "waiting" THEN "killed" ELSE thread[r]]
    /\ UNCHANGED <<kind, answer, queueVars, relayVars, daemonVars, faults>>

-----------------------------------------------------------------------------
(* A relay: the dispatch loop of serve_queues.                             *)

\* serve_queues begins, at login or because systemd restarts it.
RelayStart(b) ==
    /\ ~up[b]
    /\ up' = [up EXCEPT ![b] = TRUE]
    /\ dirs' = BothDirs
    /\ UNCHANGED <<kind, clientVars, reqFile, respFile, beat, listed, worker,
                   daemonVars, faults>>

\* The top of an iteration: touch the heartbeat and list the requests.
List(b) ==
    /\ up[b] /\ listed[b] = {} /\ "req" \in dirs
    /\ beat' = "fresh"
    /\ listed' = [listed EXCEPT ![b] = {r \in Requests : reqFile[r] = "queued"}]
    /\ UNCHANGED <<kind, clientVars, queueVars, up, worker, daemonVars, faults>>

\* listdir(req) fails: rebuild both directories and carry on.
Rebuild(b) ==
    /\ up[b] /\ listed[b] = {} /\ "req" \notin dirs
    /\ beat' = "fresh"
    /\ dirs' = BothDirs
    /\ UNCHANGED <<kind, clientVars, reqFile, respFile, up, listed, worker,
                   daemonVars, faults>>

\* Mutant: a claim that cannot fail, as by writing a marker file.
ClaimAnyway(b, r) ==
    /\ up[b] /\ r \in listed[b]
    /\ listed' = [listed EXCEPT ![b] = @ \ {r}]
    /\ reqFile' = [reqFile EXCEPT ![r] = "taken"]
    /\ worker' = [worker EXCEPT ![b][r] = "claimed"]
    /\ UNCHANGED <<kind, clientVars, dirs, respFile, beat, up, daemonVars,
                   faults>>

\* Claim a listed name by renaming its file, and start a worker for it.
Claim(b, r) ==
    /\ up[b] /\ r \in listed[b] /\ reqFile[r] = "queued"
    /\ listed' = [listed EXCEPT ![b] = @ \ {r}]
    /\ reqFile' = [reqFile EXCEPT ![r] = "taken"]
    /\ worker' = [worker EXCEPT ![b][r] = "claimed"]
    /\ UNCHANGED <<kind, clientVars, dirs, respFile, beat, up, daemonVars,
                   faults>>

\* The name is gone: another relay has it, or the cleaner.
ClaimFail(b, r) ==
    /\ up[b] /\ r \in listed[b] /\ reqFile[r] # "queued"
    /\ listed' = [listed EXCEPT ![b] = @ \ {r}]
    /\ UNCHANGED <<kind, clientVars, queueVars, beat, up, worker, daemonVars,
                   faults>>

-----------------------------------------------------------------------------
(* A relay's worker thread: handle and _to_socket.                         *)

Goto(b, r, state) == worker' = [worker EXCEPT ![b][r] = state]

\* Read the claimed file and unlink it.
Load(b, r) ==
    /\ worker[b][r] = "claimed" /\ reqFile[r] = "taken"
    /\ reqFile' = [reqFile EXCEPT ![r] = "absent"]
    /\ Goto(b, r, "loaded")
    /\ UNCHANGED <<kind, clientVars, dirs, respFile, beat, up, listed,
                   daemonVars, faults>>

\* The claimed file was cleaned away: return without a reply.
LoadFail(b, r) ==
    /\ worker[b][r] = "claimed" /\ reqFile[r] # "taken"
    /\ Goto(b, r, "ended")
    /\ UNCHANGED <<kind, clientVars, queueVars, beat, up, listed, daemonVars,
                   faults>>

\* Connect and send; a notification is not waited for.
Send(b, r) ==
    /\ worker[b][r] = "loaded" /\ daemonUp
    /\ call' = [call EXCEPT ![b][r] = "buffered"]
    /\ Goto(b, r, IF ExpectsReply(r) THEN "sent" ELSE "noReply")
    /\ UNCHANGED <<kind, clientVars, queueVars, beat, up, listed, daemonUp,
                   executed, faults>>

\* An OSError becomes an error reply with the message's id; message.get on a
\* batch raises instead, and the worker dies.
Failed(r) == IF IsObject(r) THEN "unreachable" ELSE "ended"

SendFail(b, r) ==
    /\ worker[b][r] = "loaded" /\ ~daemonUp
    /\ Goto(b, r, Failed(r))
    /\ UNCHANGED <<kind, clientVars, queueVars, beat, up, listed, daemonVars,
                   faults>>

\* recv returns the daemon's line, the end of the stream, which is taken for
\* "no reply", or ECONNRESET.
Receive(b, r) ==
    /\ worker[b][r] = "sent"
    /\ \/ call[b][r] = "answered" /\ Goto(b, r, "answer")
       \/ call[b][r] = "eof"      /\ Goto(b, r, "noReply")
       \/ call[b][r] = "reset"    /\ Goto(b, r, Failed(r))
    /\ UNCHANGED <<kind, clientVars, queueVars, beat, up, listed, daemonVars,
                   faults>>

\* The socket's own 900-second timeout.
RecvTimeout(b, r) ==
    /\ Deadlines /\ worker[b][r] = "sent"
    /\ call[b][r] \in {"buffered", "executing", "silent"}
    /\ Goto(b, r, Failed(r))
    /\ UNCHANGED <<kind, clientVars, queueVars, beat, up, listed, daemonVars,
                   faults>>

\* Write the response file; without its directory the reply is logged away.
WriteReply(b, r) ==
    /\ worker[b][r] \in Replies
    /\ respFile' = IF "resp" \in dirs
                   THEN [respFile EXCEPT ![r] = worker[b][r]]
                   ELSE respFile
    /\ Goto(b, r, "ended")
    /\ UNCHANGED <<kind, clientVars, dirs, reqFile, beat, up, listed,
                   daemonVars, faults>>

-----------------------------------------------------------------------------
(* The daemon: one _SocketHandler thread per connection.                   *)

\* Read the line and start to execute it, whether or not the worker is there.
Execute(b, r) ==
    /\ daemonUp /\ call[b][r] = "buffered"
    /\ call' = [call EXCEPT ![b][r] = "executing"]
    /\ executed' = [executed EXCEPT ![r] = @ + 1]
    /\ UNCHANGED <<kind, clientVars, queueVars, relayVars, daemonUp, faults>>

\* Write the response, or keep the connection open in silence.
Respond(b, r) ==
    /\ daemonUp /\ call[b][r] = "executing"
    /\ call' = [call EXCEPT ![b][r] =
                  IF DaemonReplies(r) THEN "answered" ELSE "silent"]
    /\ UNCHANGED <<kind, clientVars, queueVars, relayVars, daemonUp, executed,
                   faults>>

\* serve_unix binds the socket again: systemd restarts the daemon.
DaemonStart ==
    /\ ~daemonUp
    /\ daemonUp' = TRUE
    /\ UNCHANGED <<kind, clientVars, queueVars, relayVars, call, executed,
                   faults>>

-----------------------------------------------------------------------------
(* The environment: crashes, /tmp cleaners, the passing of time.           *)

Strike(f) ==
    /\ faults[f] < MaxFaults[f]
    /\ faults' = [faults EXCEPT ![f] = @ + 1]

\* A relay dies: its worker threads die with it, its files stay.
RelayCrash(b) ==
    /\ up[b] /\ Strike("relay")
    /\ up' = [up EXCEPT ![b] = FALSE]
    /\ listed' = [listed EXCEPT ![b] = {}]
    /\ worker' = [worker EXCEPT ![b] = [r \in Requests |->
                    IF worker[b][r] = "none" THEN "none" ELSE "ended"]]
    /\ UNCHANGED <<kind, clientVars, queueVars, beat, daemonVars>>

\* The daemon dies: the kernel closes its connections.  A peer whose data was
\* still unread gets a reset, one whose request had been read an end of
\* stream; an answer already written stays readable.
DaemonCrash ==
    /\ daemonUp /\ Strike("daemon")
    /\ daemonUp' = FALSE
    /\ call' = [b \in Relays |-> [r \in Requests |->
                  CASE call[b][r] = "buffered" -> "reset"
                    [] call[b][r] \in {"executing", "silent"} -> "eof"
                    [] OTHER -> call[b][r]]]
    /\ UNCHANGED <<kind, clientVars, queueVars, relayVars, executed>>

\* A /tmp cleaner removes one queue directory and the files in it.
Clean(d) ==
    /\ d \in dirs /\ Strike("cleaner")
    /\ dirs' = dirs \ {d}
    /\ reqFile' = IF d = "req" THEN [r \in Requests |-> "absent"] ELSE reqFile
    /\ respFile' = IF d = "resp" THEN [r \in Requests |-> "absent"] ELSE respFile
    /\ UNCHANGED <<kind, clientVars, relayVars, daemonVars>>

\* HEARTBEAT_STALE seconds pass with no relay to touch the heartbeat.
BeatExpires ==
    /\ beat = "fresh" /\ \A b \in Relays : ~up[b]
    /\ beat' = "stale"
    /\ UNCHANGED <<kind, clientVars, queueVars, up, listed, worker, daemonVars,
                   faults>>

-----------------------------------------------------------------------------
ClientStep(r) == Submit(r) \/ SubmitFail(r) \/ ReadReply(r) \/ ClientTimeout(r)

ClientProcess == ClientEnsureQueue \/ ClientServe \/ ClientGiveUp \/ ClientExit

LoopStep(b) ==
    \/ RelayStart(b) \/ List(b) \/ Rebuild(b)
    \/ \E r \in Requests : Claim(b, r) \/ ClaimFail(b, r)

WorkerStep(b, r) ==
    \/ Load(b, r) \/ LoadFail(b, r)
    \/ Send(b, r) \/ SendFail(b, r)
    \/ Receive(b, r) \/ RecvTimeout(b, r)
    \/ WriteReply(b, r)

DaemonStep(b, r) == Execute(b, r) \/ Respond(b, r)

Environment ==
    \/ \E b \in Relays : RelayCrash(b)
    \/ DaemonCrash
    \/ \E d \in BothDirs : Clean(d)
    \/ BeatExpires

Next ==
    \/ ClientProcess
    \/ \E r \in Requests : ClientStep(r)
    \/ \E b \in Relays : LoopStep(b)
    \/ \E b \in Relays, r \in Requests : WorkerStep(b, r) \/ DaemonStep(b, r)
    \/ DaemonStart
    \/ Environment

Spec == Init /\ [][Next]_vars

\* Threads are scheduled, systemd restarts what died (Restart=always), and the
\* tool call a handler makes returns: it does but for a command that escapes its
\* timeout, which Gate (CallsReturnOrDrain) and Server (stuck) are about.  Nothing
\* is assumed of stdin, of crashes and of the cleaner.
Fairness ==
    /\ \A r \in Requests : WF_vars(ReadReply(r) \/ ClientTimeout(r))
    /\ \A b \in Relays : WF_vars(LoopStep(b))
    /\ \A b \in Relays, r \in Requests :
         WF_vars(WorkerStep(b, r)) /\ WF_vars(DaemonStep(b, r))
    /\ WF_vars(DaemonStart)

FairSpec == Spec /\ Fairness

-----------------------------------------------------------------------------
(* Properties.                                                             *)

\* The daemon begins to execute a message at most once, however many relays
\* list its file and whoever crashes: the rename in serve_queues is the claim.
AtMostOnce == \A r \in Requests : executed[r] <= 1

\* A result printed for the MCP client, on its way in a worker or waiting in
\* resp/ is the result of an execution of that very message.
Earned(r) ==
    \/ answer[r] = "reply"
    \/ respFile[r] = "answer"
    \/ \E b \in Relays : worker[b][r] = "answer"
    => executed[r] = 1

ResultsAreEarned == \A r \in Requests : Earned(r)

\* Where a message and its reply can be: in one place at a time, in the order
\* client, req/, one worker, its connection, an execution, resp/.  This is why
\* the properties above and below hold, and it is inductive.
Untouched(r) ==
    thread[r] = "idle" =>
        /\ reqFile[r] = "absent" /\ respFile[r] = "absent"
        /\ answer[r] = "none" /\ executed[r] = 0
        /\ \A b \in Relays : worker[b][r] = "none" /\ call[b][r] = "none"

Unclaimed(r) == reqFile[r] = "queued" => \A b \in Relays : worker[b][r] = "none"

SoleWorker(r) ==
    \A b, c \in Relays : worker[b][r] # "none" /\ worker[c][r] # "none" => b = c

SentByWorker(r) ==
    \A b \in Relays :
        call[b][r] # "none" => worker[b][r] \notin {"none", "claimed", "loaded"}

Begun == {"executing", "answered", "silent", "eof"}

Counted(r) ==
    /\ executed[r] \in {0, 1}
    /\ executed[r] = 1 <=> \E b \in Relays : call[b][r] \in Begun

RepliedByWorker(r) ==
    respFile[r] # "absent" => \E b \in Relays : worker[b][r] = "ended"

ToldOnce(r) == answer[r] # "none" => thread[r] = "ended"

Flow(r) ==
    /\ Untouched(r) /\ Unclaimed(r) /\ SoleWorker(r) /\ SentByWorker(r)
    /\ Counted(r) /\ Earned(r) /\ RepliedByWorker(r) /\ ToldOnce(r)

OneFlow == \A r \in Requests : Flow(r)

\* Two workers never share a request, so that a response file is written by
\* one worker and never replaced under the client that polls for it.
ResponsesAreStable ==
    [][\A r \in Requests :
          respFile[r] # "absent" => respFile'[r] \in {respFile[r], "absent"}]_vars

\* While the client's session lasts, and nothing crashes and no deadline
\* expires, every file of the queue has somebody who will remove it: a request
\* and a response have a polling thread, a claimed request has its worker.
FilesHaveOwners ==
    proc = "serving" => \A r \in Requests :
        /\ reqFile[r] = "queued" => thread[r] = "waiting"
        /\ reqFile[r] = "taken" => \E b \in Relays : worker[b][r] = "claimed"
        /\ respFile[r] # "absent" => thread[r] = "waiting"

\* As long as the daemon has not died and no cleaner has struck, a call whose
\* thread ended was answered, with a result or with an error: the client's deadline
\* makes up for whatever a crashed relay took with it.
CallsAreAnswered ==
    faults["daemon"] = 0 /\ faults["cleaner"] = 0 =>
        \A r \in Requests :
            kind[r] = "call" /\ thread[r] = "ended" => answer[r] # "none"

\* Unless a fault strikes every call gets the daemon's own answer, even while a
\* worker waits for good on a batch of notifications.  (No deadline expires in
\* the run that checks it.)
CallsSucceed ==
    \A r \in Requests :
        kind[r] = "call" /\ thread[r] = "waiting"
            ~> \/ answer[r] = "reply" \/ proc = "exited"
               \/ \E f \in Faults : faults[f] > 0

\* The bridge is a relay in the sense of module Rpc.
rpc == INSTANCE Rpc WITH
         sent <- {r \in Requests : thread[r] # "idle"},
         runs <- executed

RefinesRpc == rpc!Spec

=============================================================================
