-------------------------------- MODULE Rpc ---------------------------------
(***************************************************************************)
(* What a relay between an MCP client and the daemon promises of each      *)
(* request, whatever crashes in between: the daemon executes it at most    *)
(* once, and only after it was sent; the client gets at most one answer,   *)
(* a result only of an execution; an error says nothing of the execution,  *)
(* which may have happened or may still happen.                            *)
(***************************************************************************)
EXTENDS Naturals

CONSTANT Requests

VARIABLES
    sent,      \* requests the client handed over
    runs,      \* how often the daemon began to execute the request
    answer     \* what the client was told

vars == <<sent, runs, answer>>

Answers == {"none", "reply", "unreachable", "timeout"}

TypeOK ==
    /\ sent \subseteq Requests
    /\ runs \in [Requests -> 0..1]
    /\ answer \in [Requests -> Answers]

Init ==
    /\ sent = {}
    /\ runs = [r \in Requests |-> 0]
    /\ answer = [r \in Requests |-> "none"]

Send(r) ==
    /\ r \notin sent
    /\ sent' = sent \cup {r}
    /\ UNCHANGED <<runs, answer>>

Execute(r) ==
    /\ r \in sent /\ runs[r] = 0
    /\ runs' = [runs EXCEPT ![r] = 1]
    /\ UNCHANGED <<sent, answer>>

Tell(r, a) ==
    /\ r \in sent /\ answer[r] = "none"
    /\ a = "reply" => runs[r] = 1
    /\ answer' = [answer EXCEPT ![r] = a]
    /\ UNCHANGED <<sent, runs>>

Next == \E r \in Requests :
          Send(r) \/ Execute(r) \/ \E a \in Answers \ {"none"} : Tell(r, a)

Spec == Init /\ [][Next]_vars

=============================================================================
