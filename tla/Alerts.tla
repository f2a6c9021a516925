------------------------------- MODULE Alerts -------------------------------
(***************************************************************************)
(* Leak alerts, sandbroker/alert.py: one JSON file per alert in a          *)
(* directory that three programs write without a lock -- the daemon        *)
(* (raise_alert, on the tool report_leak), `sandbroker sweep` started by a *)
(* timer, and `sandbroker ack` run by a human.  Each of them replaces the  *)
(* file by way of <id>.json.tmp, a name they share.                        *)
(*                                                                         *)
(* A record is reduced to whether it is acknowledged; its age to whether   *)
(* REPEAT_AFTER seconds have passed since last_push.                       *)
(***************************************************************************)
EXTENDS Naturals, FiniteSets

CONSTANTS
    Ids,          \* alert ids, each a leak that an agent may report
    MaxKills,     \* bound on the programs killed in a behaviour
    MaxAcks       \* bound on the calls of acknowledge in a behaviour

Programs == {"report", "sweep", "ack"}

ASSUME BoundsAssumption  == MaxKills \in Nat /\ MaxAcks \in Nat

VARIABLES
    file,           \* what <id>.json holds
    tmp,            \* what <id>.json.tmp holds
    due,            \* is the recorded last_push old enough?
    stage,          \* what each program does next about each alert
    fd,             \* the file its open descriptor refers to by now
    todo,           \* open and due alerts the running sweep has yet to push
    sweeping,       \* is a sweep running?
    reported,       \* alerts raise_alert was called for
    acknowledged,   \* alerts acknowledge() returned for
    kills,          \* programs killed so far
    acks,           \* calls of acknowledge so far
    raced           \* alerts acknowledged while a sweep was running

vars == <<file, tmp, due, stage, fd, todo, sweeping, reported, acknowledged,
          kills, acks, raced>>

\* "empty" is a file just truncated, "corrupt" one that does not parse.
Contents == {"absent", "empty", "corrupt", "open", "acked"}
Stages   == {"idle", "push", "open", "flush", "replace"}

TypeOK ==
    /\ file \in [Ids -> Contents]
    /\ tmp \in [Ids -> Contents]
    /\ due \in [Ids -> BOOLEAN]
    /\ stage \in [Programs -> [Ids -> Stages]]
    /\ fd \in [Programs -> [Ids -> {"none", "tmp", "live", "lost"}]]
    /\ todo \subseteq Ids
    /\ sweeping \in BOOLEAN
    /\ reported \subseteq Ids
    /\ acknowledged \subseteq reported
    /\ kills \in 0..MaxKills
    /\ acks \in 0..MaxAcks
    /\ raced \subseteq Ids
    /\ \A p \in Programs, a \in Ids :
          (fd[p][a] # "none") <=> stage[p][a] \in {"flush", "replace"}

Init ==
    /\ file = [a \in Ids |-> "absent"]
    /\ tmp = [a \in Ids |-> "absent"]
    /\ due = [a \in Ids |-> FALSE]
    /\ stage = [p \in Programs |-> [a \in Ids |-> "idle"]]
    /\ fd = [p \in Programs |-> [a \in Ids |-> "none"]]
    /\ todo = {}
    /\ sweeping = FALSE
    /\ reported = {}
    /\ acknowledged = {}
    /\ kills = 0
    /\ acks = 0
    /\ raced = {}

-----------------------------------------------------------------------------
(* _write: truncate the temporary file, write it, rename it.               *)

Goto(p, a, s) == stage' = [stage EXCEPT ![p][a] = s]

\* Mutant of Record: acknowledge does not set the field.
RecordForgotten(p) == "open"

\* The record a program writes: sweep and raise_alert one they found or made
\* unacknowledged, ack an acknowledged one.
Record(p) == IF p = "ack" THEN "acked" ELSE "open"

\* Mutant of Open: the record itself is opened for writing, then renamed over.
OpenInPlace(p, a) ==
    /\ stage[p][a] = "open"
    /\ tmp' = [tmp EXCEPT ![a] = "empty"]
    /\ file' = [file EXCEPT ![a] = "empty"]
    /\ fd' = [fd EXCEPT ![p][a] = "tmp"]
    /\ Goto(p, a, "flush")
    /\ UNCHANGED <<due, todo, sweeping, reported, acknowledged, kills, acks, raced>>

\* open(tmp, "w") creates the temporary file or truncates the one it finds.
Open(p, a) ==
    /\ stage[p][a] = "open"
    /\ tmp' = [tmp EXCEPT ![a] = "empty"]
    /\ fd' = [fd EXCEPT ![p][a] = "tmp"]
    /\ Goto(p, a, "flush")
    /\ UNCHANGED <<file, due, todo, sweeping, reported, acknowledged, kills, acks, raced>>

\* A record written over a longer one leaves its tail behind; the longer one
\* is the acknowledged one, which has a field more.
Over(old, new) ==
    IF old \in {"acked", "corrupt"} /\ new = "open" THEN "corrupt" ELSE new

\* Closing the file writes the buffer, wherever the file is by now.
Flush(p, a) ==
    /\ stage[p][a] = "flush"
    /\ tmp' = IF fd[p][a] = "tmp"
              THEN [tmp EXCEPT ![a] = Over(@, Record(p))] ELSE tmp
    /\ file' = IF fd[p][a] = "live"
               THEN [file EXCEPT ![a] = Over(@, Record(p))] ELSE file
    /\ due' = [due EXCEPT ![a] = (fd[p][a] # "live" \/ p = "ack") /\ @]
    /\ Goto(p, a, "replace")
    /\ UNCHANGED <<fd, todo, sweeping, reported, acknowledged, kills, acks, raced>>

\* What a program does when its write is through: ack reports to the human.
Acknowledge(p, a) ==
    acknowledged' = IF p = "ack" THEN acknowledged \cup {a} ELSE acknowledged

\* os.replace: descriptors of the temporary file now refer to the live one.
Replace(p, a) ==
    /\ stage[p][a] = "replace" /\ tmp[a] # "absent"
    /\ file' = [file EXCEPT ![a] = tmp[a]]
    /\ tmp' = [tmp EXCEPT ![a] = "absent"]
    /\ due' = [due EXCEPT ![a] = p = "ack" /\ @]
    /\ fd' = [q \in Programs |-> [fd[q] EXCEPT ![a] =
                CASE q = p -> "none"
                  [] q # p /\ @ = "tmp" -> "live"
                  [] q # p /\ @ = "live" -> "lost"
                  [] OTHER -> @]]
    /\ Goto(p, a, "idle")
    /\ Acknowledge(p, a)
    /\ UNCHANGED <<todo, sweeping, reported, kills, acks, raced>>

\* A program ends: by itself, by an exception, or killed.
End(p) ==
    /\ stage' = [stage EXCEPT ![p] = [a \in Ids |-> "idle"]]
    /\ fd' = [fd EXCEPT ![p] = [a \in Ids |-> "none"]]
    /\ todo' = IF p = "sweep" THEN {} ELSE todo
    /\ sweeping' = (p # "sweep" /\ sweeping)

\* Another program renamed the file away: FileNotFoundError ends the program.
\* raise_alert is alone with the file of an alert that has no record yet.
ReplaceFail(p, a) ==
    /\ p # "report"
    /\ stage[p][a] = "replace" /\ tmp[a] = "absent"
    /\ End(p)
    /\ UNCHANGED <<file, tmp, due, reported, acknowledged, kills, acks, raced>>

-----------------------------------------------------------------------------
(* The three programs.                                                     *)

\* raise_alert: first the notification, then the record.
Report(a) ==
    /\ a \notin reported
    /\ reported' = reported \cup {a}
    /\ Goto("report", a, "push")
    /\ UNCHANGED <<file, tmp, due, fd, todo, sweeping, acknowledged, kills, acks, raced>>

\* notify returns, delivered or not, within NOTIFY_TIMEOUT.
Notified(p, a) ==
    /\ stage[p][a] = "push"
    /\ Goto(p, a, "open")
    /\ UNCHANGED <<file, tmp, due, fd, todo, sweeping, reported, acknowledged,
                   kills, acks, raced>>

Busy(p) == {a \in Ids : stage[p][a] # "idle"}

\* acknowledge: an id without a readable record is refused.
Ack(a) ==
    /\ acks < MaxAcks /\ Busy("ack") = {}
    /\ file[a] \in {"open", "acked"}
    /\ acks' = acks + 1
    /\ raced' = IF sweeping THEN raced \cup {a} ELSE raced
    /\ Goto("ack", a, "open")
    /\ UNCHANGED <<file, tmp, due, fd, todo, sweeping, reported, acknowledged,
                   kills>>

\* Mutant of Quiet: the comparison with REPEAT_AFTER the wrong way round.
QuietInverted(a) == file[a] = "open" /\ ~due[a]

\* An alert to push again: open, and last pushed REPEAT_AFTER seconds ago.
Quiet(a) == file[a] = "open" /\ due[a]

\* sweep: the timer starts it, and it reads all records before it pushes any.
SweepStart ==
    /\ ~sweeping
    /\ sweeping' = TRUE
    /\ todo' = {a \in Ids : Quiet(a)}
    /\ raced' = raced \cup Busy("ack")
    /\ UNCHANGED <<file, tmp, due, stage, fd, reported, acknowledged, kills,
                   acks>>

SweepNext(a) ==
    /\ sweeping /\ Busy("sweep") = {} /\ a \in todo
    /\ todo' = todo \ {a}
    /\ Goto("sweep", a, "push")
    /\ UNCHANGED <<file, tmp, due, fd, sweeping, reported, acknowledged, kills, acks, raced>>

SweepEnd ==
    /\ sweeping /\ Busy("sweep") = {} /\ todo = {}
    /\ sweeping' = FALSE
    /\ UNCHANGED <<file, tmp, due, stage, fd, todo, reported, acknowledged,
                   kills, acks, raced>>

-----------------------------------------------------------------------------
(* The environment: time, and programs that are killed.                    *)

\* REPEAT_AFTER seconds pass.
Ripen(a) ==
    /\ file[a] # "absent" /\ ~due[a]
    /\ due' = [due EXCEPT ![a] = TRUE]
    /\ UNCHANGED <<file, tmp, stage, fd, todo, sweeping, reported,
                   acknowledged, kills, acks, raced>>

Kill(p) ==
    /\ kills < MaxKills
    /\ Busy(p) # {} \/ (p = "sweep" /\ sweeping)
    /\ kills' = kills + 1
    /\ End(p)
    /\ UNCHANGED <<file, tmp, due, reported, acknowledged, acks, raced>>

WriteStep(p, a) ==
    Notified(p, a) \/ Open(p, a) \/ Flush(p, a) \/ Replace(p, a) \/ ReplaceFail(p, a)

Sweep == SweepStart \/ (\E a \in Ids : SweepNext(a)) \/ SweepEnd

Next ==
    \/ \E a \in Ids : Report(a) \/ Ack(a) \/ Ripen(a)
    \/ \E p \in Programs, a \in Ids : WriteStep(p, a)
    \/ Sweep
    \/ \E p \in Programs : Kill(p)

Spec == Init /\ [][Next]_vars

\* The timer starts a sweep again and again, a program that runs goes on, and
\* time passes.  Nobody is bound to report or to acknowledge anything.
Fairness ==
    /\ \A p \in Programs, a \in Ids : WF_vars(WriteStep(p, a))
    /\ \A a \in Ids : WF_vars(Ripen(a)) /\ WF_vars(SweepNext(a))
    /\ WF_vars(SweepStart) /\ WF_vars(SweepEnd)

FairSpec == Spec /\ Fairness

-----------------------------------------------------------------------------
(* Properties.                                                             *)

\* An acknowledgement that the human was told of is final, if no sweep was
\* running at the time: whatever is killed or reported, the alert is not open
\* again (acknowledge, sweep, _write).
AcksAreFinal == \A a \in acknowledged \ raced : file[a] # "open"

\* An alert fires until somebody acknowledges it (the head of alert.py).  The
\* code lets a sweep write back the record it read before its notification.
AcknowledgedIsSilent == \A a \in acknowledged : file[a] # "open"

\* An open alert cannot vanish from open_alerts: its record stays readable, and
\* open unless somebody is acknowledging it (_write and its temporary file),
\* again if no sweep was running then.
RecordsStay ==
    [][\A a \in Ids \ raced : file[a] = "open" =>
          \/ file'[a] = "open"
          \/ file'[a] = "acked" /\ a \in Busy("ack")]_vars

\* An alert that stays open is pushed again, and again (sweep), whichever
\* programs are killed and whichever renames fail.
OpenAlertsRing ==
    \A a \in Ids : file[a] = "open" ~>
        stage["sweep"][a] = "push" \/ file[a] # "open"

=============================================================================
