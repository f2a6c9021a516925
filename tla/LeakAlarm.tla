------------------------------ MODULE LeakAlarm ------------------------------
(***************************************************************************)
(* The leak-alarm plugin, plugin-leak-alarm/hooks/leak_alarm.py and         *)
(* bin/leak-alarm: a process per tool call scans what crossed the tool      *)
(* boundary, drops what its session has reported before, records an alert,  *)
(* notifies a human and prints a message.  Tool calls run in parallel, so   *)
(* several hooks of one session share its `seen` file, which each rewrites  *)
(* by way of one and the same temporary name, and a human may list and      *)
(* clear the alerts meanwhile.  A hook may be killed at any step.           *)
(*                                                                         *)
(* A finding is reduced to its fingerprint.  A hook that finds nothing      *)
(* does nothing, and is left out.                                           *)
(***************************************************************************)
EXTENDS Naturals, FiniteSets

CONSTANTS
    Hooks,       \* hook processes of one session; each raises at most one alert
    Tokens,      \* the credentials that may be found, by fingerprint
    MaxFaults    \* bound on the hooks killed and the file operations that fail

ASSUME FaultsAssumption == MaxFaults \in Nat
ASSUME TokensAssumption == IsFiniteSet(Tokens)

VARIABLES
    past,        \* findings the session reported before these hooks
    stage,       \* what each hook does next
    pre,         \* the hooks that precede their tool call
    findings,    \* what its scan found, until it has looked at the seen file
    fresh,       \* what it has to report
    known,       \* the fingerprints it saves
    fd,          \* the file its open descriptor refers to by now
    seen,        \* what seen-<session>.json holds
    tmp,         \* what seen-<session>.json.tmp holds
    trace,       \* what the file of its alert holds
    sent,        \* hooks whose notifier exited with 0
    said,        \* hooks that printed their message
    clearing,    \* alerts a running `leak-alarm clear` has yet to remove
    unrecorded,  \* hooks with a record that failed
    serial,      \* has every hook had the seen file for itself, and worked?
    faults       \* hooks killed and file operations that failed so far

scanVars  == <<past, pre, findings, fresh>>
saveVars  == <<known, fd, seen, tmp>>
alertVars == <<trace, sent, said, unrecorded>>
vars == <<stage, scanVars, saveVars, alertVars, clearing, serial, faults>>

\* A file of fingerprints: it parses ("good") or it does not ("bad"), and a
\* text of n fingerprints is as long as any other.
Content == [state : {"absent", "bad", "good"}, fps : SUBSET Tokens]
Absent  == [state |-> "absent", fps |-> {}]
Empty   == [state |-> "bad", fps |-> {}]
Text(F) == [state |-> "good", fps |-> F]

SavingStages == {"open", "flush", "replace"}
AlarmStages  == {"record", "close", "notify", "rerecord", "reclose", "say"}
Stages       ==
    {"idle", "read", "done", "dead"} \cup SavingStages \cup AlarmStages

\* "removed" is the file of an alert that somebody cleared.
Traces       == {"absent", "removed", "empty", "undelivered", "delivered"}

TypeOK ==
    /\ past \subseteq Tokens
    /\ stage \in [Hooks -> Stages]
    /\ pre \subseteq Hooks
    /\ findings \in [Hooks -> SUBSET Tokens]
    /\ fresh \in [Hooks -> SUBSET Tokens]
    /\ known \in [Hooks -> SUBSET Tokens]
    /\ fd \in [Hooks -> {"none", "tmp", "live", "lost"}]
    /\ seen \in Content /\ tmp \in Content
    /\ trace \in [Hooks -> Traces]
    /\ sent \subseteq Hooks /\ said \subseteq Hooks
    /\ clearing \subseteq Hooks
    /\ unrecorded \subseteq Hooks
    /\ serial \in BOOLEAN
    /\ faults \in Nat
    /\ \A h \in Hooks : fd[h] # "none" => stage[h] \in {"flush", "replace"}

\* Earlier hooks of the session left the seen file as it should be, or two of
\* them that overlapped left it unreadable.
Init ==
    /\ past \in SUBSET Tokens
    /\ \/ seen = IF past = {} THEN Absent ELSE Text(past)
       \/ past = Tokens /\ seen = [state |-> "bad", fps |-> Tokens]
    /\ stage = [h \in Hooks |-> "idle"]
    /\ findings = [h \in Hooks |-> {}]
    /\ fresh = [h \in Hooks |-> {}]
    /\ known = [h \in Hooks |-> {}]
    /\ fd = [h \in Hooks |-> "none"]
    /\ pre = {}
    /\ tmp = Absent
    /\ trace = [h \in Hooks |-> "absent"]
    /\ sent = {} /\ said = {}
    /\ clearing = {}
    /\ unrecorded = {}
    /\ serial = TRUE
    /\ faults = 0

-----------------------------------------------------------------------------
(* handle: which findings to report.                                       *)

Goto(h, s) == stage' = [stage EXCEPT ![h] = s]

Running == {h \in Hooks : stage[h] \notin {"idle", "done", "dead"}}

\* Before the call everything found is reported, whether or not it was before.
StartPre(h, F) ==
    /\ stage[h] = "idle"
    /\ fresh' = [fresh EXCEPT ![h] = F]
    /\ pre' = pre \cup {h}
    /\ Goto(h, "record")
    /\ UNCHANGED <<past, findings, saveVars, alertVars, clearing, serial,
                   faults>>

StartPost(h, F) ==
    /\ stage[h] = "idle"
    /\ findings' = [findings EXCEPT ![h] = F]
    /\ serial' = (serial /\ Running \subseteq pre)
    /\ Goto(h, "read")
    /\ UNCHANGED <<past, pre, fresh, saveVars, alertVars, clearing, faults>>

\* read_json: a file that is missing or does not parse says nothing.
Parsed(file) == IF file.state = "good" THEN file.fps ELSE {}

\* Mutant of Unseen: the fingerprints are looked up by pattern, one for all.
UnseenAny(F, S) == IF F \cap S # {} THEN {} ELSE F

\* already_seen: the findings this session has not reported.
Unseen(F, S) == F \ S

\* Read the file; without a fresh finding the hook stays silent.
Read(h) ==
    /\ stage[h] = "read"
    /\ LET S == Parsed(seen) IN
          /\ fresh' = [fresh EXCEPT ![h] = Unseen(findings[h], S)]
          /\ known' = [known EXCEPT ![h] = S \cup findings[h]]
    /\ findings' = [findings EXCEPT ![h] = {}]
    /\ Goto(h, IF fresh'[h] = {} THEN "done" ELSE "open")
    /\ UNCHANGED <<past, pre, fd, seen, tmp, alertVars, clearing, serial,
                   faults>>

-----------------------------------------------------------------------------
(* already_seen: mark the findings, and go on to report them regardless.   *)

\* open(tmp, "w") creates the temporary file or truncates the one it finds.
Open(h) ==
    /\ stage[h] = "open"
    /\ tmp' = Empty
    /\ fd' = [fd EXCEPT ![h] = "tmp"]
    /\ Goto(h, "flush")
    /\ UNCHANGED <<scanVars, known, seen, alertVars, clearing, serial, faults>>

\* A text written over a longer one leaves its tail behind.
Over(old, F) ==
    IF Cardinality(old.fps) > Cardinality(F)
    THEN [state |-> "bad", fps |-> old.fps]
    ELSE Text(F)

\* Closing the file writes the text, wherever the file is by now.
Flush(h) ==
    /\ stage[h] = "flush"
    /\ tmp' = IF fd[h] = "tmp" THEN Over(tmp, known[h]) ELSE tmp
    /\ seen' = IF fd[h] = "live" THEN Over(seen, known[h]) ELSE seen
    /\ Goto(h, "replace")
    /\ UNCHANGED <<scanVars, known, fd, alertVars, clearing, serial, faults>>

\* The hook is through with the seen file.
Drop(h) ==
    /\ fd' = [fd EXCEPT ![h] = "none"]
    /\ known' = [known EXCEPT ![h] = {}]

\* Mutant of Replace: the saved text is left under its temporary name.
ReplaceNot(h) ==
    /\ stage[h] = "replace" /\ tmp.state # "absent"
    /\ Drop(h)
    /\ Goto(h, "record")
    /\ UNCHANGED <<scanVars, seen, tmp, alertVars, clearing, serial, faults>>

\* os.replace: descriptors of the temporary file now refer to the live one.
Replace(h) ==
    /\ stage[h] = "replace" /\ tmp.state # "absent"
    /\ seen' = tmp
    /\ tmp' = Absent
    /\ fd' = [g \in Hooks |->
                CASE g = h \/ fd[g] = "none" -> "none"
                  [] g # h /\ fd[g] = "tmp" -> "live"
                  [] OTHER -> "lost"]
    /\ known' = [known EXCEPT ![h] = {}]
    /\ Goto(h, "record")
    /\ UNCHANGED <<scanVars, alertVars, clearing, serial, faults>>

\* Mutant of SaveFailed: what could not be marked is not reported either.
SaveFailedQuiet(h) ==
    /\ Drop(h)
    /\ Goto(h, "done")

\* An OSError is logged, and the findings are reported all the same.
SaveFailed(h) ==
    /\ Drop(h)
    /\ Goto(h, "record")

\* Another hook renamed the temporary file away.
ReplaceFail(h) ==
    /\ stage[h] = "replace" /\ tmp.state = "absent"
    /\ SaveFailed(h)
    /\ UNCHANGED <<scanVars, seen, tmp, alertVars, clearing, serial, faults>>

Strike == faults < MaxFaults /\ faults' = faults + 1

\* The disk is full or the directory is not writable.
SaveFail(h) ==
    /\ Strike
    /\ stage[h] \in {"open", "flush"}
    /\ SaveFailed(h)
    /\ serial' = FALSE
    /\ UNCHANGED <<scanVars, seen, tmp, alertVars, clearing>>

-----------------------------------------------------------------------------
(* raise_alarm: record, notify, record the outcome, tell the user.         *)

\* Mutant of RecordOpen: the alert is recorded once, after the notification.
RecordLate(h) ==
    /\ stage[h] \in {"record", "rerecord"}
    /\ trace' = [trace EXCEPT ![h] = IF stage[h] = "record" THEN @ ELSE "empty"]
    /\ Goto(h, IF stage[h] = "record" THEN "notify" ELSE "reclose")
    /\ UNCHANGED <<scanVars, saveVars, sent, said, unrecorded, clearing,
                   serial, faults>>

\* record: open(path, "w") truncates the alert's file ...
RecordOpen(h) ==
    /\ stage[h] \in {"record", "rerecord"}
    /\ trace' = [trace EXCEPT ![h] = "empty"]
    /\ Goto(h, IF stage[h] = "record" THEN "close" ELSE "reclose")
    /\ UNCHANGED <<scanVars, saveVars, sent, said, unrecorded, clearing,
                   serial, faults>>

Outcome(h) == IF h \in sent THEN "delivered" ELSE "undelivered"

\* Mutant of RecordClose: the outcome is not written a second time.
RecordOnce(h) ==
    /\ stage[h] \in {"close", "reclose"}
    /\ trace' = [trace EXCEPT ![h] =
                    IF @ = "removed" THEN @ ELSE "undelivered"]
    /\ Goto(h, IF stage[h] = "close" THEN "notify" ELSE "say")
    /\ UNCHANGED <<scanVars, saveVars, sent, said, unrecorded, clearing,
                   serial, faults>>

\* ... and closing it writes the alert, unless it was removed meanwhile.
RecordClose(h) ==
    /\ stage[h] \in {"close", "reclose"}
    /\ trace' = [trace EXCEPT ![h] = IF @ = "removed" THEN @ ELSE Outcome(h)]
    /\ Goto(h, IF stage[h] = "close" THEN "notify" ELSE "say")
    /\ UNCHANGED <<scanVars, saveVars, sent, said, unrecorded, clearing,
                   serial, faults>>

\* Recording is best effort: an OSError is logged and the alarm goes on.
RecordFail(h) ==
    /\ Strike
    /\ stage[h] \in {"record", "close", "rerecord", "reclose"}
    /\ unrecorded' = unrecorded \cup {h}
    /\ Goto(h, IF stage[h] \in {"record", "close"} THEN "notify" ELSE "say")
    /\ UNCHANGED <<scanVars, saveVars, trace, sent, said, clearing, serial>>

\* notify: exit status 0, or not, or no notifier, within NOTIFY_TIMEOUT.
Notify(h) ==
    /\ stage[h] = "notify"
    /\ sent' \in {sent, sent \cup {h}}
    /\ Goto(h, "rerecord")
    /\ UNCHANGED <<scanVars, saveVars, trace, said, unrecorded, clearing,
                   serial, faults>>

\* The message for the user, with the denial of the call it precedes.
Say(h) ==
    /\ stage[h] = "say"
    /\ said' = said \cup {h}
    /\ Goto(h, "done")
    /\ UNCHANGED <<scanVars, saveVars, trace, sent, unrecorded, clearing,
                   serial, faults>>

-----------------------------------------------------------------------------
(* bin/leak-alarm, and what kills a hook.                                  *)

\* load reads the files there are; the ones that do not parse are skipped.
Readable(h) == trace[h] \in {"undelivered", "delivered"}

\* One file after the other, and more than one `clear` may run.
ClearLoad(h) ==
    /\ h \notin clearing /\ Readable(h)
    /\ clearing' = clearing \cup {h}
    /\ UNCHANGED <<stage, scanVars, saveVars, alertVars, serial, faults>>

\* Mutant of ClearRemove: clear removes every file it finds by then.
ClearRemoveAny(h) ==
    /\ clearing # {} /\ Readable(h)
    /\ clearing' = clearing \ {h}
    /\ trace' = [trace EXCEPT ![h] = "removed"]
    /\ UNCHANGED <<stage, scanVars, saveVars, sent, said, unrecorded, serial,
                   faults>>

\* cmd_clear removes the files of the alerts it loaded, whatever is in them
\* by now.
ClearRemove(h) ==
    /\ h \in clearing
    /\ clearing' = clearing \ {h}
    /\ trace' = [trace EXCEPT ![h] = "removed"]
    /\ UNCHANGED <<stage, scanVars, saveVars, sent, said, unrecorded, serial,
                   faults>>

\* The hook's own time limit, an interrupted turn, a notifier that kills it.
Kill(h) ==
    /\ Strike
    /\ h \in Running
    /\ Goto(h, "dead")
    /\ Drop(h)
    /\ serial' = FALSE
    /\ UNCHANGED <<scanVars, seen, tmp, alertVars, clearing>>

-----------------------------------------------------------------------------
Save(h)  == Open(h) \/ Flush(h) \/ Replace(h) \/ ReplaceFail(h)
Alarm(h) == RecordOpen(h) \/ RecordClose(h) \/ Notify(h) \/ Say(h)

HookStep(h) == Read(h) \/ Save(h) \/ Alarm(h)

Next ==
    \/ \E h \in Hooks : StartPre(h, Tokens)
    \/ \E h \in Hooks, F \in SUBSET Tokens \ {{}} : StartPost(h, F)
    \/ \E h \in Hooks : HookStep(h) \/ SaveFail(h) \/ RecordFail(h) \/ Kill(h)
    \/ \E h \in Hooks : ClearLoad(h) \/ ClearRemove(h)

Spec == Init /\ [][Next]_vars

\* A hook that runs goes on; nobody is bound to call a tool or to clear.
Fairness == \A h \in Hooks : WF_vars(HookStep(h))

FairSpec == Spec /\ Fairness

-----------------------------------------------------------------------------
(* Properties.                                                             *)

\* A hook that takes a finding upon itself: it goes on to print its message, or
\* it was killed.
Reports(h, t) == t \in fresh[h] /\ (stage[h] = "done" => h \in said)

\* What the session takes for reported has a hook that reports it: no save that
\* failed or was overwritten, no text that one hook wrote and another renamed,
\* silences a finding (already_seen returns fresh whatever becomes of the save).
Covered(F) == \A t \in F : \E h \in Hooks \ pre : Reports(h, t)

SeenIsReported == Covered(Parsed(seen) \ past)

\* Hooks that run one after the other, and whose saves work, report a
\* credential in tool output once per session.
PagesOnce ==
    serial => \A g, h \in Hooks \ pre : fresh[g] \cap fresh[h] # {} => g = h

\* "Write before notifying so a notifier that hangs or kills the process still
\* leaves a trace": from then on an alert can be listed, unless its record
\* failed, somebody cleared it, or its hook is in the middle of writing the
\* outcome -- or died there (record truncates the file it rewrites).
TraceIsLeft ==
    \A h \in Hooks :
        stage[h] \in {"notify", "rerecord", "say", "done"} /\ fresh[h] # {}
            => Readable(h) \/ h \in unrecorded \/ trace[h] = "removed"

\* Nothing but its own hook's rewriting and a human takes an alert off the list.
AlertsStay ==
    [][\A h \in Hooks :
          Readable(h) /\ ~(Readable(h))'
              => h \in clearing \/ stage[h] = "rerecord"]_vars

\* `leak-alarm alerts` says NOT DELIVERED of an alert that went out only until
\* its hook has written the outcome, and never the other way round.
DeliveryIsRecorded ==
    \A h \in Hooks :
        /\ trace[h] = "delivered" => h \in sent
        /\ /\ stage[h] \in {"say", "done"}
           /\ trace[h] = "undelivered" /\ h \in sent
           => h \in unrecorded

\* A credential in tool output is reported by some hook in the end, even if the
\* hook that saw it stays silent because another one is about to report it;
\* unless the one that took it upon itself was killed.
FindingsRing ==
    \A t \in Tokens :
        (\E h \in Hooks : stage[h] = "read" /\ t \in findings[h])
            ~> \/ t \in past
               \/ \E g \in Hooks \ pre :
                  \/ t \in fresh[g] /\ g \in said
                  \/ t \in findings[g] \cup fresh[g] /\ stage[g] = "dead"

=============================================================================
