-------------------------------- MODULE Gate --------------------------------
(***************************************************************************)
(* The way of a tool call from the unlock gate to its result: locks.py and *)
(* the commands unlock and lock of cli.py, the gates of the tools run,     *)
(* store, copy and archive in mcp.py, and runner.py, which resolves the    *)
(* secrets of a call, runs its command and scrubs what it printed.         *)
(*                                                                         *)
(* One vault that requires an unlock, its daemon, and one operator.  The   *)
(* daemon reads the marker an operator writes as root; the marker's name   *)
(* is replaced in one step, its owner changed in another.                  *)
(*                                                                         *)
(* An output is reduced to what it contains: values the call resolved or   *)
(* an earlier command left in the broker's files, the service-account      *)
(* token, a credential minted by the command; for store, to what its       *)
(* standard output contains.  A secret that max_output_bytes cuts in two   *)
(* counts as cut away.                                                     *)
(***************************************************************************)
EXTENDS Naturals, FiniteSets

CONSTANTS
    Callers,        \* threads of the daemon that serve a tool call
    Refs,           \* references to secrets; a reference stands for its value
    Token,          \* the service-account token
    Minted,         \* a credential the command itself creates
    StoreEnabled,   \* store_enabled of the vault's configuration
    Pipes,          \* who may still hold the pipes when the shell has ended
    MaxMinutes,     \* the longest unlock
    MaxTime,        \* bound on the clock
    MaxCommands,    \* bound on the operator's commands
    MaxCalls        \* bound on the tool calls

AnyPipe == {"closed", "group", "session"}

ASSUME PartsAssumption  == Token \notin Refs /\ Minted \notin Refs /\ Token # Minted
ASSUME ConfigAssumption == StoreEnabled \in BOOLEAN
ASSUME PipesAssumption  == Pipes \subseteq AnyPipe
ASSUME BoundsAssumption == {MaxMinutes, MaxTime, MaxCommands, MaxCalls} \subseteq Nat

VARIABLES
    now,        \* the clock, in minutes
    marker,     \* the unlock marker: who can read it, and until when it holds
    op,         \* the step of the operator's command, and the time it grants
    told,       \* what the operator's last command reported
    commands,   \* the operator's commands so far
    step,       \* what each call does next
    tool,       \* the tool it serves
    need,       \* the references it was given
    got,        \* those it has resolved, which the redactor knows
    out,        \* what its command printed, and how it ended
    value,      \* what store is about to write
    left,       \* values that commands may have left in the broker's files
    calls,      \* calls so far
    stored      \* everything store ever wrote, with its command's output

gateVars == <<now, marker, op, told, commands>>
callVars == <<step, tool, need, got, out, value>>
vars == <<gateVars, callVars, left, calls, stored>>

Parts   == Refs \cup {Token, Minted}
Outputs == [parts : SUBSET Parts, long : BOOLEAN,
            end : {"ok", "failed", "late"}, pipe : AnyPipe]
Nothing == [parts |-> {}, long |-> FALSE, end |-> "ok", pipe |-> "closed"]

TypeOK ==
    /\ now \in 0..MaxTime
    /\ marker \in [reader : {"nobody", "root", "broker"}, until : Nat]
    /\ op \in [step : {"idle", "write", "hand", "confirm"}, until : Nat]
    /\ told \in {"nothing", "locked", "unlocked", "warned", "failed"}
    /\ commands \in 0..MaxCommands
    /\ step \in [Callers -> {"idle", "resolve", "run", "drain", "scrub", "write"}]
    /\ tool \in [Callers -> {"run", "store", "other"}]
    /\ need \in [Callers -> SUBSET Refs]
    /\ got \in [Callers -> SUBSET Refs]
    /\ out \in [Callers -> Outputs]
    /\ value \in [Callers -> SUBSET Parts]
    /\ left \subseteq Refs
    /\ calls \in 0..MaxCalls
    /\ stored \subseteq [value : SUBSET Parts, output : Outputs]
    /\ \A c \in Callers : got[c] \subseteq need[c] /\ (step[c] = "idle" => got[c] = {})

Init ==
    /\ now = 0
    /\ marker = [reader |-> "nobody", until |-> 0]
    /\ op = [step |-> "idle", until |-> 0]
    /\ told = "nothing"
    /\ commands = 0
    /\ step = [c \in Callers |-> "idle"]
    /\ tool = [c \in Callers |-> "run"]
    /\ need = [c \in Callers |-> {}]
    /\ got = [c \in Callers |-> {}]
    /\ out = [c \in Callers |-> Nothing]
    /\ value = [c \in Callers |-> {}]
    /\ left = {}
    /\ calls = 0
    /\ stored = {}

-----------------------------------------------------------------------------
(* The gate.                                                               *)

\* locks.status, asked by the daemon: a marker it cannot read is no marker.
Open == marker.reader = "broker" /\ marker.until > now

Tick ==
    /\ now < MaxTime
    /\ now' = now + 1
    /\ UNCHANGED <<marker, op, told, commands, callVars, left, calls, stored>>

Command(s, until, report) ==
    /\ op' = [step |-> s, until |-> until]
    /\ told' = report
    /\ UNCHANGED <<now, callVars, left, calls, stored>>

Invoke ==
    /\ op.step = "idle" /\ commands < MaxCommands
    /\ commands' = commands + 1

\* Mutant of UnlockBegin: an unlock extends the grant there is.
UnlockExtends(m) ==
    /\ Invoke
    /\ Command("write", m + (IF Open THEN marker.until ELSE now), "nothing")
    /\ UNCHANGED marker

\* unlock: between 1 and MAX_MINUTES minutes from now.
UnlockBegin(m) ==
    /\ Invoke
    /\ Command("write", now + m, "nothing")
    /\ UNCHANGED marker

\* os.replace puts the marker of root, or of the broker user, in place of
\* whatever is there.
UnlockWrite ==
    /\ op.step = "write"
    /\ \E r \in {"root", "broker"} : marker' = [reader |-> r, until |-> op.until]
    /\ Command("hand", op.until, told)
    /\ UNCHANGED commands

\* The operator lacks the permission, or the disk fails: LockError.
UnlockDenied ==
    /\ op.step = "write"
    /\ Command("idle", 0, "failed")
    /\ UNCHANGED <<marker, commands>>

\* _hand_to_broker: the chown may fail, which is ignored.
UnlockHand ==
    /\ op.step = "hand"
    /\ marker' \in {marker, [marker EXCEPT !.reader =
                               IF @ = "root" THEN "broker" ELSE @]}
    /\ Command("confirm", op.until, told)
    /\ UNCHANGED commands

\* Mutant of UnlockConfirm: success is reported on the strength of the write.
UnlockUnasked ==
    /\ op.step = "confirm"
    /\ Command("idle", 0, "unlocked")
    /\ UNCHANGED <<marker, commands>>

\* cmd_unlock asks the daemon, and fails when it does not answer that the vault is
\* unlocked.  When there is no socket to ask at it warns, and then reports success,
\* "confirmed by the daemon", all the same.
UnlockConfirm ==
    /\ op.step = "confirm"
    /\ \E report \in {"unlocked", "failed", "warned"} :
         /\ report = "unlocked" => Open
         /\ Command("idle", 0, report)
    /\ UNCHANGED <<marker, commands>>

\* lock: unlink the marker, if there is one.
Lock ==
    /\ Invoke
    /\ marker' = [reader |-> "nobody", until |-> 0]
    /\ Command("idle", 0, "locked")

\* The operator may not unlink it, or the disk fails: LockError.
LockDenied ==
    /\ Invoke
    /\ Command("idle", 0, "failed")
    /\ UNCHANGED marker

\* The operator's command is interrupted.
Interrupt ==
    /\ op.step # "idle"
    /\ Command("idle", 0, "nothing")
    /\ UNCHANGED <<marker, commands>>

-----------------------------------------------------------------------------
(* The tools.                                                              *)

\* Mutant of Admitted: the tools that write look at store_enabled only.
AdmittedToWrite(t) == IF t = "run" THEN Open ELSE StoreEnabled

\* Two gates for a tool that writes, one for run.
Admitted(t) == Open /\ (t = "run" \/ StoreEnabled)

\* A call of run, of store with a command, or of one of the others (copy,
\* archive, store with source generate), which go to the vault at once.
Begin(c, t, R) ==
    /\ step[c] = "idle" /\ calls < MaxCalls /\ Admitted(t)
    /\ step' = [step EXCEPT ![c] = IF t = "other" THEN "write" ELSE "resolve"]
    /\ tool' = [tool EXCEPT ![c] = t]
    /\ need' = [need EXCEPT ![c] = R]
    /\ calls' = calls + 1
    /\ UNCHANGED <<gateVars, got, out, value, left, stored>>

Refuse(c, t) ==
    /\ step[c] = "idle" /\ calls < MaxCalls /\ ~Admitted(t)
    /\ calls' = calls + 1
    /\ UNCHANGED <<gateVars, callVars, left, stored>>

Goto(c, s) == step' = [step EXCEPT ![c] = s]

\* The call returns, and what it held goes.
Return(c) ==
    /\ Goto(c, "idle")
    /\ tool' = [tool EXCEPT ![c] = "run"]
    /\ need' = [need EXCEPT ![c] = {}]
    /\ got' = [got EXCEPT ![c] = {}]
    /\ out' = [out EXCEPT ![c] = Nothing]
    /\ value' = [value EXCEPT ![c] = {}]
    /\ UNCHANGED <<gateVars, left, calls>>

\* runner.run: the secrets first ...
Resolve(c, r) ==
    /\ step[c] = "resolve" /\ r \in need[c] \ got[c]
    /\ got' = [got EXCEPT ![c] = @ \cup {r}]
    /\ UNCHANGED <<gateVars, step, tool, need, out, value, left, calls, stored>>

\* ... and if one cannot be resolved, or an argument is wrong, or the shell not
\* started, nothing runs.
ResolveFail(c) ==
    /\ step[c] = "resolve"
    /\ Return(c)
    /\ UNCHANGED stored

\* A command may leave what it was given in a file, for all of them have one /tmp
\* (PrivateTmp is the daemon's, not a call's), and print what it finds in those of
\* the commands before it.
Launch(c, o) ==
    /\ step[c] = "resolve" /\ got[c] = need[c]
    /\ o.parts \subseteq got[c] \cup left \cup {Token, Minted} /\ o.pipe \in Pipes
    /\ left' = left \cup got[c]
    /\ out' = [out EXCEPT ![c] = o]
    /\ Goto(c, "run")
    /\ UNCHANGED <<gateVars, tool, need, got, value, calls, stored>>

\* communicate returns when the shell has ended and the pipes are closed.
Finish(c) ==
    /\ step[c] = "run" /\ out[c].end # "late" /\ out[c].pipe = "closed"
    /\ Goto(c, "scrub")
    /\ UNCHANGED <<gateVars, tool, need, got, out, value, left, calls, stored>>

\* Mutant of Timeout: only the shell is killed.
TimeoutShellOnly(c) ==
    /\ step[c] = "run" /\ (out[c].end = "late" \/ out[c].pipe # "closed")
    /\ out' = [out EXCEPT ![c].end = "late"]
    /\ Goto(c, IF out[c].pipe = "closed" THEN "scrub" ELSE "drain")
    /\ UNCHANGED <<gateVars, tool, need, got, value, left, calls, stored>>

\* The command's time is up: its process group is killed, and communicate is
\* called again, without a timeout.  A process in a session of its own is not
\* of that group and may keep the pipes open.
Timeout(c) ==
    /\ step[c] = "run" /\ (out[c].end = "late" \/ out[c].pipe # "closed")
    /\ out' = [out EXCEPT ![c].end = "late"]
    /\ Goto(c, IF out[c].pipe = "session" THEN "drain" ELSE "scrub")
    /\ UNCHANGED <<gateVars, tool, need, got, value, left, calls, stored>>

\* That process ends after all.
Drain(c) ==
    /\ step[c] = "drain"
    /\ Goto(c, "scrub")
    /\ UNCHANGED <<gateVars, tool, need, got, out, value, left, calls, stored>>

\* max_output_bytes: what of an output is left.
Cut(o) == IF o.long THEN SUBSET o.parts ELSE {o.parts}

\* What the Redactor of the call is given: it is made for this call alone.
Targets(c) == got[c] \cup {Token}

\* Redactor.clean replaces every occurrence of a target by a marker.
Clean(c, kept) == kept \ Targets(c)

\* run returns the scrubbed output, of which module Redact says more.
Reply(c) ==
    /\ step[c] = "scrub" /\ tool[c] = "run"
    /\ Return(c)
    /\ UNCHANGED stored

\* Mutant of Storable: the flag `truncated` is not looked at.
StorableCut(c, kept) ==
    /\ out[c].end = "ok"
    /\ kept # {} /\ kept \cap Targets(c) = {}

\* store refuses a failed command, a capped output, no output, and a marker.
Storable(c, kept) ==
    /\ out[c].end = "ok" /\ ~out[c].long
    /\ kept # {} /\ kept \cap Targets(c) = {}

Mint(c) ==
    /\ step[c] = "scrub" /\ tool[c] = "store"
    /\ \E kept \in Cut(out[c]) :
         /\ Storable(c, kept)
         /\ value' = [value EXCEPT ![c] = Clean(c, kept)]
    /\ Goto(c, "write")
    /\ UNCHANGED <<gateVars, tool, need, got, out, left, calls, stored>>

MintRefuse(c) ==
    /\ step[c] = "scrub" /\ tool[c] = "store"
    /\ \E kept \in Cut(out[c]) : ~Storable(c, kept)
    /\ Return(c)
    /\ UNCHANGED stored

\* The backend writes; only its fingerprint is returned.
Write(c) ==
    /\ step[c] = "write"
    /\ stored' = IF tool[c] = "store"
                 THEN stored \cup {[value |-> value[c], output |-> out[c]]}
                 ELSE stored
    /\ Return(c)

WriteFail(c) ==
    /\ step[c] = "write"
    /\ Return(c)
    /\ UNCHANGED stored

-----------------------------------------------------------------------------
Unlock == (\E m \in 1..MaxMinutes : UnlockBegin(m)) \/ UnlockWrite \/ UnlockDenied
            \/ UnlockHand \/ UnlockConfirm

Operator == Unlock \/ Lock \/ LockDenied \/ Interrupt

Start(c) ==
    \E t \in {"run", "store", "other"} :
        Refuse(c, t) \/ \E R \in SUBSET Refs : Begin(c, t, R)

Ask(c) ==
    \/ \E r \in Refs : Resolve(c, r)
    \/ ResolveFail(c)
    \/ \E o \in Outputs : Launch(c, o)

Proceed(c) ==
    \/ Ask(c)
    \/ Finish(c) \/ Timeout(c)
    \/ Reply(c) \/ Mint(c) \/ MintRefuse(c)
    \/ Write(c) \/ WriteFail(c)

Next == Tick \/ Operator \/ \E c \in Callers : Start(c) \/ Proceed(c) \/ Drain(c)

Spec == Init /\ [][Next]_vars

\* A call goes on: the backend's commands and the caller's have timeouts.
\* Nothing is assumed of the operator, nor of processes that escaped.
Fairness == \A c \in Callers : WF_vars(Proceed(c))

FairSpec == Spec /\ Fairness

-----------------------------------------------------------------------------
(* Properties.                                                             *)

\* What the operator was told holds, until the grant expires or the next
\* command: after `lock` the vault is locked, after an `unlock` that the daemon
\* was asked about it is not (cmd_unlock, cmd_lock, _hand_to_broker).
OperatorIsToldTheTruth ==
    op.step = "idle" =>
        /\ told = "locked" => ~Open
        /\ told = "unlocked" => Open \/ marker.until <= now

\* An unlock one forgets about closes itself within MAX_MINUTES, however many
\* unlocks there were and whichever were interrupted.
GrantsAreBounded == Open => marker.until <= now + MaxMinutes

\* From `lock` on, and while nobody unlocks, every call is turned away.
LockedVaultStartsNothing ==
    [][told = "locked" => \A c \in Callers :
          step[c] = "idle" => step'[c] = "idle"]_vars

\* What store wrote is all that a successful command printed: no prefix, no
\* placeholder (_tool_store and the runner's cap and redactor).
StoredIsMinted ==
    \A s \in stored :
        s.value = s.output.parts /\ s.value # {} /\ s.output.end = "ok"

\* Every call returns, whatever its command started, or waits for a process that
\* left the group the timeout kills (_kill_group).
CallsReturnOrDrain ==
    \A c \in Callers : step[c] # "idle" ~>
        step[c] = "idle" \/ (step[c] = "drain" /\ out[c].pipe = "session")

=============================================================================
