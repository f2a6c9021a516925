# sandbroker in TLA+

This directory holds TLA+ modules for sandbroker, a daemon that lets a sandboxed
agent use secrets without seeing them, TLC configurations that check the modules on
small instances, and TLAPS proofs of theorems about them for instances of any size.
Every definition is a translation of code under `src/`. `PROJECT.json` names the lines
each definition stands for, and the hazards the properties are for.

## The system

| component | state it keeps | operations | talks to |
|---|---|---|---|
| bridge client (`bridge.py`, `client_stdio`) | a thread for each message from stdin | look for a heartbeat, submit, poll, give up after 900 s, exit | queue directories |
| queue directories `req/`, `resp/` | `<rid>.json`, `<rid>.json.taken`, replies, heartbeat | created, renamed, unlinked; swept by `/tmp` cleaners | client, relay |
| bridge relay (`bridge.py`, `serve_queues`) | the listing it walks, a thread per claimed message | list, claim by rename, relay over the socket, write the reply | queue, daemon |
| daemon (`server.py`, `mcp.py`) | one thread per connection | dispatch a call, a notification or a batch; the seven tools | relay, backend, gate, alerts |
| session (`server.py`, `bridge_stdio`) | two threads between the agent's pipes and the socket | relay lines up and replies down, shut down one half, exit | agent, daemon |
| unlock gate (`locks.py`, `cli.py`) | a marker file per vault: owner, expiry | `unlock`, `lock`, status | operator, daemon |
| command runner (`runner.py`, `childenv.py`) | resolved values, a child process, its output | resolve, launch, kill, cap, scrub | backend, redaction |
| redaction (`redact.py`) | the values of one call and their forms | exact pass over values, base64 runs and encodings; heuristic pass | runner |
| 1Password backend (`onepassword.py`) | none; the vault is outside | read, write, copy, archive, listings, each some `op` commands | `op` |
| Keeper backend (`keeper.py`) | the strings of its login, read once | read, listings, each two `keeper` commands | `keeper` |
| leak alerts (`alert.py`) | a JSON file per alert and its temporary file | raise, sweep, acknowledge | daemon, timer, human |
| leak-alarm hook (`plugin-leak-alarm/`) | a file of findings per session, alert files | scan, filter, record, notify | the agent's tool calls |
| configuration, installer, units | static | parse, print, install; restart policy, timer | all |

What is hard here, by component, and what makes the component correct:

- *Bridge.* The client, relays, daemon handlers, cleaners and `systemd` run concurrently
  and share files; any of them may stop between two steps; deadlines race with late
  answers. A message must be executed at most once, a result must belong to an
  execution of its message, a reply must not change under the thread that reads it,
  every call must be answered, and nothing may be left in the queue for good.
- *1Password backend.* `write`, `copy` and `archive` are sequences of `op` commands that
  interleave with those of other connections and may time out, with or without effect.
  `write` must add and never replace; what was acknowledged must stay; `archive` must
  retire nothing it has not found elsewhere.
- *Leak alerts.* Three programs rewrite one file by way of one temporary name, without a
  lock. A record must stay readable, an acknowledgement final, an open alert must ring.
- *Gate and runner.* The marker is put in place and handed over in two steps; the lock
  is read once, at the beginning of a call that may last minutes; a command may outlive
  its timeout. Reports must be true, grants bounded, a locked vault must start nothing,
  results must be free of resolved values, and what is stored must be what was minted.
- *Redaction.* Values contain and overlap one another, and each replacement changes the text
  the next one works on. Nothing of a value may be left, and nothing else may go.
- *Keeper backend.* A read is two commands, the second of which reaches the whole account;
  the strings to scrub are read once, by whichever threads come first, while Commander
  rewrites them. A read must stay in the shared folder, an ambiguous name must be refused,
  and neither a value nor a login string may be shown.
- *Leak alarm.* Hooks of one session run in parallel and share a file and its temporary
  name, without a lock, and may be killed. A finding must be reported by somebody, an
  alert must be listed with its outcome until a human clears it.
- *Session.* Four parties write into bounded pipes to each other, and any may go away.
  Replies must come in order, and a session that the agent ends must be answered to the
  last line, with nobody left waiting for another.

## Modules

| module | models | its checks | its proofs |
|---|---|---|---|
| `Rpc` | what a relay promises of a call: at most one execution, at most one answer | refined by `Bridge` | |
| `Bridge` | client, queue, relays, daemon handlers, crashes, cleaners, deadlines | `MCBridge` | `BridgeProofs` |
| `VaultSpec` | a vault whose items are made, added to and retired, one at a time | refined by `OnePassword` | |
| `OnePassword` | store, copy and archive as sequences of `op` commands | `MCOnePassword` | `OnePasswordProofs` |
| `Alerts` | report, sweep, acknowledge over one record and its temporary file | `MCAlerts` | `AlertsProofs` |
| `Gate` | the operator's `unlock` and `lock`, the gates of the tools, the runner, the result | `MCGate` | `GateProofs` |
| `LeakAlarm` | the hooks of one session, their file of findings, their alerts, `leak-alarm clear` | `MCLeakAlarm` | `LeakAlarmProofs` |
| `Keeper` | read through Commander, and the scrubbing of its login strings | `MCKeeper` | `KeeperProofs` |
| `Server` | a session: agent, `bridge_stdio`, the daemon's thread, dispatch | `MCServer` | `ServerProofs` |
| `Redact` | the exact pass: values, runs of base64, forms | `MCRedact` | `RedactProofs` |

Definitions whose comment begins with "Mutant" are not part of a specification: they are
the plausible mistakes that show a property to be sensitive to the code (`mutants` in
`PROJECT.json`).

### Bridge

A request is a message of the client's session; its kind is a call, a notification, a
batch, or a batch of notifications. `thread`, `reqFile`, `worker`, `call`, `respFile` and
`answer` are the places where it, its execution and its reply can be. `ClientProcess` and
`ClientStep` are `client_stdio` and its `relay` threads, `LoopStep` is the loop of
`serve_queues` (`RelayStart`, `List`, `Rebuild`, `Claim`, `ClaimFail`), `WorkerStep` is
`handle` with `_to_socket`, `DaemonStep` the handler of a connection. `RelayCrash` and
`DaemonCrash` kill a process between any two steps and lose its threads; `Clean` removes a
queue directory with what it holds; `BeatExpires` lets the heartbeat get old. Time is not
modelled: with `Deadlines`, a 900-second timeout may expire whenever the code is waiting.

The refinement mapping to `Rpc` takes a request as sent when its thread has started, and
counts the executions the daemon began; every step of the bridge is a step of `Rpc` or
leaves its variables alone.

### OnePassword

`vault` is what 1Password holds; it is external and modelled from how the code uses it.
`pc[p]` is the `op` command that the call of thread `p` invokes next, `snap[p]` the item
its last `op item get` returned. Items have fields in sequence, so that two fields may
have one name, as 1Password allows; a field has a label and an id, either of which names
it (`Named`), and archive's dictionary takes the label, or the id where that is empty
(`Key`). A command that fails may have had its effect (`WriteFail`, `DeleteFail`), and a
failed `item get` is what the code makes of it: for `write`, an item that does not exist.
A value stands for its own fingerprint.

Calls of several threads interleave. A call is *overtaken* when another changes, between
its commands, what `op` shows under one of the names it was called with. `overtaken` and
`raced`, which says that such a call has edited or archived an item, are there for the
properties; no step of the program looks at them. The code has no lock and no version check
that would keep such a call from its edit or its archiving, and what it then does is
`vault_race` and the section on divergences. The properties that hold speak of everything
before that: of calls on other items, which interleave without limit, and of overtaken calls
that only read, are refused, or create.

The refinement mapping to `VaultSpec` forgets titles, the order of fields and the fields
left empty, and maps `raced` to `broken`. Each call changes the vault at one point, its
`Create`, `Edit` or `Delete`, and what it is told of comes with that point or not at all.

### Alerts

A record is absent, just truncated, unparseable, open or acknowledged; `fd` tells what
file a program's open descriptor refers to by now, after others have renamed it: the
temporary file, the live record, or a file that is gone. `_write` is `Open` (truncate),
`Flush` (write and close) and `Replace` (rename); `Kill` ends a program at any of them.
`raced` has the alerts that were acknowledged while a sweep was running; `AcksAreFinal` and
`RecordsStay` leave those out, and `AcknowledgedIsSilent`, of every acknowledgement, is
violated (`alerts_race`).

### Gate

`marker` is who can read the marker and until when it holds; `op` is the step the
operator's command is at, `told` its last report. `UnlockWrite`, `UnlockHand` and
`UnlockConfirm` are the rename, the change of owner and the question to the daemon, each
of which may fail, and between which the command may be interrupted. Without a socket there
is nobody to ask, and `unlock` warns and reports success: this is the report `warned`. A
call goes from the gates (`Begin`, `Refuse`) through `Resolve` and `Launch` to `Finish`,
`Timeout` or `Drain`, then to `Reply` for run, or `Mint` and `Write` for store. `copy`,
`archive` and `store` with source `generate` have no command and go to `Write` at once.

An output is the set of values it contains, a flag for being longer than
`max_output_bytes`, how the shell ended, and who may still hold the pipes. All commands
share the daemon's private `/tmp`; `left` has the values that commands were given and may
have left there, any of which a later command may print, although the redactor of its call
does not know them. Capping keeps any subset of the values: a value the cap cuts in two
counts as cut away. `Cut` and `Clean` are what an output goes through before it is stored or
returned; what a returned output looks like after redaction is the subject of `Redact`.

### LeakAlarm

A finding is its fingerprint. `StartPre` and `StartPost` are the hook before and after a
tool call; only the second looks at the session's file (`Read`). `Open`, `Flush` and
`Replace` are the three steps by which `already_seen` rewrites it, as in `Alerts`, with a
temporary name that all hooks share: `fd` tells what a hook's open file is called by now.
`RecordOpen` and `RecordClose` are `record`, which runs before the notification (`Notify`)
and after it. `SaveFail`, `RecordFail` and `Kill` are the faults. `ClearLoad`, which
reads one alert's file after the other, and `ClearRemove` are `leak-alarm clear`. `past` is what the session reported before.

### Keeper

A call is `run` with one secret (`Call`) or with none (`CallPlain`). `List` is `keeper ls` with
the resolution of the name among the rows of the folder; a row is a record and a place, as
a recursive listing returns a record once for each folder it is in. `Get` is `keeper get` with
the search for the field. People move, rename and rewrite records in between; the operator
logs Commander in (`LogIn`), and `Rotate` is Commander writing a new clone code into its
configuration as it runs. Login strings are numbered by age, 0 being the password.

`AuthRead`, `AuthKeep`, `AuthAnswer`, `TokenAnswer` and `AuthUnread` are `auth_secrets` and
`service_account_token` over the attribute `_auth`, which threads read and set without a
lock. `auth` is that attribute: a configuration without login strings (`code` 0) leaves the
empty set there, which is never read again, and for which `auth_secrets` answers with
nothing; a configuration that does not open or parse leaves it as it is. `targets` is the
dictionary of what is scrubbed, updated label by label as `dict.update` does. `named` says
that `auth_secrets` answered with login strings. `within` is the set of records that were in
the folder since the call began, `firstCode` the clone code at the first reading of the
configuration that found any, and `blank` says that one found none.

### Server

A line is what the agent writes: a sequence of parts, as a line over `MAX_LINE` reaches
the daemon in several; a part is a message, a batch of messages, or blank. The k-th message
of the n-th part has the id `<<n, k>>`, so that a reply tells what it answers. `Pump*` is
the thread `pump_up`, `Connect`, `Recv`, `WriteStdout` and `Exit` are the main thread of
`bridge_stdio`, `Handler*` is `_SocketHandler.handle` with `_dispatch_line` (`Dispatch`) and what
`Server.handle` makes of a message (`Silent`, `Raises`, `ReplyId`). `call` is the part the daemon's thread has taken: `HandlerRead` takes it, and
`HandlerDispatch` executes it, between which a call of `run` or `store` may be stuck for as
long as a process outside the killed group holds its pipes (`runner.py:176`; `Unstick`). Every
pipe and socket buffer holds `Room` lines. A death of the agent, of the daemon, or its absence is a fault.
`Received` is what the agent has read or can read, `OnTheWay` what is between the daemon and
its pipe, and `Replies(n)` what it is owed for its first n parts.

### Redact

An output is a sequence of symbols: characters in the clear, groups of base64 that each
encode up to `Group` characters, and junk, which is text of the base64 alphabet that puts a
decoder out of step. Characters of `RunChars` are letters that base64 is written with, as
most characters of credentials are: in the clear they belong to a run, and put it out of
step; a value made of them may be spelled within a run, and its replacement breaks the run
before the runs are looked for. `text` keeps of each symbol where in the output it was, so
that the properties can tell what went.

`ReplaceNext` is one `str.replace`; the three passes are the values (`scrub_bytes`), the runs
found in the text as it then is (`_scrub_b64_wrappers`), and all forms, the longest first
(`scrub`). `Runs` cuts each maximal stretch of the base64 alphabet as the regular expression
does, `Looked` are those within the budget, `Holders` those of them that decode to a secret.
`data` is the text the second pass is given, and `Found` are its holders. `_B64_MIN` is one
group; base64 stands for the other encodings, each of which is one more form. A mark stands
for a placeholder, and is taken to match nothing: a value that is a part of a placeholder,
and the name of a variable that is long enough to be looked at as a run, and costs budget,
are left out.

## Runs

Passing runs:

| run | question | bounds |
|---|---|---|
| `bridge_safety` | at most once, answered calls, stable responses, refinement of `Rpc` | 2 requests, 2 relays, calls and notifications, deadlines, one crash each of a relay and of the daemon |
| `bridge_cleaner` | no orphaned files, calls succeed when nothing strikes | 2 requests of all 4 kinds, 2 relays, one cleaning, no deadlines |
| `vault_calls` | nothing lost or wrongly retired by calls that were not overtaken, refinement of `VaultSpec` | 3 items, 2 titles, 2 labels, 2 values, 2 callers, 3 calls, any `op` command may fail |
| `alerts` | readable records, final acknowledgements, alerts that ring | 2 alerts, one kill, two acknowledgements, everything overlapping |
| `gate` | true reports, bounded grants, closed gates, whole credentials stored, calls that return or wait for an escaped process | one call at a time, one reference, 2 calls, 2 operator commands, grants of 1 or 2 minutes, of which a clock of 0 and 1 lets the first expire |
| `leak_alarm` | findings that ring, no silenced finding, no second page, alerts that stay listed with their outcome | 2 hooks, before or after their tool call, 2 findings, one kill or failed file operation, clear at any time |
| `keeper` | reads within the folder, unambiguous names, login strings scrubbed | 2 calls, with a secret or without, 2 records, 2 places, 2 titles that differ in case only, 2 contents, one edit, one rotation, a login before or during the run, configuration unreadable at times |
| `server` | replies in order, complete ends, no waiting for ever | 3 parts out of 7 kinds of line, pipes that hold one line, calls that may be stuck, one death |
| `redact` | nothing of a value is left, nothing else goes | every output of 4 symbols out of 6, longer ones cut to that, every pair of 5 values, one of the two characters a letter of base64, runs of 2 symbols, the first 2 runs |

Runs that show where the code does not do what its comments say:

| run | property violated | what happens |
|---|---|---|
| `vault_race` | `CreateOrAddOnly` | Two stores to one item, in the shortest trace both to the same free field, fetch the same template; the second edit writes it back without the first value. |
| `alerts_race` | `AcknowledgedIsSilent` | A sweep has read an open alert when a human acknowledges it; the sweep writes its record back, and the alert, reported as acknowledged, is open and rings again. |
| `redact_wrappers` | `NoWrappedSecretIsLeft` | Two runs of base64 hold a secret, and the first is also the beginning of the second. The first is replaced wherever it occurs, in the second too, which is then not found; its rest, still base64 of the secret, is returned. |

`TypeOK` of `Server` and of `Redact` is also an invariant of their runs; of every module it is
proved.

*Why the bounds are enough.* Bridge: two relays and two requests give every race for one
file and for one listing; requests share nothing but the listing, the directories and the
processes, and the safety properties are proved for any number. OnePassword: two calls race
for each step of each other, and a third uses what they left; the two initial vaults have
built-in fields that are named by id, fields left empty, two items with a common value, and
an attachment. Alerts: one kill suffices for a leftover temporary file, two alerts for a
sweep that is disturbed at one while it has another to push. Gate: calls share only the
gate, the broker's files and what they add to `stored`, so that one thread with two calls
meets every state of the gate; with two commands the operator replaces, extends, revokes or
leaves behind a grant. LeakAlarm: two hooks race for each step of the temporary file, and
two findings let one file hold more than the other. Keeper: two calls race for `_auth`, one
edit in between moves or renames a record, and a login in between makes the one read before
it and the other after; a uid is also tried as a name, inside the folder and outside, and
two places let one record have two rows. Server: three parts fill the pipe, the socket and
the handler, so that each party waits for each other one. Redact: four symbols hold two runs
side by side, in either order, with a value before, between, after or within them, and a
stretch longer than `MaxRun`; the values of two characters contain and overlap those of one,
and each other. The proofs cover any number of everything.

*Deadlocks* are checked in `Bridge`, `Alerts` and `Keeper`, which go on for ever. `OnePassword` and
`Gate` stop when the bound on calls and commands is reached, `LeakAlarm` when every hook has
ended, `Server` when the session has, and `Redact` when the text is clean; that nobody waits
for ever before that is `CallsReturnOrDrain`, `FindingsRing`, `LinesAreTaken` and `SessionEnds`.

*Fairness.* Bridge: threads are scheduled, the loop and the daemon run again after a crash
(`Restart=always` in the unit files), a client thread that waits sees a reply or its
deadline. The daemon's handler of a connection ends; for a call that a process outside the
killed group keeps (`runner.py:176`) this is an assumption, and without it that one call ends
by the deadlines of the relay and of the client. Nothing is assumed of stdin, crashes or
cleaners. Alerts: the timer starts
sweeps again and again (`sandbroker-sweep.timer`), a running program goes on, time passes;
nobody need report or acknowledge. Gate: a call goes on, for `op` commands and the
caller's command have timeouts; nothing is assumed of the operator, nor of a process that
escaped from the killed group. LeakAlarm: a hook that runs goes on, for its notifier has a
timeout; nobody is bound to call a tool or to clear. Server: the threads run, and an agent
reads what it is sent; it need not write nor close stdin. A call that is stuck need not come
back: `Unstick` has no fairness, and `LinesAreTaken` and `SessionEnds` name this case. Keeper and Redact have no liveness
property.

## Theorems

Proved with TLAPS for all values of the constants:

- `BridgeProofs`. `OneFlow` is the inductive invariant: a message and its reply are in one
  place at a time, a request has at most one worker, a connection belongs to a worker that
  has sent, the number of executions is that of the connections that began one, and a
  response file comes from a worker that has ended. At-most-once alone is not inductive: a
  second claim must be excluded, which takes the sole worker, and a second answer, which
  takes the one response. From it follow `AtMostOnce`, `ResultsAreEarned`,
  `ResponsesAreStable` and `RefinesRpc`; only the constants' types are assumed.
  `CallsAreAnswered` is about the time before the daemon dies and a cleaner strikes: until
  then a call is never taken for one without a reply (`Answerable`, `DaemonAlive`), and its
  directory is there when it is submitted (`Queued`), whatever relays and deadlines do.
  `FilesHaveOwners` needs relays that stay up and no deadlines (`Polled`), which the theorem
  states as assumptions on `MaxFaults` and `Deadlines`.
- `OnePasswordProofs`. `ApartInv` is inductive for any number of callers: until an overtaken
  call edits or archives an item, no name of a field is that of two values, an archived
  item's values are on active ones, acknowledged values survive (`Kept`), and what a call
  that was not overtaken has fetched still holds (`Known`, `SnapshotHolds`). The promises
  alone are not inductive: an edit keeps what it was given in the template. It gives
  `ArchiveKeepsValues`, `AcknowledgedValuesSurvive`, `OneValuePerField` and `CreateOrAddApart`,
  whichever `op` commands fail, and every step is one of `VaultSpec` or leaves its variables
  alone, which is `ImplementsVault`. Assumed is `TidyVaults`, that no item begins with two
  values under a name, nor archived; what is claimed stops at the edit of an overtaken
  call, and `vault_race` and the section on divergences show that it must.
- `GateProofs`. `Report` is inductive: while an operator's command is under way nothing is
  reported, and a report agrees with the marker. It gives `OperatorIsToldTheTruth` and
  `LockedVaultStartsNothing`. `Near`, on the marker and the grant being written, gives
  `GrantsAreBounded`: the grant in the marker is not enough, as one on its way might be
  longer. `Results`, that what store is
  about to write is all that its successful command printed, gives `StoredIsMinted`.
- `AlertsProofs`. `AlertInv` says, alert by alert, who may be working on it (`Recorded`, `Swept`)
  and, as long as no acknowledgement overlapped a sweep, that a program which writes has
  the temporary file to itself (`Calm`, `Owns`). The invariant must speak of the temporary
  file, since a leftover of a killed program is what the next one might publish. It gives
  `AcksAreFinal` and `RecordsStay`, both of the alerts that are not in `raced`: `alerts_race`
  shows what becomes of those that are.
- `LeakAlarmProofs`. `CopiesCovered` extends `SeenIsReported` to every copy that may become the
  session's file: the file, the temporary file, and what a hook is about to write; a hook may
  publish another's text, so that nothing less is inductive. `Ordered` ties an alert's file to
  its hook's stage and gives `TraceIsLeft`, `DeliveryIsRecorded` and `AlertsStay`. `Once` gives
  `PagesOnce`: while the hooks run one after the other, what a hook that is past its save
  reported is in the session's file, and the one that is saving has the temporary file to
  itself and writes what the file holds and what it reports.
- `KeeperProofs`. `FolderSeen` (a call has seen every record that is in the folder) gives
  `ReadsStayInFolder`. `LoginsHeld` says that, unless a thread has read the configuration
  before it had any login strings, what the daemon keeps, what a thread has read and what it
  will scrub are the password and a clone code no older than the first one read, under
  labels of their own: a thread that stores late may replace a newer reading by an older
  one, so that "the newest" would not be inductive. It gives `LoginsAreScrubbed`.
  `ResolvesBest` says what the resolution of a name returns, and `NamesAreUnambiguous` needs no
  invariant beyond the types.
- `ServerProofs`. `Delivered` is the heart of the invariant: what the daemon's thread has
  answered so far is what the agent has received, what is on its way, and a rest that was
  lost, which is empty while nothing has died. `Flow` says that, while the daemon listens,
  what the agent wrote is what the daemon has taken followed by what is on the way to it;
  `Phases` how far the three threads can be, given each other and the deaths so far;
  `Complete` that the daemon's thread stops only when it has taken everything. The replies
  are compared as one sequence (`Owes`), which grows by the answer to one part at a time, so
  that each step moves the boundary between two of its pieces. It gives `RepliesInOrder`
  and `EndIsComplete`.
- `RedactProofs`. `ReplaceSays` is the lemma the rest hangs on: what `str.replace` does to a
  text that is woven from the output (`Woven`: symbols of the output in its order, and a
  mark wherever neighbours are not neighbours any more). What it removes was in an
  occurrence that it removes whole, and of every whole occurrence it removes something,
  also when occurrences overlap. An occurrence in the text is one in the output
  (`OccursAtPlace`), since no needle has a mark in it: a replacement joins nothing into a
  new secret. So a form, once replaced, is never whole again (`FormsGo`), which gives
  `NoSecretIsLeft`. That a value goes whole needs the order of the needles
  (`LongestFirst`) and that its place is whole until its turn (`ValuesGo`). The runs are
  looked for in the text that the values have left, which may have broken them or made new
  ones; each run found there stands in a row of the output (`RunStands`), since a mark is
  in no run, and is whole until its turn unless another run is spelled across it (`RunsGo`,
  `RunsBreak`), which gives `FoundRunsGo`. `SecretsOnly` gives `OnlySecretsGo`. `Sorted` is shown to list a finite set in its order (`RankOrders`).

`TypeOK` of all these modules is proved as well. `tlapm` has no induction over sequences, but
over Nat it can be had without an operator argument: a set with 0 and every successor is
Nat (`NatSet`, in `ServerProofs` and `RedactProofs`), and what a recursive function or a length
says is shown of the set of numbers at which it holds.

The constants are assumed to be of their types. Beyond that, `Tokens` of `LeakAlarm` is
finite, as the findings in one text are, markers such as `None`, `Token` and `Minted` are no
values, the labels under which the Keeper backend hands over its strings differ, and
`RunChars` of `Redact` is any subset of the characters. The one theorem of `BridgeProofs` that
holds under some faults only, and those of `OnePasswordProofs` about vaults that begin tidy,
say so.

Only model-checked: everything about liveness (`CallsSucceed`, `OpenAlertsRing`,
`CallsReturnOrDrain`, `FindingsRing`, `LinesAreTaken`, `SessionEnds`), for which the prover
lacks ENABLED and fairness. Every safety property of a passing run is proved.

## Further divergences met while modelling

These have no run of their own. Each follows from the modelled code as described.

- `bridge.py:243`: the relay takes the end of the stream for the silence that a notification
  gets, also when the message expected a reply. A call whose daemon dies while it executes
  is never answered, and the client waits on; `bridge.py:187` says that "Timing out silently
  would hang the client forever". This is why `CallsAreAnswered` stops at the daemon's death.
- `bridge.py:187-196`: at the deadline the client's thread prints an error for whatever it
  sent, with id null for a notification, of which a relay that died or a cleaner that took
  its file left no sentinel. `bridge.py:273`: when the socket fails the worker writes an
  error whatever it relayed. Either way a notification is answered; `bridge.py:82-84` says
  it must not be. That notifications are silent is true only without deadlines and with a
  daemon that stays up, neither of which the code has, so that it is no property here.
- `bridge.py:179`: the daemon answers a batch with a list; `reply.get` ends the client's
  thread, and the batch is never answered, the "silent hang" `server.py:40` wants to avoid.
  `IsObject` models it.
- `bridge.py:296`: the relay rebuilds its directories when `req/` cannot be listed. When a
  cleaner takes `resp/` alone, every later reply is logged and dropped (`bridge.py:299`
  says "Rebuild and carry on").
- `onepassword.py:217`: a failure of `op item get`, a timeout included, is "no such item"
  (`onepassword.py:212`) to `write`, which creates a second item of that title, after which
  the title is ambiguous.
- `onepassword.py:389`: archive deletes what it compared some commands ago. With two callers
  `RetiredValuesSurvive` fails: a value stored on the item in between, or two archives that
  name each other's item; `onepassword.py:329-330` says "this cannot retire anything it has not
  first shown to be redundant". `ArchiveKeepsValues` stops at such a call.
- `onepassword.py:318`: the dictionary of populated values keeps the last of two fields with
  one label; the other is archived without a counterpart, also with one caller. `TidyVaults`
  excludes it.
- `cli.py:189-194`: without a socket `unlock` warns that the grant could not be confirmed, and
  then prints that it was "confirmed by the daemon", and exits 0, also when the marker's owner
  could not be changed and the daemon will find the vault locked; `cli.py:157` says "Unlock,
  then CONFIRM WITH THE DAEMON that it actually took." `Gate` calls this report `warned`.
- `locks.py:151`: `lock` on a vault that needs no unlock reports that it is locked.
- `alert.py:247`: a sweep and an acknowledgement share a temporary file, so that the rename of
  one publishes the text of the other, or a file that is just truncated, and the rename of
  the other fails: an alert may become unreadable, and is not swept any more.
- `mcp.py:462`: the lock is looked at once. A store runs its command, for up to its timeout,
  and resolves and writes on a vault that was locked meanwhile; `README.md:82-83` says of
  writing that it needs the unlock "at the moment of use".
- `runner.py:176`: a process that made a session of its own is not in the killed group, keeps
  the pipes open, and the call with them; `runner.py:160-161` says "a timeout kills the whole
  tree". `CallsReturnOrDrain` names this case.
- `runner.py:141`: the backend's login strings go into one dictionary with the caller's
  values, and names such as `KEEPER_PASSWORD` are not reserved as `OP_SERVICE_ACCOUNT_TOKEN`
  is: a caller's variable of that name is not scrubbed. `targets` of `Keeper` models it.
- `runner.py:149`: every call makes a redactor of the values it resolved itself, while all
  commands share one `/tmp`: what one left there another prints as it is; `redact.py:9-10` says
  "Any byte sequence this process resolved from the vault". `left` of `Gate` models it.
- `runner.py:184`: the cap may cut a value in two, and what is left of it is shown.
- `keeper.py:237`: a configuration without login strings is kept as the empty list before it
  raises, so that it is never read again: a daemon that is asked before Commander is logged
  in scrubs no login string for the rest of its life; `keeper.py:261` says "Every login string
  in the config". `LoginsAreScrubbed` excludes it (`blank`).
- `keeper.py:227`: login strings that Commander writes after the first reading are not
  scrubbed either. `LoginsAreScrubbed` names this case. While the configuration cannot be
  read for `auth_secrets`, but can for `service_account_token`, one string of several is
  scrubbed.
- `mcp.py:625`: `list_fields` calls `describe` of the backend, and store, copy and archive call
  `write`, `copy` and `archive`, none of which the Keeper backend has: an "internal error".
- `leak_alarm.py:195`: "findings this session has already reported" are in fact marked before
  they are reported. A hook killed between the two leaves a finding that no later hook
  reports. `FindingsRing` names this case.
- `leak_alarm.py:310`: the second `record` truncates the file of the first; a hook killed there
  leaves an alert that `leak-alarm alerts` skips, although line 303 says "still leaves a
  trace". The second `record` also brings back an alert that was cleared during the
  notification.
- `bin/leak-alarm:70`: `clear` removes what it loaded itself, which need not be what `alerts`
  showed before.
- `mcp.py:336`: a method without an id is answered with id null if the daemon knows it;
  `mcp.py:325` says "JSON-RPC forbids replying to one". A method that is no string has no
  `startswith`, outside of the `try`: the connection is closed, and of a batch the replies to
  the messages before it are lost, although they were executed. `Server` models both
  (`Silent`, `Raises`).
- `server.py:61`: a line over `MAX_LINE` is split, and each part answered with an error.
- `redact.py:177`: text of the base64 alphabet directly before a run, such as `name=`, puts the
  decoder out of step, and a run over `_B64_MAX` is cut in two: in neither is a secret found.
  `Junk` and `MaxRun` model them; `NoWrappedSecretIsLeft` is about runs that decode.

## Plan

Done: every module above with its runs and theorems, in the order of what matters most: the
delivery of calls, the safety of the vault's contents, the alarm, the gate, then the leak
alarm, the Keeper backend, the session and the redaction. Every safety property that a run
passes is proved.

What could follow, in this order:

1. `Broker`: composition of `Gate` with `VaultSpec`, so that what store writes takes place
   under the gate; now that the calls are shown to implement `VaultSpec` it need not repeat
   the `op` commands.
2. The other encodings in `Redact`, where one form of a value may be a part of another's; the
   lemmas about `Replace` do not depend on what the needles are.
3. `Keeper` with several secrets in a call, and with the listings.
4. Calls that are stuck (`runner.py:176`) in `Bridge`, as they are in `Server`.
5. The HTTP transport: requests on one connection, whose body is not read after an error
   (`server.py:138`), so that its bytes are taken for the next request.

## Not modelled, and why

- `list_items`, `list_fields`, `describe`, `doctor` and the other listings: they change
  nothing.
- The HTTP transport of `server.py`, and the start and stop of the listeners (`run_forever`):
  wrappers around the dispatch that `Server` models.
- Parsing of references, of configuration, of arguments and of Commander's output: pure
  checks; a wrong one is the failure of a call before it does anything.
- The encodings of `redact.py` other than base64, and the patterns of the heuristic pass and
  of the leak alarm: library functions and regular expressions; the heuristic pass only takes
  more away, and `LeakAlarm` takes findings as given.
- The environment builder `childenv.py`, the installer, the unit files and the notifier
  script: static, or plain I/O.
