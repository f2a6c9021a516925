------------------------------- MODULE Keeper -------------------------------
(***************************************************************************)
(* The Keeper backend, sandbroker/keeper.py, as the tool `run` uses it      *)
(* (sandbroker/runner.py).  A call names a record by uid or title; the      *)
(* backend lists the shared folder with one command, resolves the name,     *)
(* fetches the record with a second command, takes one field from it, and   *)
(* the runner scrubs the output of the agent's command of that value and of *)
(* the login strings in Commander's configuration.                          *)
(*                                                                         *)
(* Each connection of the daemon has a thread, so calls interleave; between *)
(* any two steps people move, rename and fill in records, and Commander     *)
(* rotates a login string and writes its configuration back (README.md).    *)
(***************************************************************************)
EXTENDS Naturals, Sequences, FiniteSets

CONSTANTS
    Callers,      \* connections, each served by a thread of the daemon
    Uids,         \* the records of the account
    Places,       \* the shared folder and its subfolders
    Titles,       \* what people call records
    Lower,        \* the lower-case form of each title
    Fields,       \* names of fields
    Values,       \* what fields hold
    None,         \* ... or do not
    Records,      \* the contents that records may have
    Labels,       \* names of environment variables that callers may choose
    AuthLabel,    \* the one under which the backend hands over its password,
    CodeLabel,    \* ... its clone code,
    TokenLabel,   \* ... and the one for backends with a single token
    ReadsFail,    \* may the configuration be unreadable at times?
    MaxEdits,     \* bound on what people change
    MaxRotations  \* bound on the rotations of the login string

Entry == [name : Fields, value : Values \cup {None}]

ASSUME LowerAssumption   == Lower \in [Titles -> Titles]
ASSUME RecordsAssumption ==
    Records \subseteq
        [typed : Seq(Entry), flat : Seq(Entry), custom : Seq(Entry)]
ASSUME NoneAssumption    == None \notin Values \cup Uids
ASSUME ValuesAssumption  == Values \cap Nat = {}
ASSUME LabelsAssumption  ==
    AuthLabel # CodeLabel /\ TokenLabel \notin {AuthLabel, CodeLabel}
ASSUME ReadsAssumption   == ReadsFail \in BOOLEAN
ASSUME BoundsAssumption  == MaxEdits \in Nat /\ MaxRotations \in Nat

Items == Uids \cup Titles

\* Login strings are numbered: 0 is the password, which stays, n the n-th clone
\* code.
Password == 0
Logins   == Nat
Strings  == Values \cup Logins

VARIABLES
    folder,     \* the rows of the shared folder: a record, and a place it is in
    title,      \* what each record is called
    content,    \* what each record holds
    code,       \* the clone code in Commander's configuration, 0 before a login
    edits,      \* changes made so far
    auth,       \* login strings the daemon keeps (_auth), None before it read
    step,       \* what each call does next
    args,       \* what it was called with and still needs
    uid,        \* the record it resolved the name to, and is to fetch
    value,      \* the value it read, which is in the environment of its command
    pending,    \* login strings it read and has not stored yet
    named,      \* did auth_secrets answer with login strings?
    targets,    \* what it will scrub, under a label each (scrub_targets)
    within,     \* records that were in the folder since it began
    firstCode,  \* the clone code when the configuration was first read
    blank,      \* has the configuration been read before it had any?
    shown       \* what is in the output that the agent will see

accountVars == <<folder, title, content, edits>>
callVars    == <<args, uid, value, pending, named, targets>>
readVars    == <<firstCode, blank>>
vars == <<accountVars, code, auth, step, callVars, within, readVars, shown>>

Steps ==
    {"idle", "ls", "get", "auth", "keep", "token", "keepToken", "run", "done"}
NoArgs == [item |-> None, field |-> None, label |-> None]
Args   ==
    [item : Items \cup {None}, field : Fields \cup {None}, label : Labels]
AllLabels == Labels \cup {AuthLabel, CodeLabel, TokenLabel}

TypeOK ==
    /\ folder \subseteq Uids \X Places
    /\ title \in [Uids -> Titles]
    /\ content \in [Uids -> Records]
    /\ code \in Nat /\ edits \in Nat
    /\ auth \in {None} \cup SUBSET Logins
    /\ step \in [Callers -> Steps]
    /\ args \in [Callers -> Args \cup {NoArgs}]
    /\ uid \in [Callers -> Uids \cup {None}]
    /\ value \in [Callers -> Values \cup {None}]
    /\ pending \in [Callers -> SUBSET Logins]
    /\ named \in [Callers -> BOOLEAN]
    /\ targets \in [Callers -> SUBSET (AllLabels \X Strings)]
    /\ within \in [Callers -> SUBSET Uids]
    /\ firstCode \in Nat /\ blank \in BOOLEAN
    /\ shown \in [Callers -> SUBSET Strings]

Init ==
    /\ folder \in SUBSET (Uids \X Places)
    /\ title \in [Uids -> Titles]
    /\ content \in [Uids -> Records]
    /\ code \in {0, 1} /\ edits = 0
    /\ auth = None
    /\ step = [c \in Callers |-> "idle"]
    /\ args = [c \in Callers |-> NoArgs]
    /\ uid = [c \in Callers |-> None]
    /\ value = [c \in Callers |-> None]
    /\ pending = [c \in Callers |-> {}]
    /\ named = [c \in Callers |-> FALSE]
    /\ targets = [c \in Callers |-> {}]
    /\ within = [c \in Callers |-> {}]
    /\ firstCode = 0 /\ blank = FALSE
    /\ shown = [c \in Callers |-> {}]

-----------------------------------------------------------------------------
(* What a record says.                                                     *)

\* _walk_fields: typed fields, then the flat keys, then the custom fields.
Walk(r) == r.typed \o r.flat \o r.custom

Filled(r, f) ==
    {i \in DOMAIN Walk(r) : Walk(r)[i].name = f /\ Walk(r)[i].value # None}

First(is) == {i \in is : \A j \in is : i <= j}

\* read: the first entry of that name that has a value.
ReadField(r, f) ==
    LET first == First(Filled(r, f)) IN
    IF first = {} THEN None ELSE Walk(r)[CHOOSE i \in first : TRUE].value

\* _resolve_uid: rows of the folder that fit a name, by uid, else by title, else
\* by title in any case.
Listed(u) == \E row \in folder : row[1] = u

\* Mutant of IsListed: get is left to refuse a uid, and it does not.
IsAnywhere(u) == u \in Uids

IsListed(u) == Listed(u)

\* Mutant of ByTitle: titles are compared in any case at once.
ByTitleLower(item) ==
    {row \in folder : item \in Titles /\ Lower[title[row[1]]] = Lower[item]}

ByTitle(item) == {row \in folder : title[row[1]] = item}

ByLowerTitle(item) ==
    {row \in folder : item \in Titles /\ Lower[title[row[1]]] = Lower[item]}

Titled(item) ==
    IF ByTitle(item) # {} THEN ByTitle(item) ELSE ByLowerTitle(item)

\* A uid is taken as it is found, a title only if one row has it: a record that
\* the recursive listing returns twice has to be named by its uid.
Resolves(item, u) ==
    \/ item \in Uids /\ IsListed(item) /\ u = item
    \/ /\ ~(item \in Uids /\ IsListed(item))
       /\ \E row \in folder : row[1] = u /\ Titled(item) = {row}

-----------------------------------------------------------------------------
(* A call: run with one secret, or with none.                              *)

Goto(c, s) == step' = [step EXCEPT ![c] = s]

\* The call ends, and its result or its error is answered.
Return(c) ==
    /\ Goto(c, "idle")
    /\ args' = [args EXCEPT ![c] = NoArgs]
    /\ uid' = [uid EXCEPT ![c] = None]
    /\ value' = [value EXCEPT ![c] = None]
    /\ pending' = [pending EXCEPT ![c] = {}]
    /\ named' = [named EXCEPT ![c] = FALSE]
    /\ targets' = [targets EXCEPT ![c] = {}]
    /\ within' = [within EXCEPT ![c] = {}]
    /\ shown' = [shown EXCEPT ![c] = {}]

Call(c, item, field, label) ==
    /\ step[c] = "idle"
    /\ args' = [args EXCEPT ![c] =
                   [item |-> item, field |-> field, label |-> label]]
    /\ within' = [within EXCEPT ![c] = {u \in Uids : Listed(u)}]
    /\ Goto(c, "ls")
    /\ UNCHANGED <<accountVars, code, auth, uid, value, pending, named, targets,
                   readVars, shown>>

\* Nothing to resolve: the runner goes on to what it scrubs.
CallPlain(c) ==
    /\ step[c] = "idle"
    /\ Goto(c, "auth")
    /\ UNCHANGED <<accountVars, code, auth, callVars, within, readVars, shown>>

\* `keeper ls`, which takes a login, and the name resolved to a uid.
List(c) ==
    /\ step[c] = "ls" /\ code # 0
    /\ \E u \in Uids :
          /\ Resolves(args[c].item, u)
          /\ uid' = [uid EXCEPT ![c] = u]
    /\ args' = [args EXCEPT ![c].item = None]
    /\ Goto(c, "get")
    /\ UNCHANGED <<accountVars, code, auth, value, pending, named, targets,
                   within, readVars, shown>>

\* No record, or several, and the call is refused.
Refuse(c) ==
    /\ step[c] = "ls" /\ code # 0
    /\ \A u \in Uids : ~Resolves(args[c].item, u)
    /\ Return(c)
    /\ UNCHANGED <<accountVars, code, auth, readVars>>

\* `keeper get`, which reaches any record of the account.
Get(c) ==
    /\ step[c] = "get"
    /\ LET v == ReadField(content[uid[c]], args[c].field) IN
       /\ v # None
       /\ value' = [value EXCEPT ![c] = v]
       /\ targets' = [targets EXCEPT ![c] = {<<args[c].label, v>>}]
    /\ args' = [args EXCEPT ![c].field = None]
    /\ uid' = [uid EXCEPT ![c] = None]
    /\ within' = [within EXCEPT ![c] = {}]
    /\ Goto(c, "auth")
    /\ UNCHANGED <<accountVars, code, auth, pending, named, readVars, shown>>

GetNothing(c) ==
    /\ step[c] = "get"
    /\ ReadField(content[uid[c]], args[c].field) = None
    /\ Return(c)
    /\ UNCHANGED <<accountVars, code, auth, readVars>>

\* Either command times out or is rejected.
KeeperFail(c) ==
    /\ step[c] \in {"ls", "get"}
    /\ Return(c)
    /\ UNCHANGED <<accountVars, code, auth, readVars>>

\* The login strings in Commander's configuration.
Config == IF code = 0 THEN {} ELSE {Password, code}

\* Mutant of Collected: the search stops at the first login string.
CollectedFirst == Config \cap {Password}

\* _collect_auth: every one of them.
Collected == Config

\* _auth_pairs, for auth_secrets or for service_account_token: the configuration
\* is read unless _auth is there.
AuthRead(c) ==
    /\ step[c] \in {"auth", "token"} /\ auth = None
    /\ pending' = [pending EXCEPT ![c] = Collected]
    /\ firstCode' = IF firstCode = 0 THEN code ELSE firstCode
    /\ blank' = (blank \/ code = 0)
    /\ Goto(c, IF step[c] = "auth" THEN "keep" ELSE "keepToken")
    /\ UNCHANGED <<accountVars, code, auth, args, uid, value, named, targets,
                   within, shown>>

\* Whichever thread stores last leaves what it read, if only that there was
\* nothing: an empty _auth raises, but is not None any more.
AuthKeep(c) ==
    /\ step[c] \in {"keep", "keepToken"}
    /\ auth' = pending[c]
    /\ pending' = [pending EXCEPT ![c] = {}]
    /\ Goto(c, IF step[c] = "keep" THEN "auth" ELSE "token")
    /\ UNCHANGED <<accountVars, code, args, uid, value, named, targets, within,
                   readVars, shown>>

\* dict.update: what has a label of new gives way to it.
Update(old, new) ==
    {p \in old : \A q \in new : q[1] # p[1]} \cup new

Labelled(logins) ==
    {<<IF s = Password THEN AuthLabel ELSE CodeLabel, s>> : s \in logins}

\* auth_secrets answers with what is kept, nothing if that is empty.
AuthAnswer(c) ==
    /\ step[c] = "auth" /\ auth # None
    /\ targets' = [targets EXCEPT ![c] = Update(targets[c], Labelled(auth))]
    /\ named' = [named EXCEPT ![c] = auth # {}]
    /\ Goto(c, "token")
    /\ UNCHANGED <<accountVars, code, auth, args, uid, value, pending, within,
                   readVars, shown>>

\* service_account_token answers with the most damaging one, which is added if
\* it is not there already.
TokenAnswer(c) ==
    /\ step[c] = "token" /\ auth # None
    /\ targets' = [targets EXCEPT ![c] =
                      IF auth = {} \/ \E p \in targets[c] : p[2] = Password
                      THEN targets[c]
                      ELSE Update(targets[c], {<<TokenLabel, Password>>})]
    /\ Goto(c, "run")
    /\ UNCHANGED <<accountVars, code, auth, args, uid, value, pending, named,
                   within, readVars, shown>>

\* The configuration does not open or parse: nothing to scrub, for either.
AuthUnread(c) ==
    /\ ReadsFail
    /\ step[c] \in {"auth", "token"} /\ auth = None
    /\ Goto(c, IF step[c] = "auth" THEN "token" ELSE "run")
    /\ UNCHANGED <<accountVars, code, auth, callVars, within, readVars, shown>>

\* Redactor: what is left of an output.
Scrub(c, output) == output \ {p[2] : p \in targets[c]}

\* The command prints its environment, Commander's configuration, or both.
Command(c) ==
    /\ step[c] = "run"
    /\ \E output \in SUBSET (({value[c]} \ {None}) \cup Config) :
          shown' = [shown EXCEPT ![c] = Scrub(c, output)]
    /\ value' = [value EXCEPT ![c] = None]
    /\ targets' = [targets EXCEPT ![c] = {}]
    /\ Goto(c, "done")
    /\ UNCHANGED <<accountVars, code, auth, args, uid, pending, named, within,
                   readVars>>

Reply(c) ==
    /\ step[c] = "done"
    /\ Return(c)
    /\ UNCHANGED <<accountVars, code, auth, readVars>>

-----------------------------------------------------------------------------
(* The environment: people, and Commander.                                 *)

Edit == edits < MaxEdits /\ edits' = edits + 1

\* A record is put into a place of the shared folder, or taken from there.
Move(u, p) ==
    /\ Edit
    /\ folder' = IF <<u, p>> \in folder THEN folder \ {<<u, p>>}
                                        ELSE folder \cup {<<u, p>>}
    /\ within' = [c \in Callers |->
                    IF step[c] \in {"ls", "get"} THEN within[c] \cup {u} ELSE {}]
    /\ UNCHANGED <<title, content, code, auth, step, callVars, readVars, shown>>

Rename(u, t) ==
    /\ Edit
    /\ title' = [title EXCEPT ![u] = t]
    /\ UNCHANGED <<folder, content, code, auth, step, callVars, within,
                   readVars, shown>>

Rewrite(u, r) ==
    /\ Edit
    /\ content' = [content EXCEPT ![u] = r]
    /\ UNCHANGED <<folder, title, code, auth, step, callVars, within, readVars,
                   shown>>

\* The operator logs Commander in.
LogIn ==
    /\ code = 0
    /\ code' = 1
    /\ UNCHANGED <<accountVars, auth, step, callVars, within, readVars, shown>>

\* Commander rotates the clone code as it runs.
Rotate ==
    /\ code # 0 /\ code <= MaxRotations
    /\ \E c \in Callers : step[c] \in {"ls", "get"}
    /\ code' = code + 1
    /\ UNCHANGED <<accountVars, auth, step, callVars, within, readVars, shown>>

-----------------------------------------------------------------------------
Resolving(c) == List(c) \/ Refuse(c) \/ Get(c) \/ GetNothing(c) \/ KeeperFail(c)

Scrubbing(c) ==
    \/ AuthRead(c) \/ AuthKeep(c) \/ AuthAnswer(c) \/ TokenAnswer(c)
    \/ AuthUnread(c) \/ Command(c) \/ Reply(c)

People ==
    \E u \in Uids :
        \/ \E p \in Places : Move(u, p)
        \/ \E t \in Titles : Rename(u, t)
        \/ \E r \in Records : Rewrite(u, r)

Next ==
    \/ \E c \in Callers, item \in Items, f \in Fields, l \in Labels :
          Call(c, item, f, l)
    \/ \E c \in Callers : CallPlain(c) \/ Resolving(c) \/ Scrubbing(c)
    \/ People
    \/ LogIn
    \/ Rotate

Spec == Init /\ [][Next]_vars

-----------------------------------------------------------------------------
(* Properties.                                                             *)

\* The shared folder is a boundary although `get` is not scoped to it: a value
\* is read from a record that was in the folder while the call was under way
\* (_resolve_uid, _record).
ReadsStayInFolder ==
    \A c \in Callers : uid[c] # None => uid[c] \in within[c]

\* How well a record fits a name, 0 being best.
Fit(u, item) ==
    CASE u = item -> 0
      [] u # item /\ title[u] = item -> 1
      [] OTHER ->
           IF item \in Titles /\ Lower[title[u]] = Lower[item] THEN 2 ELSE 3

\* A row of that record fits the name, and every other row fits it worse, unless
\* it has the uid that was asked for as well.
Best(u, item) ==
    \E row \in folder :
        /\ row[1] = u /\ Fit(u, item) < 3
        /\ \A other \in folder \ {row} :
              Fit(u, item) < Fit(other[1], item) \/ (other[1] = u /\ u = item)

\* A name is resolved to a record that fits it better than every other row of
\* the folder at that moment, and is refused only if there is no such record: of
\* two rows with one title neither is taken, and no spelling hides another
\* (_resolve_uid).
NamesAreUnambiguous ==
    [][\A c \in Callers :
          /\ step[c] = "ls" /\ step'[c] = "get" => Best(uid'[c], args[c].item)
          /\ Refuse(c) => \A u \in Uids : ~Best(u, args[c].item)]_vars

\* A login string in the output of a call that auth_secrets answered is one that
\* Commander wrote after the daemon had first read its configuration: whatever
\* threads raced to read it, nothing that was there then is shown, provided that
\* no thread read the configuration before there was a login: the empty list it
\* keeps then is what auth_secrets answers with from then on.
LoginsAreScrubbed ==
    ~blank =>
        \A c \in Callers : named[c] =>
            \A s \in shown[c] \cap Logins : s > firstCode

=============================================================================
