---------------------------- MODULE KeeperProofs ----------------------------
(***************************************************************************)
(* What holds of Keeper for any callers, records, places, titles and       *)
(* number of edits and rotations.                                          *)
(***************************************************************************)
EXTENDS Keeper, TLAPS

\* A name is resolved to a record that is listed.
LEMMA ResolvesListed ==
    ASSUME NEW item, NEW u, Resolves(item, u) PROVE Listed(u)
  BY DEF Resolves, IsListed, Listed

\* What a field holds is a value or nothing.
LEMMA ReadFieldType ==
    ASSUME NEW r \in Records, NEW f
    PROVE  ReadField(r, f) \in Values \cup {None}
  <1>1. Walk(r) \in Seq(Entry)
    BY RecordsAssumption DEF Walk
  <1>2. \A i \in DOMAIN Walk(r) : Walk(r)[i] \in Entry
    BY <1>1
  <1>3. First(Filled(r, f)) \subseteq DOMAIN Walk(r)
    BY DEF First, Filled
  <1> QED
    BY <1>2, <1>3 DEF ReadField, Entry

\* What a call has when it is to fetch a record.
Fetching == \A c \in Callers :
    /\ step[c] \in {"ls", "get"} => args[c] \in Args
    /\ step[c] = "get" => uid[c] # None

Typed == TypeOK /\ Fetching

\* What is scrubbed is labelled strings.
LEMMA UpdateType ==
    ASSUME NEW old \in SUBSET (AllLabels \X Strings),
           NEW new \in SUBSET (AllLabels \X Strings)
    PROVE  Update(old, new) \in SUBSET (AllLabels \X Strings)
  BY DEF Update

LEMMA LabelledType ==
    ASSUME NEW logins \in SUBSET Logins
    PROVE  Labelled(logins) \in SUBSET (AllLabels \X Strings)
  BY DEF Labelled, AllLabels, Strings

LEMMA TypedHolds == Spec => []Typed
  <1>1. Init => Typed
    <2> SUFFICES ASSUME Init PROVE Typed
      OBVIOUS
    <2>1. code \in Nat /\ edits \in Nat /\ firstCode \in Nat
      BY DEF Init
    <2>2. blank \in BOOLEAN
      BY Zenon DEF Init
    <2>3. \A c \in Callers : step[c] = "idle"
      BY DEF Init
    <2>4. targets \in [Callers -> SUBSET (AllLabels \X Strings)]
      BY DEF Init
    <2> QED
      BY <2>1, <2>2, <2>3, <2>4 DEF Init, Typed, TypeOK, Fetching, Steps
  <1>2. Typed /\ [Next]_vars => Typed'
    <2> SUFFICES ASSUME Typed, [Next]_vars PROVE Typed'
      OBVIOUS
    <2> USE DEF accountVars, callVars, readVars, Goto, Steps, Args, NoArgs
    <2>1. ASSUME NEW c \in Callers, NEW item \in Items, NEW f \in Fields,
                 NEW l \in Labels, Call(c, item, f, l)
          PROVE  Typed'
      <3>1. within' \in [Callers -> SUBSET Uids]
        BY <2>1 DEF Typed, TypeOK, Call
      <3> QED
        BY <2>1, <3>1 DEF Typed, TypeOK, Fetching, Call
    <2>2. ASSUME NEW c \in Callers, Return(c),
                 UNCHANGED <<accountVars, code, auth, readVars>>
          PROVE  Typed'
      BY <2>2 DEF Typed, TypeOK, Fetching, Return
    <2>3. ASSUME NEW c \in Callers, List(c) PROVE Typed'
      <3>1. PICK u \in Uids : uid' = [uid EXCEPT ![c] = u]
        BY <2>3 DEF List
      <3>3. args[c] \in Args
        BY <2>3 DEF Typed, Fetching, List
      <3>4. /\ args' = [args EXCEPT ![c] = [args[c] EXCEPT !.item = None]]
            /\ [args[c] EXCEPT !.item = None] \in Args
        BY <2>3, <3>3 DEF List
      <3>5. /\ step' = [step EXCEPT ![c] = "get"]
            /\ UNCHANGED <<accountVars, code, auth, value, pending, named,
                           targets, within, readVars, shown>>
        BY <2>3 DEF List
      <3> QED
        BY <3>1, <3>4, <3>5, NoneAssumption DEF Typed, TypeOK, Fetching
    <2>4. ASSUME NEW c \in Callers, Get(c) PROVE Typed'
      <3>1. uid[c] \in Uids
        BY <2>4 DEF Typed, TypeOK, Fetching, Get
      <3>2. content[uid[c]] \in Records
        BY <3>1 DEF Typed, TypeOK
      <3> DEFINE v == ReadField(content[uid[c]], args[c].field)
                 rest == [args[c] EXCEPT !.field = None]
      <3>3. v \in Values
        BY <2>4, <3>2, ReadFieldType DEF Get
      <3>4. /\ value' = [value EXCEPT ![c] = v]
            /\ targets' = [targets EXCEPT ![c] = {<<args[c].label, v>>}]
        BY <2>4 DEF Get
      <3> HIDE DEF v
      <3>5. args[c] \in Args
        BY <2>4 DEF Typed, Fetching, Get
      <3>6. rest \in Args /\ args[c].label \in Labels
        BY <3>5
      <3>7. args' = [args EXCEPT ![c] = rest]
        BY <2>4 DEF Get
      <3> HIDE DEF rest
      <3>8. /\ step' = [step EXCEPT ![c] = "auth"]
            /\ uid' = [uid EXCEPT ![c] = None]
            /\ within' = [within EXCEPT ![c] = {}]
            /\ UNCHANGED <<accountVars, code, auth, pending, named, readVars,
                           shown>>
        BY <2>4 DEF Get
      <3>9. {<<args[c].label, v>>} \in SUBSET (AllLabels \X Strings)
        BY <3>3, <3>6 DEF AllLabels, Strings
      <3>10. targets' \in [Callers -> SUBSET (AllLabels \X Strings)]
        BY <3>4, <3>9 DEF Typed, TypeOK
      <3> QED
        BY <3>3, <3>4, <3>6, <3>7, <3>8, <3>10 DEF Typed, TypeOK, Fetching
    <2>5. ASSUME NEW c \in Callers, AuthRead(c) PROVE Typed'
      <3>1. blank' \in BOOLEAN
        BY <2>5 DEF AuthRead
      <3>2. pending' \in [Callers -> SUBSET Logins] /\ firstCode' \in Nat
        BY <2>5 DEF Typed, TypeOK, AuthRead, Collected, Config, Password, Logins
      <3> QED
        BY <2>5, <3>1, <3>2 DEF Typed, TypeOK, Fetching, AuthRead
    <2>6. ASSUME NEW c \in Callers, AuthKeep(c) PROVE Typed'
      <3>1. auth' \in SUBSET Logins
        BY <2>6 DEF Typed, TypeOK, AuthKeep
      <3> QED
        BY <2>6, <3>1 DEF Typed, TypeOK, Fetching, AuthKeep
    <2>7. ASSUME NEW c \in Callers, AuthAnswer(c) PROVE Typed'
      <3>1. auth \in SUBSET Logins /\ targets[c] \in SUBSET (AllLabels \X Strings)
        BY <2>7 DEF Typed, TypeOK, AuthAnswer
      <3>2. Update(targets[c], Labelled(auth)) \in SUBSET (AllLabels \X Strings)
        BY <3>1, LabelledType, UpdateType
      <3>3. targets' \in [Callers -> SUBSET (AllLabels \X Strings)]
        BY <2>7, <3>2 DEF Typed, TypeOK, AuthAnswer
      <3>4. named' \in [Callers -> BOOLEAN]
        BY <2>7 DEF Typed, TypeOK, AuthAnswer
      <3> QED
        BY <2>7, <3>3, <3>4 DEF Typed, TypeOK, Fetching, AuthAnswer
    <2>8. ASSUME NEW c \in Callers, TokenAnswer(c) PROVE Typed'
      <3>1. targets[c] \in SUBSET (AllLabels \X Strings)
        BY DEF Typed, TypeOK
      <3>2. {<<TokenLabel, Password>>} \in SUBSET (AllLabels \X Strings)
        BY DEF AllLabels, Strings, Logins, Password
      <3>3. Update(targets[c], {<<TokenLabel, Password>>})
                 \in SUBSET (AllLabels \X Strings)
        BY <3>1, <3>2, UpdateType
      <3>4. targets' \in [Callers -> SUBSET (AllLabels \X Strings)]
        BY <2>8, <3>1, <3>3 DEF Typed, TypeOK, TokenAnswer
      <3> QED
        BY <2>8, <3>4 DEF Typed, TypeOK, Fetching, TokenAnswer
    <2>9. ASSUME NEW c \in Callers, AuthUnread(c) \/ CallPlain(c) PROVE Typed'
      BY <2>9 DEF Typed, TypeOK, Fetching, AuthUnread, CallPlain
    <2>10. ASSUME NEW c \in Callers, Command(c) PROVE Typed'
      <3>1. PICK output \in SUBSET (({value[c]} \ {None}) \cup Config) :
                shown' = [shown EXCEPT ![c] = Scrub(c, output)]
        BY <2>10 DEF Command
      <3>2. Scrub(c, output) \in SUBSET Strings
        BY <3>1 DEF Typed, TypeOK, Scrub, Strings, Config, Logins, Password
      <3>3. shown' \in [Callers -> SUBSET Strings]
        BY <3>1, <3>2 DEF Typed, TypeOK
      <3>4. /\ value' = [value EXCEPT ![c] = None]
            /\ targets' = [targets EXCEPT ![c] = {}]
            /\ step' = [step EXCEPT ![c] = "done"]
            /\ UNCHANGED <<accountVars, code, auth, args, uid, pending, named,
                           within, readVars>>
        BY <2>10 DEF Command
      <3> QED
        BY <3>3, <3>4 DEF Typed, TypeOK, Fetching
    <2>11. CASE People
      <3>1. ASSUME NEW u \in Uids, NEW p \in Places, Move(u, p) PROVE Typed'
        <4>1. folder' \subseteq Uids \X Places
          BY <3>1 DEF Typed, TypeOK, Move
        <4>2. within' \in [Callers -> SUBSET Uids]
          BY <3>1 DEF Typed, TypeOK, Move
        <4> QED
          BY <3>1, <4>1, <4>2 DEF Typed, TypeOK, Fetching, Move, Edit
      <3>2. ASSUME NEW u \in Uids, NEW t \in Titles, Rename(u, t) PROVE Typed'
        BY <3>2 DEF Typed, TypeOK, Fetching, Rename, Edit
      <3>3. ASSUME NEW u \in Uids, NEW r \in Records, Rewrite(u, r) PROVE Typed'
        BY <3>3 DEF Typed, TypeOK, Fetching, Rewrite, Edit
      <3> QED
        BY <2>11, <3>1, <3>2, <3>3 DEF People
    <2>12. CASE Rotate \/ LogIn
      BY <2>12 DEF Typed, TypeOK, Fetching, Rotate, LogIn
    <2>13. CASE UNCHANGED vars
      BY <2>13 DEF Typed, TypeOK, Fetching, vars
    <2> QED
      BY <2>1, <2>2, <2>3, <2>4, <2>5, <2>6, <2>7, <2>8, <2>9, <2>10, <2>11,
         <2>12, <2>13
         DEF Next, Resolving, Scrubbing, Refuse, GetNothing, KeeperFail, Reply
  <1> QED
    BY <1>1, <1>2, PTL DEF Spec

\* Every variable keeps its type, for any account and any number of calls (read,
\* _auth_pairs, run).
THEOREM TypeOKHolds == Spec => []TypeOK
  BY TypedHolds, PTL DEF Typed

-----------------------------------------------------------------------------
(* The folder.                                                             *)

\* A call that resolves a name has seen every record that is in the folder.
FolderSeen == \A c \in Callers :
    /\ step[c] \in {"ls", "get"} => \A row \in folder : row[1] \in within[c]
    /\ uid[c] # None => step[c] = "get" /\ uid[c] \in within[c]

\* The shared folder is a boundary: a value is read from a record that was in it
\* while the call was under way (_resolve_uid, _record).
THEOREM ReadsStayInFolderHolds == Spec => []ReadsStayInFolder
  <1>1. Init => FolderSeen
    BY DEF Init, FolderSeen
  <1>2. Typed /\ FolderSeen /\ [Next]_vars => FolderSeen'
    <2> SUFFICES ASSUME Typed, FolderSeen, [Next]_vars PROVE FolderSeen'
      OBVIOUS
    <2> USE DEF Typed, FolderSeen, accountVars, callVars, Goto
    <2>1. ASSUME NEW c \in Callers, NEW item \in Items, NEW f \in Fields,
                 NEW l \in Labels, Call(c, item, f, l)
          PROVE  FolderSeen'
      <3>1. \A row \in folder : row[1] \in {u \in Uids : Listed(u)}
        BY DEF TypeOK, Listed
      <3> DEFINE seen == {u \in Uids : Listed(u)}
      <3>2. /\ within' = [within EXCEPT ![c] = seen]
            /\ step' = [step EXCEPT ![c] = "ls"]
            /\ step[c] = "idle" /\ UNCHANGED <<folder, uid>>
        BY <2>1 DEF Call
      <3> HIDE DEF seen
      <3>3. \A row \in folder : row[1] \in seen
        BY <3>1 DEF seen
      <3> QED
        BY <3>2, <3>3 DEF TypeOK
    <2>2. ASSUME NEW c \in Callers, Return(c),
                 UNCHANGED <<accountVars, code, auth, readVars>>
          PROVE  FolderSeen'
      BY <2>2 DEF TypeOK, Return
    <2>3. ASSUME NEW c \in Callers, List(c) PROVE FolderSeen'
      <3>1. PICK u \in Uids : /\ Resolves(args[c].item, u)
                              /\ uid' = [uid EXCEPT ![c] = u]
        BY <2>3 DEF List
      <3>2. PICK row \in folder : row[1] = u
        BY <3>1, ResolvesListed DEF Listed
      <3>3. /\ step[c] = "ls" /\ step' = [step EXCEPT ![c] = "get"]
            /\ UNCHANGED <<folder, within>>
        BY <2>3 DEF List
      <3> QED
        BY <3>1, <3>2, <3>3 DEF TypeOK
    <2>4. ASSUME NEW c \in Callers, Get(c) PROVE FolderSeen'
      BY <2>4 DEF TypeOK, Get
    <2>5. ASSUME NEW c \in Callers, CallPlain(c) \/ AuthRead(c) \/ AuthKeep(c)
                 \/ AuthAnswer(c) \/ TokenAnswer(c) \/ AuthUnread(c) \/ Command(c)
          PROVE  FolderSeen'
      <3>1. /\ UNCHANGED <<folder, uid, within>>
            /\ step[c] \notin {"ls", "get"}
            /\ \E s \in {"auth", "keep", "token", "keepToken", "run", "done"} :
                  Goto(c, s)
        BY <2>5
           DEF CallPlain, AuthRead, AuthKeep, AuthAnswer, TokenAnswer, AuthUnread,
               Command
      <3> QED
        BY <3>1 DEF TypeOK
    <2>6. CASE People
      <3>1. ASSUME NEW u \in Uids, NEW p \in Places, Move(u, p) PROVE FolderSeen'
        <4>1. \A row \in folder' : row \in folder \/ row[1] = u
          BY <3>1 DEF Move
        <4>2. \A c \in Callers : step[c] \in {"ls", "get"} =>
                 within'[c] = within[c] \cup {u}
          BY <3>1 DEF Move
        <4>3. UNCHANGED <<step, uid>>
          BY <3>1 DEF Move
        <4> QED
          BY <4>1, <4>2, <4>3
      <3>2. ASSUME NEW u \in Uids, NEW x, Rename(u, x) \/ Rewrite(u, x)
            PROVE  FolderSeen'
        BY <3>2 DEF Rename, Rewrite
      <3> QED
        BY <2>6, <3>1, <3>2 DEF People
    <2>7. CASE Rotate \/ LogIn \/ UNCHANGED vars
      BY <2>7 DEF TypeOK, Rotate, LogIn, vars
    <2> QED
      BY <2>1, <2>2, <2>3, <2>4, <2>5, <2>6, <2>7
         DEF Next, Resolving, Scrubbing, Refuse, GetNothing, KeeperFail, Reply
  <1>3. FolderSeen => ReadsStayInFolder
    BY DEF FolderSeen, ReadsStayInFolder
  <1> QED
    BY <1>1, <1>2, <1>3, TypedHolds, PTL DEF Spec

\* The record that a name resolves to is the best, and if there is a best it is
\* the one.
LEMMA ResolvesBest ==
    ASSUME TypeOK, NEW item, NEW u \in Uids
    PROVE  Resolves(item, u) <=> Best(u, item)
  <1>0. \A row \in folder : row[1] \in Uids
    BY DEF TypeOK
  <1>1. CASE item \in Uids /\ IsListed(item)
    <2>1. Resolves(item, u) <=> u = item
      BY <1>1 DEF Resolves
    <2>2. PICK row \in folder : row[1] = item
      BY <1>1 DEF IsListed, Listed
    <2>3. \A x : x # item => Fit(x, item) \in {1, 2, 3}
      BY DEF Fit
    <2>4. Fit(item, item) = 0
      BY DEF Fit
    <2>5. ASSUME u = item PROVE Best(u, item)
      BY <2>2, <2>3, <2>4, <2>5 DEF Best
    <2>6. ASSUME Best(u, item) PROVE u = item
      BY <2>2, <2>3, <2>4, <2>6 DEF Best
    <2> QED
      BY <2>1, <2>5, <2>6
  <1>2. CASE ~(item \in Uids /\ IsListed(item))
    <2>1. \A row \in folder : row[1] # item
      BY <1>0, <1>2 DEF IsListed, Listed
    <2>2. Resolves(item, u) <=>
             \E row \in folder : row[1] = u /\ Titled(item) = {row}
      BY <1>2 DEF Resolves
    <2>3. \A row \in folder :
             /\ Fit(row[1], item) \in {1, 2, 3}
             /\ Fit(row[1], item) = 1 <=> row \in ByTitle(item)
             /\ Fit(row[1], item) < 3 => row \in ByTitle(item) \cup ByLowerTitle(item)
             /\ row \in ByLowerTitle(item) => Fit(row[1], item) < 3
      BY <2>1 DEF Fit, ByTitle, ByLowerTitle
    <2>4. ByTitle(item) \subseteq folder /\ ByLowerTitle(item) \subseteq folder
      BY DEF ByTitle, ByLowerTitle
    <2>5. Best(u, item) <=>
             \E row \in folder :
                /\ row[1] = u /\ Fit(row[1], item) < 3
                /\ \A other \in folder \ {row} :
                      Fit(row[1], item) < Fit(other[1], item)
      BY <2>1 DEF Best
    <2>6. ASSUME NEW row \in folder
          PROVE  Titled(item) = {row} <=>
                    /\ Fit(row[1], item) < 3
                    /\ \A other \in folder \ {row} :
                          Fit(row[1], item) < Fit(other[1], item)
      <3>1. CASE ByTitle(item) # {}
        BY <2>3, <2>4, <3>1 DEF Titled
      <3>2. CASE ByTitle(item) = {}
        BY <2>3, <2>4, <3>2 DEF Titled
      <3> QED
        BY <3>1, <3>2
    <2> QED
      BY <2>2, <2>5, <2>6
  <1> QED
    BY <1>1, <1>2

\* Only List takes a call from the listing to the fetch.
LEMMA StepsOfOthers ==
    ASSUME TypeOK, [Next]_vars, NEW c \in Callers,
           step[c] = "ls", step'[c] = "get"
    PROVE  List(c)
  <1> USE DEF TypeOK, Goto, callVars
  <1>1. ASSUME NEW d \in Callers, NEW item \in Items, NEW f \in Fields,
               NEW l \in Labels, Call(d, item, f, l)
        PROVE  FALSE
    BY <1>1 DEF Call
  <1>2. ASSUME NEW d \in Callers, Return(d) PROVE FALSE
    BY <1>2 DEF Return
  <1>3. ASSUME NEW d \in Callers, List(d) PROVE List(c)
    <2>1. d = c
      BY <1>3 DEF List
    <2> QED
      BY <1>3, <2>1
  <1>4. ASSUME NEW d \in Callers, Get(d) PROVE FALSE
    BY <1>4 DEF Get
  <1>5. ASSUME NEW d \in Callers, CallPlain(d) \/ (Scrubbing(d) /\ ~Reply(d))
        PROVE  FALSE
    BY <1>5 DEF CallPlain, Scrubbing, AuthRead, AuthKeep, AuthAnswer, TokenAnswer,
                AuthUnread, Command
  <1>6. ASSUME People \/ LogIn \/ Rotate \/ UNCHANGED vars PROVE FALSE
    BY <1>6 DEF People, Move, Rename, Rewrite, LogIn, Rotate, vars
  <1> QED
    BY <1>1, <1>2, <1>3, <1>4, <1>5, <1>6
       DEF Next, Resolving, Scrubbing, Refuse, GetNothing, KeeperFail, Reply

\* A name is resolved to a record that fits it better than every other row of the
\* folder, and is refused only if there is no such record (_resolve_uid).
THEOREM NamesAreUnambiguousHolds == Spec => NamesAreUnambiguous
  <1>1. ASSUME Typed, [Next]_vars, NEW c \in Callers
        PROVE  /\ step[c] = "ls" /\ step'[c] = "get" =>
                     Best(uid'[c], args[c].item)
               /\ Refuse(c) => \A u \in Uids : ~Best(u, args[c].item)
    <2>1. step[c] = "ls" /\ step'[c] = "get" => List(c)
      BY <1>1, StepsOfOthers DEF Typed
    <2>2. ASSUME List(c) PROVE Best(uid'[c], args[c].item)
      <3>1. PICK u \in Uids : /\ Resolves(args[c].item, u)
                              /\ uid' = [uid EXCEPT ![c] = u]
        BY <2>2 DEF List
      <3>2. uid'[c] = u
        BY <1>1, <3>1 DEF Typed, TypeOK
      <3> QED
        BY <1>1, <3>1, <3>2, ResolvesBest DEF Typed
    <2>3. ASSUME Refuse(c), NEW u \in Uids PROVE ~Best(u, args[c].item)
      BY <1>1, <2>3, ResolvesBest DEF Typed, Refuse
    <2> QED
      BY <2>1, <2>2, <2>3
  <1>2. Typed /\ [Next]_vars =>
            [\A c \in Callers :
                /\ step[c] = "ls" /\ step'[c] = "get" =>
                      Best(uid'[c], args[c].item)
                /\ Refuse(c) => \A u \in Uids : ~Best(u, args[c].item)]_vars
    BY <1>1
  <1> QED
    BY <1>2, TypedHolds, PTL DEF Spec, NamesAreUnambiguous

-----------------------------------------------------------------------------
(* What is scrubbed.                                                       *)

\* Two login strings, the second of them as new as the first that was read.
ReadFrom(S) ==
    /\ firstCode > 0
    /\ \E k \in firstCode .. code : S = {Password, k}

\* They are scrubbed, under labels of their own.
Covers(T) ==
    \E k \in firstCode .. code :
        <<AuthLabel, Password>> \in T /\ <<CodeLabel, k>> \in T

\* What a thread holds of the configuration and shows of it.
Held(c) ==
    /\ step[c] \in {"keep", "keepToken"} => ReadFrom(pending[c])
    /\ named[c] =>
         firstCode > 0 /\ step[c] \in {"token", "keepToken", "run", "done"}
    /\ named[c] /\ step[c] # "done" => Covers(targets[c])
    /\ named[c] => \A s \in shown[c] \cap Logins : s > firstCode

LoginsHeld ==
    /\ firstCode <= code
    /\ \A c \in Callers : step[c] # "done" => shown[c] = {}
    /\ ~blank => /\ auth # None => ReadFrom(auth)
                 /\ \A c \in Callers : Held(c)

LEMMA LoginsHeldHolds == Spec => []LoginsHeld
  <1>1. Init => LoginsHeld
    BY DEF Init, LoginsHeld, Held
  <1>2. Typed /\ LoginsHeld /\ [Next]_vars => LoginsHeld'
    <2> SUFFICES ASSUME Typed, LoginsHeld, [Next]_vars PROVE LoginsHeld'
      OBVIOUS
    <2> USE DEF Typed, LoginsHeld, accountVars, callVars, readVars, Goto
    <2>0. ASSUME UNCHANGED <<code, firstCode>>
          PROVE  /\ \A S : ReadFrom(S) <=> ReadFrom(S)'
                 /\ \A T : Covers(T) <=> Covers(T)'
      BY <2>0 DEF ReadFrom, Covers
    <2>1. ASSUME NEW c \in Callers, NEW item \in Items, NEW f \in Fields,
                 NEW l \in Labels, Call(c, item, f, l)
          PROVE  LoginsHeld'
      BY <2>1, <2>0 DEF TypeOK, Call, Held
    <2>2. ASSUME NEW c \in Callers, Return(c),
                 UNCHANGED <<accountVars, code, auth, readVars>>
          PROVE  LoginsHeld'
      BY <2>2, <2>0 DEF TypeOK, Return, Held
    <2>3. ASSUME NEW c \in Callers, CallPlain(c) \/ List(c) \/ AuthUnread(c)
          PROVE  LoginsHeld'
      <3>1. /\ step[c] \notin {"done", "keep", "keepToken"}
            /\ \E s \in {"auth", "get", "token", "run"} :
                  step' = [step EXCEPT ![c] = s]
            /\ step[c] # "token" => step[c] \in {"idle", "ls", "auth"}
            /\ step[c] = "token" => step' = [step EXCEPT ![c] = "run"]
            /\ UNCHANGED <<code, auth, pending, named, targets, readVars, shown>>
        BY <2>3 DEF CallPlain, List, AuthUnread
      <3> QED
        BY <2>0, <3>1 DEF TypeOK, Held
    <2>4. ASSUME NEW c \in Callers, Get(c) PROVE LoginsHeld'
      <3>1. /\ step[c] = "get" /\ step' = [step EXCEPT ![c] = "auth"]
            /\ \E T : targets' = [targets EXCEPT ![c] = T]
            /\ UNCHANGED <<code, auth, pending, named, readVars, shown>>
        BY <2>4 DEF Get
      <3> QED
        BY <2>0, <3>1 DEF TypeOK, Held
    <2>5. ASSUME NEW c \in Callers, AuthRead(c) PROVE LoginsHeld'
      <3>1. /\ firstCode' = IF firstCode = 0 THEN code ELSE firstCode
            /\ blank' = (blank \/ code = 0)
            /\ UNCHANGED <<code, auth, named, targets, shown>>
            /\ auth = None /\ step[c] \in {"auth", "token"}
            /\ step' = [step EXCEPT
                           ![c] = IF step[c] = "auth" THEN "keep" ELSE "keepToken"]
            /\ pending' = [pending EXCEPT ![c] = Collected]
        BY <2>5 DEF AuthRead
      <3>2. firstCode' <= code'
        BY <3>1 DEF TypeOK
      <3>3. \A d \in Callers : step'[d] # "done" => shown'[d] = {}
        BY <3>1 DEF TypeOK
      <3>4. CASE blank'
        BY <3>1, <3>2, <3>3, <3>4
      <3>5. CASE ~blank'
        <4>0. code \in Nat /\ firstCode \in Nat
          BY DEF TypeOK
        <4>1. ~blank /\ code # 0 /\ firstCode' > 0
          <5>1. ~blank /\ code # 0
            BY <3>1, <3>5, Zenon
          <5> QED
            BY <3>1, <4>0, <5>1
        <4>2. ReadFrom(pending[c])'
          <5>1. pending'[c] = {Password, code}
            BY <3>1, <4>1 DEF TypeOK, Collected, Config
          <5>2. code \in firstCode' .. code'
            BY <3>1, <3>2, <4>0
          <5> QED
            BY <4>1, <5>1, <5>2 DEF ReadFrom
        <4>3. firstCode > 0 => firstCode' = firstCode
          BY <3>1
        <4>4. ASSUME NEW d \in Callers PROVE Held(d)'
          <5>1. Held(d)
            BY <4>1
          <5>2. named[d] => firstCode' = firstCode
            BY <4>3, <5>1 DEF Held
          <5>3. firstCode' = firstCode => \A T : Covers(T) <=> Covers(T)'
            BY <3>1 DEF Covers
          <5>4. \A S : ReadFrom(S) => ReadFrom(S)'
            BY <3>1, <4>3 DEF ReadFrom
          <5>5. CASE d = c
            <6>1. step'[c] \in {"keep", "keepToken"} /\ (step'[c] = "keep" => step[c] = "auth")
              BY <3>1 DEF TypeOK
            <6>2. named[c] => step'[c] = "keepToken"
              BY <3>1, <5>1, <5>5, <6>1 DEF Held, TypeOK
            <6>3. named'[c] = named[c] /\ targets'[c] = targets[c] /\ shown'[c] = shown[c]
              BY <3>1
            <6> QED
              BY <3>1, <4>1, <4>2, <5>1, <5>2, <5>3, <5>5, <6>1, <6>2, <6>3 DEF Held
          <5>6. CASE d # c
            <6>1. /\ step'[d] = step[d] /\ named'[d] = named[d]
                  /\ pending'[d] = pending[d]
                  /\ targets'[d] = targets[d] /\ shown'[d] = shown[d]
              BY <3>1, <5>6 DEF TypeOK
            <6> QED
              BY <4>1, <5>1, <5>2, <5>3, <5>4, <6>1 DEF Held
          <5> QED
            BY <5>5, <5>6
        <4> QED
          BY <3>1, <3>2, <3>3, <4>4
      <3> QED
        BY <3>4, <3>5
    <2>6. ASSUME NEW c \in Callers, AuthKeep(c) PROVE LoginsHeld'
      <3>1. /\ step[c] \in {"keep", "keepToken"} /\ auth' = pending[c]
            /\ \E S : pending' = [pending EXCEPT ![c] = S]
            /\ step' = [step EXCEPT
                           ![c] = IF step[c] = "keep" THEN "auth" ELSE "token"]
            /\ UNCHANGED <<code, named, targets, readVars, shown>>
        BY <2>6 DEF AuthKeep
      <3>2. ~blank => ReadFrom(auth)'
        BY <2>0, <3>1 DEF Held
      <3> QED
        BY <2>0, <3>1, <3>2 DEF TypeOK, Held
    <2>7. ASSUME NEW c \in Callers, AuthAnswer(c) PROVE LoginsHeld'
      <3>1. /\ step[c] = "auth" /\ auth # None
            /\ step' = [step EXCEPT ![c] = "token"]
            /\ targets' = [targets EXCEPT ![c] = Update(targets[c], Labelled(auth))]
            /\ named' = [named EXCEPT ![c] = auth # {}]
            /\ UNCHANGED <<code, auth, pending, readVars, shown>>
        BY <2>7 DEF AuthAnswer
      <3>2. ASSUME ~blank PROVE Covers(targets[c])' /\ firstCode > 0
        <4>1. PICK k \in firstCode .. code : firstCode > 0 /\ auth = {Password, k}
          BY <3>1, <3>2 DEF ReadFrom
        <4>2. k # Password /\ Password \in auth /\ k \in auth
          BY <4>1 DEF TypeOK, Password
        <4>3. <<AuthLabel, Password>> \in Labelled(auth)
          BY <4>2 DEF Labelled
        <4>4. <<CodeLabel, k>> \in Labelled(auth)
          BY <4>2 DEF Labelled
        <4>5. targets'[c] = Update(targets[c], Labelled(auth))
          BY <3>1 DEF TypeOK
        <4> QED
          BY <3>1, <4>1, <4>3, <4>4, <4>5 DEF Covers, Update
      <3> QED
        BY <2>0, <3>1, <3>2 DEF TypeOK, Held
    <2>8. ASSUME NEW c \in Callers, TokenAnswer(c) PROVE LoginsHeld'
      <3> DEFINE T == IF auth = {} \/ \E p \in targets[c] : p[2] = Password
                      THEN targets[c]
                      ELSE Update(targets[c], {<<TokenLabel, Password>>})
      <3>1. /\ step[c] = "token" /\ step' = [step EXCEPT ![c] = "run"]
            /\ targets' = [targets EXCEPT ![c] = T]
            /\ UNCHANGED <<code, auth, pending, named, readVars, shown>>
        BY <2>8 DEF TokenAnswer
      <3>2. Covers(targets[c]) => Covers(T)
        <4>1. \A p \in targets[c] : p[1] # TokenLabel => p \in T
          BY DEF Update
        <4> HIDE DEF T
        <4> QED
          BY <4>1, LabelsAssumption DEF Covers
      <3> HIDE DEF T
      <3> QED
        BY <2>0, <3>1, <3>2 DEF TypeOK, Held
    <2>9. ASSUME NEW c \in Callers, Command(c) PROVE LoginsHeld'
      <3>1. PICK output \in SUBSET (({value[c]} \ {None}) \cup Config) :
                shown' = [shown EXCEPT ![c] = Scrub(c, output)]
        BY <2>9 DEF Command
      <3>2. /\ step[c] = "run" /\ step' = [step EXCEPT ![c] = "done"]
            /\ targets' = [targets EXCEPT ![c] = {}]
            /\ UNCHANGED <<code, auth, args, pending, named, readVars>>
        BY <2>9 DEF Command
      <3>3. ASSUME ~blank, named[c], NEW s \in Scrub(c, output) \cap Logins
            PROVE  s > firstCode
        <4>1. PICK k \in firstCode .. code : /\ <<AuthLabel, Password>> \in targets[c]
                                             /\ <<CodeLabel, k>> \in targets[c]
          BY <3>2, <3>3 DEF Held, Covers
        <4>2. s # Password /\ s # k
          BY <3>3, <4>1 DEF Scrub
        <4>3. s \in Config
          BY <3>1, <3>3, ValuesAssumption DEF Scrub, TypeOK, Logins
        <4>4. s = code
          BY <4>2, <4>3 DEF Config
        <4> QED
          BY <4>1, <4>2, <4>4 DEF TypeOK
      <3>4. \A d \in Callers : step'[d] # "done" => shown'[d] = {}
        BY <3>1, <3>2 DEF TypeOK
      <3>5. ASSUME ~blank, NEW d \in Callers PROVE Held(d)'
        <4>1. Held(d)
          BY <3>5
        <4>2. CASE d = c
          <5>1. shown'[c] = Scrub(c, output) /\ step'[c] = "done"
            BY <3>1, <3>2 DEF TypeOK
          <5> QED
            BY <3>2, <3>3, <3>5, <4>1, <4>2, <5>1 DEF Held
        <4>3. CASE d # c
          <5>1. /\ step'[d] = step[d] /\ shown'[d] = shown[d]
                /\ targets'[d] = targets[d]
                /\ pending'[d] = pending[d] /\ named'[d] = named[d]
            BY <3>1, <3>2, <4>3 DEF TypeOK
          <5> QED
            BY <2>0, <3>2, <4>1, <5>1 DEF Held
        <4> QED
          BY <4>2, <4>3
      <3> QED
        BY <2>0, <3>2, <3>4, <3>5
    <2>10. CASE People \/ UNCHANGED vars
      <3>1. UNCHANGED <<code, auth, step, pending, named, targets, readVars, shown>>
        BY <2>10 DEF People, Move, Rename, Rewrite, vars
      <3> QED
        BY <2>0, <3>1 DEF Held
    <2>11. CASE Rotate \/ LogIn
      <3>1. /\ code' = code + 1
            /\ UNCHANGED <<auth, step, pending, named, targets, readVars, shown>>
        BY <2>11 DEF Rotate, LogIn
      <3>2. code \in Nat /\ firstCode \in Nat
        BY DEF TypeOK
      <3>3. \A k \in firstCode .. code : k \in firstCode' .. code'
        BY <3>1, <3>2
      <3>4. /\ \A S : ReadFrom(S) => ReadFrom(S)'
            /\ \A T : Covers(T) => Covers(T)'
        BY <3>1, <3>3 DEF ReadFrom, Covers
      <3> QED
        BY <3>1, <3>2, <3>4 DEF Held
    <2> QED
      BY <2>1, <2>2, <2>3, <2>4, <2>5, <2>6, <2>7, <2>8, <2>9, <2>10, <2>11
         DEF Next, Resolving, Scrubbing, Refuse, GetNothing, KeeperFail, Reply
  <1> QED
    BY <1>1, <1>2, TypedHolds, PTL DEF Spec

\* Whatever threads raced to read the configuration, no login string that was in
\* it when it was first read is shown by a call that auth_secrets answered, if
\* no thread read it before there was a login.
THEOREM LoginsAreScrubbedHolds == Spec => []LoginsAreScrubbed
  <1>1. LoginsHeld => LoginsAreScrubbed
    BY DEF LoginsHeld, Held, LoginsAreScrubbed
  <1> QED
    BY <1>1, LoginsHeldHolds, PTL

=============================================================================
