------------------------------- MODULE Redact -------------------------------
(***************************************************************************)
(* What the agent sees of a command's output: the runner cuts it            *)
(* (sandbroker/runner.py), and Redactor.clean replaces in it the values     *)
(* that the call resolved, the base64 runs that contain one of them, and    *)
(* their encodings, one str.replace after the other (sandbroker/redact.py). *)
(*                                                                         *)
(* Base64 encodes a value in groups of Group characters, so a value inside  *)
(* a run is spelled differently at each offset.  The other encodings are    *)
(* left out: like the base64 form of a value, each is one more form.        *)
(***************************************************************************)
EXTENDS Naturals, Sequences, FiniteSets, SequencesExt, FiniteSetsExt

CONSTANTS
    Chars,     \* characters of values
    RunChars,  \* those of them that base64 is written with
    Symbols,   \* what a command may print: characters, groups and junk
    Values,    \* what secrets may be, <<>> among them
    NumNames,  \* variables, in the order the call names them
    Group,     \* characters that a group of base64 encodes
    MaxRun,    \* _B64_MAX: groups in a run
    Budget,    \* _B64_BUDGET: runs that are looked at
    Cap,       \* max_output_bytes
    MaxText    \* bound on the output

Names == 1 .. NumNames

\* A letter of the base64 alphabet that belongs to no group puts what follows
\* out of step, whether it is a character of a value or not, and bytes that are
\* not UTF-8 do not decode: Junk is either.
Plain(c)  == [kind |-> "plain", of |-> <<c>>]
Coded(cs) == [kind |-> "group", of |-> cs]
Junk      == [kind |-> "junk", of |-> <<>>]
Mark      == [kind |-> "mark", of |-> <<>>]

Printable ==
    {Plain(c) : c \in Chars} \cup {Junk}
        \cup {Coded(cs) : cs \in BoundedSeq(Chars, Group) \ {<<>>}}

ASSUME CharsAssumption   == RunChars \subseteq Chars
ASSUME SymbolsAssumption == Symbols \subseteq Printable
ASSUME ValuesAssumption  == Values \subseteq Seq(Chars)
ASSUME BoundsAssumption  ==
    {NumNames, Group, MaxRun, Budget, Cap, MaxText} \subseteq Nat \ {0}

First(s, n) == SubSeq(s, 1, Min({n, Len(s)}))

VARIABLES
    value,  \* the secret of each variable
    out,    \* what the command printed, as far as the runner keeps it
    text,   \* what is left of it: symbols, and where in out they were
    data,   \* what the pass over runs is given, <<>> before
    pass,   \* what clean does next
    todo    \* needles that the pass has not replaced yet

vars == <<value, out, text, data, pass, todo>>

Placed == [sym : Printable \cup {Mark}, at : 0 .. Cap]

TypeOK ==
    /\ value \in [Names -> Values]
    /\ out \in Seq(Symbols) /\ Len(out) <= Cap
    /\ text \in Seq(Placed) /\ data \in Seq(Placed)
    /\ pass \in {"values", "runs", "forms", "done"}
    /\ todo \in Seq(Seq(Printable) \ {<<>>})

-----------------------------------------------------------------------------
(* Needles.                                                                *)

Secrets == {value[n] : n \in Names} \ {<<>>}

\* The elements of S in the order that Before is: the i-th has i - 1 before it.
Sorted(S, Before(_, _)) ==
    [i \in 1 .. Cardinality(S) |->
        CHOOSE x \in S : Cardinality({y \in S : Before(y, x)}) = i - 1]

Spell(v) == [i \in DOMAIN v |-> Plain(v[i])]

Encode(v) ==
    [j \in 1 .. (Len(v) + Group - 1) \div Group |->
        Coded(SubSeq(v, (j - 1) * Group + 1, Min({j * Group, Len(v)})))]

\* Mutant of Longer: the shortest first.
Shorter(m, n) ==
    \/ Len(value[m]) < Len(value[n])
    \/ Len(value[m]) = Len(value[n]) /\ m < n

\* Redactor.__init__: the longest value first, of equal ones the first named.
Longer(m, n) ==
    \/ Len(value[m]) > Len(value[n])
    \/ Len(value[m]) = Len(value[n]) /\ m < n

\* Mutant of InOrder: an empty value is not left out.
InOrderAll == Sorted(Names, Longer)

InOrder == Sorted({n \in Names : value[n] # <<>>}, Longer)

ValueNeedles == [i \in DOMAIN InOrder |-> Spell(value[InOrder[i]])]

\* Mutant of FormNeedles: the values themselves are the only forms.
FormNeedlesPlain == ValueNeedles

\* _encodings of every value, the longest first: a group is written with one
\* letter more than it encodes.
FormNeedles ==
    LET forms == {n \in Names : value[n] # <<>>} \X {"coded", "plain"}
        spelled(p) == IF p[2] = "coded" THEN Encode(value[p[1]])
                      ELSE Spell(value[p[1]])
        letters(p) == Len(spelled(p)) * (IF p[2] = "coded" THEN Group + 1 ELSE 1)
        before(p, q) == \/ letters(p) > letters(q)
                        \/ letters(p) = letters(q) /\ Longer(p[1], q[1])
        ordered == Sorted(forms, before)
    IN  [i \in DOMAIN ordered |-> spelled(ordered[i])]

-----------------------------------------------------------------------------
(* Replacing.                                                              *)

Occurs(needle, t, i) ==
    /\ i + Len(needle) - 1 <= Len(t)
    /\ \A k \in DOMAIN needle : t[i + k - 1] = needle[k]

Symbol(t) == [i \in DOMAIN t |-> t[i].sym]

\* str.replace: every occurrence, from left to right, that does not overlap the
\* one before.
Replace(t, needle) ==
    LET rest[i \in 1 .. Len(t) + 1] ==
            IF i > Len(t) THEN <<>>
            ELSE IF Occurs(needle, Symbol(t), i)
                 THEN <<[sym |-> Mark, at |-> 0]>> \o rest[i + Len(needle)]
                 ELSE <<t[i]>> \o rest[i + 1]
    IN  rest[1]

InRun(s) ==
    s.kind \in {"group", "junk"} \/ \E c \in RunChars : s = Plain(c)

Span(s) == [first : DOMAIN s, last : DOMAIN s]

\* The stretches of symbols that belong to runs, each as long as it can be.
Stretches(s) ==
    {r \in Span(s) :
        /\ r.first <= r.last
        /\ \A k \in r.first .. r.last : InRun(s[k])
        /\ r.first = 1 \/ ~InRun(s[r.first - 1])
        /\ r.last = Len(s) \/ ~InRun(s[r.last + 1])}

\* _B64_RUN.finditer, each run from its first to its last symbol: a stretch is
\* cut into runs of MaxRun symbols and what is left of it.
Runs(s) ==
    LET stretches == Stretches(s)
    IN  {p \in Span(s) :
            \E r \in stretches :
                /\ r.first <= p.first /\ p.first <= p.last
                /\ (p.first - r.first) % MaxRun = 0
                /\ p.last = Min({p.first + MaxRun - 1, r.last})}

\* The runs that the budget is enough for.
Looked(s) ==
    LET runs == Runs(s)
    IN  {p \in runs : Cardinality({q \in runs : q.first < p.first}) < Budget}

Spelling(s, p) == SubSeq(s, p.first, p.last)

\* b64decode, which stops at a group that is padded; <<>> if what it reads is
\* out of step or no text.
Decoded(run) ==
    LET short == {i \in DOMAIN run : Len(run[i].of) < Group}
        last  == IF short = {} THEN Len(run) ELSE Min(short)
    IN  IF \E i \in 1 .. last : run[i].kind # "group" THEN <<>>
        ELSE FlattenSeq([i \in 1 .. last |-> run[i].of])

Within(v, s) == \E i \in DOMAIN s : Occurs(v, s, i)

HoldsSecret(run) == \E v \in Secrets : Within(v, Decoded(run))

Earlier(p, q) == p.first < q.first

\* The runs that hold a secret.
Holders(s) == {p \in Looked(s) : HoldsSecret(Spelling(s, p))}

\* What is replaced for a set of runs, in their order.
InTurn(S, s) ==
    LET ordered == Sorted(S, Earlier)
    IN  [i \in DOMAIN ordered |-> Spelling(s, ordered[i])]

\* Mutants of Hits: a run that does not decode ends the pass; each run that
\* does decode is replaced.
HitsUntilJunk(s) ==
    LET junk == {q \in Looked(s) : Decoded(Spelling(s, q)) = <<>>}
    IN  InTurn({p \in Holders(s) : ~ \E q \in junk : Earlier(q, p)}, s)

HitsText(s) == InTurn({p \in Looked(s) : Decoded(Spelling(s, p)) # <<>>}, s)

\* _scrub_b64_wrappers, for each run that holds a secret.
Hits(s) == InTurn(Holders(s), s)

-----------------------------------------------------------------------------
(* Redactor.clean.                                                         *)

\* run: what the command printed is cut first.
Init ==
    /\ value \in [Names -> Values]
    /\ \E printed \in BoundedSeq(Symbols, MaxText) :
          out = First(printed, Cap)
    /\ text = [i \in DOMAIN out |-> [sym |-> out[i], at |-> i]]
    /\ data = <<>>
    /\ pass = "values" /\ todo = ValueNeedles

\* One replacement, of a value, of a whole run, or of a form.
ReplaceNext ==
    /\ todo # <<>>
    /\ text' = Replace(text, Head(todo))
    /\ todo' = Tail(todo)
    /\ UNCHANGED <<value, out, data, pass>>

\* The runs of the data as it is before any of them is replaced, but after the
\* values have been: a value in a run breaks it.
StartRuns ==
    /\ pass = "values" /\ todo = <<>>
    /\ data' = text
    /\ todo' = Hits(Symbol(text))
    /\ pass' = "runs"
    /\ UNCHANGED <<value, out, text>>

\* scrub, of the decoded text.
StartForms ==
    /\ pass = "runs" /\ todo = <<>>
    /\ todo' = FormNeedles
    /\ pass' = "forms"
    /\ UNCHANGED <<value, out, text, data>>

Finish ==
    /\ pass = "forms" /\ todo = <<>>
    /\ pass' = "done"
    /\ UNCHANGED <<value, out, text, data, todo>>

Next == ReplaceNext \/ StartRuns \/ StartForms \/ Finish

Spec == Init /\ [][Next]_vars

-----------------------------------------------------------------------------
(* Properties.                                                             *)

Left == {text[i].at : i \in DOMAIN text} \ {0}

\* Where in the output a value is spelled or encoded.
Places(needle) ==
    {i .. i + Len(needle) - 1 :
        i \in {j \in DOMAIN out : Occurs(needle, out, j)}}

\* "Any byte sequence this process resolved from the vault is stripped out of
\* the data" (Redactor): no value is left, and none in its encoding.
NoSecretIsLeft ==
    pass = "done" =>
        \A v \in Secrets :
            ~Within(Spell(v), Symbol(text)) /\ ~Within(Encode(v), Symbol(text))

\* A value is replaced whole, although another may be a part of it: nothing is
\* left of an occurrence, unless another one overlaps it (Redactor.__init__).
ValuesGoWhole ==
    pass = "done" =>
        LET all == UNION {Places(Spell(v)) : v \in Secrets}
            lone == {p \in all : \A q \in all :
                        p \cap q = {} \/ p \subseteq q \/ q \subseteq p}
        IN  \A p \in lone : p \cap Left = {}

\* The runs that the pass finds to hold a secret, what they say, and where in
\* the output they are.
Found    == Holders(Symbol(data))
Run(p)   == Spelling(Symbol(data), p)
Where(p) == {data[k].at : k \in p.first .. p.last}

\* No run that was found to hold a secret is returned as it was, and it is gone
\* as a whole unless such a run is spelled in a part of it: "replace the whole
\* run -- the wrapper is unsalvageable once part of it is secret"
\* (_scrub_b64_wrappers).
FoundRunsGo ==
    pass = "done" =>
        LET places == UNION {Places(Run(p)) : p \in Found} IN
        \A p \in Found :
            /\ ~(Where(p) \subseteq Left)
            /\ (\A q \in places : q \cap Where(p) = {} \/ Where(p) \subseteq q)
                   => Where(p) \cap Left = {}

\* "Catch a secret hiding one base64 layer down" (_scrub_b64_wrappers): of what
\* is left, no run that the pass would look at holds a secret.
NoWrappedSecretIsLeft == pass = "done" => Hits(Symbol(text)) = <<>>

\* "Nothing else" (Redactor): what is missing from the output was a value, the
\* encoding of one, or part of a run that holds one, and the rest is in order.
OnlySecretsGo ==
    pass = "done" =>
        LET places == UNION ({Places(Spell(v)) : v \in Secrets}
                             \cup {Places(Encode(v)) : v \in Secrets}
                             \cup {Places(Run(p)) : p \in Found})
            kept == {i \in DOMAIN text : text[i].at # 0}
        IN  /\ \A i \in DOMAIN out \ Left : \E p \in places : i \in p
            /\ \A i \in kept : text[i].sym = out[text[i].at]
            /\ \A i, j \in kept : i < j => text[i].at < text[j].at

=============================================================================
