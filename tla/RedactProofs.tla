---------------------------- MODULE RedactProofs ----------------------------
(***************************************************************************)
(* What holds of Redact for all values, outputs, lengths of a run and      *)
(* budgets: its types, that no secret is left, and that what is replaced   *)
(* is replaced whole and was a secret.                                     *)
(***************************************************************************)
EXTENDS Redact, FiniteSetTheorems, FunctionTheorems, WellFoundedInduction,
        SequenceTheorems, TLAPS

-----------------------------------------------------------------------------
(* Induction over Nat, and the elements of a set in order.                  *)

\* A set with 0 and the successor of each of its numbers has every number: a
\* number that is missing would give an interval 0 .. k, of those whose last
\* number is missing, without a smaller one.
LEMMA NatSet ==
    ASSUME NEW S, 0 \in S, \A n \in Nat : n \in S => n + 1 \in S
    PROVE  \A n \in Nat : n \in S
  <1> SUFFICES ASSUME NEW n \in Nat, n \notin S PROVE FALSE
    OBVIOUS
  <1> DEFINE T == {0 .. k : k \in {m \in 0 .. n : m \notin S}}
  <1>1. T \subseteq FiniteSubsetsOf(Nat) /\ T # {}
    <2>1. \A k \in 0 .. n : IsFiniteSet(0 .. k) /\ 0 .. k \in SUBSET Nat
      BY FS_Interval
    <2>2. n \in {m \in 0 .. n : m \notin S}
      OBVIOUS
    <2> QED
      BY <2>1, <2>2 DEF FiniteSubsetsOf
  <1>2. PICK x \in T : \A y \in T : <<y, x>> \notin StrictSubsetOrdering(Nat)
    <2> HIDE DEF T
    <2> QED
      BY <1>1, WFMin, FS_StrictSubsetOrderingWellFounded
  <1>3. PICK k \in 0 .. n : k \notin S /\ x = 0 .. k
    BY <1>2
  <1>4. k # 0 /\ k - 1 \in 0 .. n /\ k - 1 \notin S
    BY <1>3
  <1>5. 0 .. (k - 1) \in T
    BY <1>4
  <1>6. 0 .. (k - 1) \subseteq 0 .. k /\ k \in 0 .. k /\ k \notin 0 .. (k - 1)
    BY <1>3
  <1>7. <<0 .. (k - 1), 0 .. k>> \in StrictSubsetOrdering(Nat)
    BY <1>6 DEF StrictSubsetOrdering
  <1> QED
    BY <1>2, <1>3, <1>5, <1>7

\* R orders S.
Orders(R, S) ==
    /\ \A x, y, z \in S : <<x, y>> \in R /\ <<y, z>> \in R => <<x, z>> \in R
    /\ \A x, y \in S : x # y => <<x, y>> \in R \/ <<y, x>> \in R
    /\ \A x \in S : <<x, x>> \notin R

Before(R, S, x) == {y \in S : <<y, x>> \in R}

Ranked(s, R, S) ==
    /\ s \in [1 .. Cardinality(S) -> S]
    /\ \A i \in 1 .. Cardinality(S) : Cardinality(Before(R, S, s[i])) = i - 1

\* Each rank has an element; ranked, every element comes once, and after those
\* that are before it.
LEMMA RankOrders ==
    ASSUME NEW S, IsFiniteSet(S), NEW R, Orders(R, S)
    PROVE  /\ \A i \in 1 .. Cardinality(S) :
                 \E x \in S : Cardinality(Before(R, S, x)) = i - 1
           /\ \A s : Ranked(s, R, S) =>
                 /\ \A x \in S : \E i \in 1 .. Cardinality(S) : s[i] = x
                 /\ \A i, j \in 1 .. Cardinality(S) :
                       i < j => <<s[i], s[j]>> \in R
  <1> DEFINE n == Cardinality(S)
             b(x) == Before(R, S, x)
             f == [x \in S |-> Cardinality(b(x)) + 1]
  <1>1. n \in Nat
    BY FS_CardinalityType
  <1>2. ASSUME NEW x \in S
        PROVE  /\ IsFiniteSet(b(x)) /\ b(x) \in SUBSET S /\ x \notin b(x)
               /\ Cardinality(b(x)) \in Nat /\ Cardinality(b(x)) + 1 \in 1 .. n
    <2>1. b(x) \in SUBSET S /\ x \notin b(x)
      BY DEF Before, Orders
    <2> HIDE DEF b
    <2>2. IsFiniteSet(b(x)) /\ Cardinality(b(x)) <= n
      BY <2>1, FS_Subset
    <2>3. Cardinality(b(x)) = n => S = b(x)
      BY <2>1, FS_Subset
    <2>4. Cardinality(b(x)) \in Nat
      BY <2>2, FS_CardinalityType
    <2>5. Cardinality(b(x)) # n
      BY <2>1, <2>3
    <2> HIDE DEF n
    <2> QED
      BY <1>1, <2>1, <2>2, <2>4, <2>5
  <1>3. ASSUME NEW x \in S, NEW y \in S, <<x, y>> \in R
        PROVE  Cardinality(b(x)) < Cardinality(b(y))
    <2>1. b(x) \in SUBSET b(y) /\ x \in b(y)
      BY <1>3 DEF Before, Orders
    <2>2. x \notin b(x) /\ IsFiniteSet(b(y))
         /\ Cardinality(b(x)) \in Nat /\ Cardinality(b(y)) \in Nat
      BY <1>2
    <2> HIDE DEF b
    <2>3. /\ Cardinality(b(x)) <= Cardinality(b(y))
          /\ Cardinality(b(y)) = Cardinality(b(x)) => b(y) = b(x)
      BY <2>1, <2>2, FS_Subset
    <2> QED
      BY <2>1, <2>2, <2>3
  <1> HIDE DEF n, b
  <1>4. f \in [S -> 1 .. n]
    BY <1>2
  <1>5. \A x, y \in S : f[x] = f[y] => x = y
    <2> SUFFICES ASSUME NEW x \in S, NEW y \in S, x # y PROVE f[x] # f[y]
      OBVIOUS
    <2>1. Cardinality(b(x)) \in Nat /\ Cardinality(b(y)) \in Nat
      BY <1>2
    <2>2. <<x, y>> \in R \/ <<y, x>> \in R
      BY DEF Orders
    <2>3. Cardinality(b(x)) # Cardinality(b(y))
      BY <1>3, <2>1, <2>2
    <2> QED
      BY <2>1, <2>3
  <1>6. \A i \in 1 .. n : \E x \in S : f[x] = i
    <2> HIDE DEF f
    <2>1. f \in Injection(S, 1 .. n)
      BY <1>4, <1>5, Fun_IsInj
    <2>2. IsFiniteSet(1 .. n) /\ Cardinality(1 .. n) = n
      BY <1>1, FS_Interval
    <2>3. Cardinality(S) = Cardinality(1 .. n)
      BY <2>2 DEF n
    <2>4. f \in Surjection(S, 1 .. n)
      BY <2>1, <2>2, <2>3, FS_Injection
    <2> QED
      BY <2>4, Fun_SurjectionProperties
  <1>7. ASSUME NEW i \in 1 .. n
        PROVE  \E x \in S : Cardinality(b(x)) = i - 1
    <2>1. PICK x \in S : f[x] = i
      BY <1>6
    <2>2. Cardinality(b(x)) = i - 1
      BY <1>2, <2>1
    <2> QED
      BY <2>2
  <1>8. ASSUME NEW s, Ranked(s, R, S)
        PROVE  /\ \A x \in S : \E i \in 1 .. n : s[i] = x
               /\ \A i, j \in 1 .. n : i < j => <<s[i], s[j]>> \in R
    <2>1. ASSUME NEW i \in 1 .. n PROVE s[i] \in S /\ f[s[i]] = i
      <3>1. s[i] \in S /\ Cardinality(b(s[i])) = i - 1
        BY <1>8 DEF Ranked, n, b
      <3> QED
        BY <3>1
    <2>2. ASSUME NEW x \in S PROVE f[x] \in 1 .. n /\ s[f[x]] = x
      <3>1. f[x] \in 1 .. n
        BY <1>4
      <3>2. s[f[x]] \in S /\ f[s[f[x]]] = f[x]
        BY <2>1, <3>1
      <3> QED
        BY <1>5, <3>1, <3>2
    <2>3. ASSUME NEW i \in 1 .. n, NEW j \in 1 .. n, i < j
          PROVE  <<s[i], s[j]>> \in R
      <3>1. s[i] \in S /\ s[j] \in S /\ f[s[i]] = i /\ f[s[j]] = j
        BY <2>1
      <3>2. s[i] # s[j]
        BY <2>3, <3>1
      <3>3. ASSUME <<s[j], s[i]>> \in R PROVE FALSE
        <4>1. Cardinality(b(s[j])) < Cardinality(b(s[i]))
          BY <1>3, <3>1, <3>3
        <4>2. Cardinality(b(s[j])) \in Nat /\ Cardinality(b(s[i])) \in Nat
          BY <1>2, <3>1
        <4>3. Cardinality(b(s[j])) + 1 = j /\ Cardinality(b(s[i])) + 1 = i
          BY <3>1
        <4> QED
          BY <2>3, <4>1, <4>2, <4>3
      <3> QED
        BY <3>1, <3>2, <3>3 DEF Orders
    <2> HIDE DEF f
    <2> QED
      BY <2>2, <2>3
  <1> QED
    BY <1>7, <1>8 DEF n, b

LEMMA Bounds ==
    /\ NumNames \in Nat \ {0} /\ Group \in Nat \ {0} /\ MaxRun \in Nat \ {0}
    /\ Budget \in Nat \ {0} /\ Cap \in Nat \ {0}
  BY BoundsAssumption

LEMMA FunIsSeq ==
    ASSUME NEW V, NEW n \in Nat, NEW f \in [1 .. n -> V]
    PROVE  f \in Seq(V) /\ Len(f) = n
  BY SeqDef

LEMMA SeqShrinks ==
    ASSUME NEW V, NEW s \in Seq(V), s # <<>>
    PROVE  /\ Head(s) \in V /\ Tail(s) \in Seq(V)
           /\ Len(Tail(s)) = Len(s) - 1 /\ Len(s) \in Nat \ {0}
           /\ s[1] = Head(s)
           /\ \A i \in 1 .. Len(s) - 1 : Tail(s)[i] = s[i + 1]
  BY HeadTailProperties, LenProperties

-----------------------------------------------------------------------------
(* The recursive function of Replace.                                       *)

Blank       == [sym |-> Mark, at |-> 0]
Put(x, s)   == <<x>> \o s
Needle      == Seq(Printable) \ {<<>>}

\* What f says of the text from i on, if it says what follows of the text
\* behind i.
ScanStep(f, t, n, i) ==
    IF i > Len(t) THEN <<>>
    ELSE IF Occurs(n, Symbol(t), i) THEN Put(Blank, f[i + Len(n)])
         ELSE Put(t[i], f[i + 1])

Scans(f, t, n) == \A i \in 1 .. Len(t) + 1 : f[i] = ScanStep(f, t, n, i)

LEMMA CatIs ==
    ASSUME NEW V, NEW s \in Seq(V), NEW t \in Seq(V)
    PROVE  /\ s \o t \in Seq(V) /\ Len(s \o t) = Len(s) + Len(t)
           /\ \A i \in 1 .. Len(s) : (s \o t)[i] = s[i]
           /\ \A i \in 1 .. Len(t) : (s \o t)[Len(s) + i] = t[i]
  BY ConcatProperties, LenProperties

LEMMA PutIs ==
    ASSUME NEW V, NEW x \in V, NEW s \in Seq(V)
    PROVE  /\ Put(x, s) \in Seq(V) /\ Len(Put(x, s)) = Len(s) + 1
           /\ Put(x, s)[1] = x
           /\ \A k \in 1 .. Len(s) : Put(x, s)[k + 1] = s[k]
  <1>1. <<x>> \in Seq(V) /\ Len(<<x>>) = 1 /\ <<x>>[1] = x
    OBVIOUS
  <1> DEFINE u == <<x>>
  <1> HIDE DEF u
  <1>2. u \in Seq(V) /\ Len(u) = 1 /\ u[1] = x
    BY <1>1 DEF u
  <1>3. Len(s) \in Nat
    BY LenProperties
  <1>4. /\ u \o s \in Seq(V) /\ Len(u \o s) = 1 + Len(s)
        /\ (u \o s)[1] = x
        /\ \A k \in 1 .. Len(s) : (u \o s)[1 + k] = s[k]
    BY <1>2, CatIs
  <1> HIDE DEF u
  <1> QED
    BY <1>3, <1>4 DEF Put, u

LEMMA NeedleIs ==
    ASSUME NEW n \in Needle
    PROVE  /\ n \in Seq(Printable) /\ Len(n) \in Nat \ {0}
           /\ DOMAIN n = 1 .. Len(n) /\ 1 \in DOMAIN n
           /\ \A k \in DOMAIN n : n[k] \in Printable
  BY LenProperties, EmptySeq, ElementOfSeq DEF Needle

LEMMA SymbolIs ==
    ASSUME NEW t \in Seq(Placed)
    PROVE  /\ Len(t) \in Nat /\ DOMAIN t = 1 .. Len(t)
           /\ \A i \in 1 .. Len(t) : Symbol(t)[i] = t[i].sym /\ t[i] \in Placed
           /\ Symbol(t) \in Seq(Printable \cup {Mark})
           /\ Len(Symbol(t)) = Len(t) /\ DOMAIN Symbol(t) = 1 .. Len(t)
  <1>1. Len(t) \in Nat /\ DOMAIN t = 1 .. Len(t)
    BY LenProperties
  <1>2. \A i \in 1 .. Len(t) : t[i] \in Placed
    BY <1>1, ElementOfSeq
  <1>3. \A i \in 1 .. Len(t) : Symbol(t)[i] = t[i].sym
    BY <1>1 DEF Symbol
  <1>4. Symbol(t) = [i \in 1 .. Len(t) |-> t[i].sym]
    BY <1>1 DEF Symbol
  <1>5. \A i \in 1 .. Len(t) : t[i].sym \in Printable \cup {Mark}
    BY <1>2 DEF Placed
  <1>6. Symbol(t) \in [1 .. Len(t) -> Printable \cup {Mark}]
    BY <1>4, <1>5
  <1> QED
    BY <1>1, <1>2, <1>3, <1>4, <1>6, FunIsSeq

LEMMA ScanExists ==
    ASSUME NEW t \in Seq(Placed), NEW n \in Needle
    PROVE  \E f : f = [i \in 1 .. Len(t) + 1 |-> ScanStep(f, t, n, i)]
  <1> DEFINE N == Len(t)
             Good(f, m) == \A i \in 1 .. N + 1 :
                              i + m > N + 1 => f[i] = ScanStep(f, t, n, i)
             Whole(f) == f = [i \in 1 .. N + 1 |-> f[i]]
             S == {m \in Nat : \E f : Good(f, m) /\ Whole(f)}
  <1>1. N \in Nat /\ Len(n) \in Nat \ {0}
    BY NeedleIs, SymbolIs
  <1> HIDE DEF N
  <1>2. 0 \in S
    <2> DEFINE f == [i \in 1 .. N + 1 |-> <<>>]
    <2>1. Whole(f)
      OBVIOUS
    <2>2. Good(f, 0)
      BY <1>1
    <2> HIDE DEF f, Good, Whole
    <2> QED
      BY <2>1, <2>2
  <1>3. ASSUME NEW m \in Nat, m \in S PROVE m + 1 \in S
    <2>1. PICK f : Good(f, m) /\ Whole(f)
      BY <1>3
    <2> DEFINE k == N + 1 - m
               g == [i \in 1 .. N + 1 |->
                        IF i = k THEN ScanStep(f, t, n, k) ELSE f[i]]
    <2>2. ASSUME NEW i \in 1 .. N + 1, i + (m + 1) > N + 1
          PROVE  g[i] = ScanStep(g, t, n, i)
      <3>1. i >= k
        BY <1>1, <2>2
      <3>2. g[i] = ScanStep(f, t, n, i)
        BY <1>1, <2>1, <2>2
      <3>3. i <= N => g[i + 1] = f[i + 1]
        BY <1>1, <3>1
      <3>4. i <= N /\ Occurs(n, Symbol(t), i) => g[i + Len(n)] = f[i + Len(n)]
        <4> SUFFICES ASSUME i <= N, Occurs(n, Symbol(t), i)
                     PROVE  g[i + Len(n)] = f[i + Len(n)]
          OBVIOUS
        <4>1. i + Len(n) - 1 <= N
          BY SymbolIs DEF Occurs, N
        <4>2. i + Len(n) \in 1 .. N + 1 /\ i + Len(n) # k
          BY <1>1, <3>1, <4>1
        <4> QED
          BY <4>2
      <3> HIDE DEF g, k
      <3> QED
        BY <1>1, <3>2, <3>3, <3>4 DEF ScanStep, N
    <2>3. Whole(g)
      OBVIOUS
    <2>4. Good(g, m + 1)
      BY <2>2
    <2> HIDE DEF g, Good, Whole
    <2> QED
      BY <2>3, <2>4
  <1>4. N + 1 \in S
    <2> HIDE DEF S
    <2> QED
      BY <1>1, <1>2, <1>3, NatSet
  <1>5. PICK f : Good(f, N + 1) /\ Whole(f)
    BY <1>4
  <1>6. \A i \in 1 .. N + 1 : f[i] = ScanStep(f, t, n, i)
    BY <1>1, <1>5
  <1>7. f = [i \in 1 .. N + 1 |-> ScanStep(f, t, n, i)]
    <2> DEFINE h == [i \in 1 .. N + 1 |-> ScanStep(f, t, n, i)]
    <2>1. \A i \in 1 .. N + 1 : f[i] = h[i]
      BY <1>6
    <2> HIDE DEF Good
    <2>2. f = h
      BY <1>5, <2>1
    <2> QED
      BY <2>2
  <1> QED
    BY <1>7 DEF N

LEMMA ReplaceScans ==
    ASSUME NEW t \in Seq(Placed), NEW n \in Needle
    PROVE  \E f : Scans(f, t, n) /\ Replace(t, n) = f[1]
  <1> DEFINE rest == CHOOSE f : f = [i \in 1 .. Len(t) + 1 |-> ScanStep(f, t, n, i)]
  <1>1. Replace(t, n) = rest[1]
    BY DEF Replace, ScanStep, Put, Blank
  <1>2. rest = [i \in 1 .. Len(t) + 1 |-> ScanStep(rest, t, n, i)]
    BY ScanExists
  <1> HIDE DEF rest
  <1>3. Scans(rest, t, n)
    <2> DEFINE h == [i \in 1 .. Len(t) + 1 |-> ScanStep(rest, t, n, i)]
    <2>1. \A i \in 1 .. Len(t) + 1 : h[i] = ScanStep(rest, t, n, i)
      OBVIOUS
    <2>2. rest = h
      BY <1>2
    <2> QED
      BY <2>1, <2>2 DEF Scans
  <1> QED
    BY <1>1, <1>3

-----------------------------------------------------------------------------
(* What is left of the output o in a text t: what was next to each other     *)
(* is, unless something between them is gone, and then a mark is there.      *)

LeftOf(t) == {t[i].at : i \in DOMAIN t} \ {0}

Follows(t) ==
    /\ \A i, j \in DOMAIN t :
          t[i].at # 0 /\ t[j].at # 0 /\ i < j => t[i].at < t[j].at
    /\ \A i, j \in DOMAIN t :
          t[i].at # 0 /\ t[j].at # 0 /\ j = i + 1 => t[j].at = t[i].at + 1
    /\ \A i, j \in DOMAIN t :
          t[i].at # 0 /\ t[j].at = t[i].at + 1 => j = i + 1

Is(x, o) ==
    /\ x \in Placed
    /\ x.at = 0 => x = Blank
    /\ x.at # 0 => x.at \in DOMAIN o /\ x.sym = o[x.at]

Woven(t, o) ==
    /\ t \in Seq(Placed)
    /\ \A i \in DOMAIN t : Is(t[i], o)
    /\ Follows(t)

LEMMA LeftIs ==
    ASSUME NEW t \in Seq(Placed)
    PROVE  /\ \A i \in 1 .. Len(t) : t[i].at \in Nat
           /\ \A i \in 1 .. Len(t) : t[i].at # 0 => t[i].at \in LeftOf(t)
           /\ \A a \in LeftOf(t) :
                 a \in Nat \ {0} /\ \E i \in 1 .. Len(t) : t[i].at = a
  <1>1. DOMAIN t = 1 .. Len(t) /\ \A i \in 1 .. Len(t) : t[i].at \in 0 .. Cap
    BY SymbolIs DEF Placed
  <1>2. \A i \in 1 .. Len(t) : t[i].at \in Nat
    BY <1>1, Bounds
  <1>3. \A a \in LeftOf(t) : a # 0 /\ \E i \in 1 .. Len(t) : t[i].at = a
    BY <1>1 DEF LeftOf
  <1> QED
    BY <1>1, <1>2, <1>3 DEF LeftOf

\* What goes before r: a mark, or the symbol that was before it.
Fits(x, r) ==
    x.at # 0 =>
        /\ \A a \in LeftOf(r) : x.at < a
        /\ r # <<>> /\ r[1].at # 0 => r[1].at = x.at + 1
        /\ x.at + 1 \in LeftOf(r) => r # <<>> /\ r[1].at = x.at + 1

LEMMA PutFits ==
    ASSUME NEW o, NEW r, Woven(r, o), NEW x, Is(x, o), Fits(x, r)
    PROVE  /\ Woven(Put(x, r), o)
           /\ LeftOf(Put(x, r)) = LeftOf(r) \cup ({x.at} \ {0})
           /\ Put(x, r) # <<>> /\ Put(x, r)[1] = x
  <1> DEFINE p == Put(x, r)
             n == Len(r)
  <1>1. r \in Seq(Placed) /\ x \in Placed /\ n \in Nat /\ DOMAIN r = 1 .. n
    BY SymbolIs DEF Woven, Is
  <1>2. /\ p \in Seq(Placed) /\ Len(p) = n + 1 /\ DOMAIN p = 1 .. n + 1
        /\ p[1] = x /\ \A k \in 1 .. n : p[k + 1] = r[k]
    <2> HIDE DEF p, n
    <2>1. /\ p \in Seq(Placed) /\ Len(p) = Len(r) + 1
          /\ p[1] = x /\ \A k \in 1 .. Len(r) : p[k + 1] = r[k]
      BY <1>1, PutIs DEF p
    <2> USE DEF n
    <2> QED
      BY <2>1, SymbolIs
  <1>3. \A i \in 1 .. n + 1 : i # 1 => i - 1 \in 1 .. n /\ p[i] = r[i - 1]
    BY <1>1, <1>2
  <1>4. p # <<>>
    BY <1>1, <1>2, EmptySeq
  <1>5. \A i \in 1 .. n : r[i].at \in Nat /\ (r[i].at # 0 => r[i].at \in LeftOf(r))
    BY <1>1, LeftIs
  <1>6. x.at \in Nat
    BY <1>1 DEF Placed
  <1>7. \A i \in 1 .. n + 1 : Is(p[i], o)
    <2>1. \A i \in 1 .. n : Is(r[i], o)
      BY <1>1 DEF Woven
    <2> QED
      BY <1>2, <1>3, <2>1
  <1>8. n # 0 <=> r # <<>>
    BY <1>1, EmptySeq
  <1> HIDE DEF p, n
  <1>9. Follows(p)
    <2>1. ASSUME NEW i \in 1 .. n + 1, NEW j \in 1 .. n + 1,
                 p[i].at # 0, p[j].at # 0, i < j
          PROVE  p[i].at < p[j].at
      <3>1. j # 1 /\ j - 1 \in 1 .. n /\ p[j] = r[j - 1]
        BY <1>1, <1>3, <2>1
      <3>2. CASE i = 1
        BY <1>2, <1>5, <2>1, <3>1, <3>2 DEF Fits
      <3>3. CASE i # 1
        <4>1. i - 1 \in 1 .. n /\ p[i] = r[i - 1] /\ i - 1 < j - 1
          BY <1>1, <1>3, <2>1, <3>3
        <4> QED
          BY <1>1, <2>1, <3>1, <4>1 DEF Woven, Follows
      <3> QED
        BY <3>2, <3>3
    <2>2. ASSUME NEW i \in 1 .. n + 1, NEW j \in 1 .. n + 1,
                 p[i].at # 0, p[j].at # 0, j = i + 1
          PROVE  p[j].at = p[i].at + 1
      <3>1. j # 1 /\ j - 1 \in 1 .. n /\ p[j] = r[j - 1]
        BY <1>1, <1>3, <2>2
      <3>2. CASE i = 1
        BY <1>1, <1>2, <1>8, <2>2, <3>1, <3>2 DEF Fits
      <3>3. CASE i # 1
        <4>1. i - 1 \in 1 .. n /\ p[i] = r[i - 1] /\ j - 1 = (i - 1) + 1
          BY <1>1, <1>3, <2>2, <3>3
        <4> QED
          BY <1>1, <2>2, <3>1, <4>1 DEF Woven, Follows
      <3> QED
        BY <3>2, <3>3
    <2>3. ASSUME NEW i \in 1 .. n + 1, NEW j \in 1 .. n + 1,
                 p[i].at # 0, p[j].at = p[i].at + 1
          PROVE  j = i + 1
      <3>1. CASE i = 1
        <4>1. p[i] = x /\ j # 1
          BY <1>2, <1>6, <2>3, <3>1
        <4>2. j - 1 \in 1 .. n /\ p[j] = r[j - 1]
          BY <1>3, <4>1
        <4>3. r[j - 1].at = x.at + 1 /\ r[j - 1].at # 0
          BY <1>6, <2>3, <4>1, <4>2
        <4>4. x.at + 1 \in LeftOf(r)
          BY <1>5, <4>2, <4>3
        <4>5. r[1].at = x.at + 1 /\ r[1].at # 0 /\ 1 \in 1 .. n
          BY <1>1, <1>6, <1>8, <2>3, <4>1, <4>4 DEF Fits
        <4>6. j - 1 = 1
          <5> SUFFICES ASSUME j - 1 # 1 PROVE FALSE
            OBVIOUS
          <5>1. r[1].at < r[j - 1].at
            BY <1>1, <4>2, <4>3, <4>5 DEF Woven, Follows
          <5> QED
            BY <1>5, <4>2, <4>3, <4>5, <5>1
        <4> QED
          BY <3>1, <4>6
      <3>2. CASE i # 1
        <4>1. i - 1 \in 1 .. n /\ p[i] = r[i - 1]
          BY <1>3, <3>2
        <4>2. CASE j = 1
          <5>1. p[i].at \in LeftOf(r) /\ p[j] = x /\ x.at = p[i].at + 1
            BY <1>2, <1>5, <2>3, <4>1, <4>2
          <5>2. x.at < p[i].at
            BY <1>5, <1>6, <2>3, <4>1, <5>1 DEF Fits
          <5> QED
            BY <1>5, <2>3, <4>1, <5>1, <5>2
        <4>3. CASE j # 1
          <5>1. j - 1 \in 1 .. n /\ p[j] = r[j - 1]
            BY <1>3, <4>3
          <5>2. j - 1 = (i - 1) + 1
            BY <1>1, <2>3, <4>1, <5>1 DEF Woven, Follows
          <5> QED
            BY <5>2
        <4> QED
          BY <4>2, <4>3
      <3> QED
        BY <3>1, <3>2
    <2> QED
      BY <1>2, <2>1, <2>2, <2>3 DEF Follows
  <1>10. LeftOf(p) = LeftOf(r) \cup ({x.at} \ {0})
    <2>1. \A a : (\E i \in 1 .. n + 1 : p[i].at = a)
                   <=> a = x.at \/ \E i \in 1 .. n : r[i].at = a
      <3> TAKE a
      <3>1. ASSUME NEW i \in 1 .. n, r[i].at = a
            PROVE  \E k \in 1 .. n + 1 : p[k].at = a
        <4>1. i + 1 \in 1 .. n + 1 /\ p[i + 1] = r[i]
          BY <1>1, <1>2
        <4> QED
          BY <3>1, <4>1
      <3>2. 1 \in 1 .. n + 1
        BY <1>1
      <3> QED
        BY <1>2, <1>3, <3>1, <3>2
    <2>2. \A a : a \in LeftOf(p) <=> a # 0 /\ \E i \in 1 .. n + 1 : p[i].at = a
      BY <1>2 DEF LeftOf
    <2>3. \A a : a \in LeftOf(r) <=> a # 0 /\ \E i \in 1 .. n : r[i].at = a
      BY <1>1 DEF LeftOf
    <2> QED
      BY <2>1, <2>2, <2>3
  <1> QED
    BY <1>2, <1>4, <1>7, <1>9, <1>10 DEF Woven, p

Window(n, w) == w .. w + Len(n) - 1

\* What is left in r comes from the text t from i on.
FromHere(r, t, i) == LeftOf(r) \subseteq {t[j].at : j \in i .. Len(t)}

\* r begins with what t has at i, or with a mark in its place.
BeginsHere(r, t, i) ==
    i <= Len(t) =>
       r # <<>> /\ (r[1] = t[i] \/ (r[1].at = 0 /\ t[i].at \notin LeftOf(r)))

\* Nothing is left of an occurrence at w.
GoneAt(r, t, n, w) ==
    Occurs(n, Symbol(t), w) /\ \A k \in Window(n, w) : t[k].at \notin LeftOf(r)

\* What is gone was in an occurrence of which nothing is left.
WholeGone(r, t, n, i) ==
    \A j \in i .. Len(t) :
       t[j].at # 0 /\ t[j].at \notin LeftOf(r) =>
          \E w \in i .. Len(t) : j \in Window(n, w) /\ GoneAt(r, t, n, w)

\* Of each occurrence something is gone.
NoneWhole(r, t, n, i) ==
    \A w \in i .. Len(t) :
       Occurs(n, Symbol(t), w) => \E j \in Window(n, w) : t[j].at \notin LeftOf(r)

\* What the scan from i on makes of the text t.
Scanned(r, t, n, i, o) ==
    /\ Woven(r, o) /\ FromHere(r, t, i) /\ BeginsHere(r, t, i)
    /\ WholeGone(r, t, n, i) /\ NoneWhole(r, t, n, i)

LEMMA OccursIs ==
    ASSUME NEW o \in Seq(Printable), NEW t, Woven(t, o), NEW n \in Needle,
           NEW w \in 1 .. Len(t), Occurs(n, Symbol(t), w)
    PROVE  /\ Window(n, w) \subseteq 1 .. Len(t) /\ w \in Window(n, w)
           /\ \A k \in Window(n, w) :
                 t[k].at # 0 /\ t[k].at \in DOMAIN o /\ t[k].sym = o[t[k].at]
           /\ \A k \in DOMAIN n : w + k - 1 \in Window(n, w)
                                  /\ t[w + k - 1].sym = n[k]
  <1>1. t \in Seq(Placed) /\ \A i \in 1 .. Len(t) : Is(t[i], o)
    BY SymbolIs DEF Woven
  <1>2. Len(t) \in Nat /\ \A i \in 1 .. Len(t) : Symbol(t)[i] = t[i].sym
    BY <1>1, SymbolIs
  <1>3. /\ Len(n) \in Nat \ {0} /\ DOMAIN n = 1 .. Len(n)
        /\ \A k \in DOMAIN n : n[k] \in Printable
    BY NeedleIs
  <1>4. w + Len(n) - 1 <= Len(t) /\ \A k \in DOMAIN n : Symbol(t)[w + k - 1] = n[k]
    BY <1>1, SymbolIs DEF Occurs
  <1>5. Window(n, w) \subseteq 1 .. Len(t) /\ w \in Window(n, w)
    BY <1>2, <1>3, <1>4 DEF Window
  <1>6. ASSUME NEW k \in DOMAIN n
        PROVE  w + k - 1 \in Window(n, w) /\ t[w + k - 1].sym = n[k]
    <2>1. w + k - 1 \in Window(n, w)
      BY <1>3 DEF Window
    <2>2. Symbol(t)[w + k - 1] = t[w + k - 1].sym
      BY <1>2, <1>5, <2>1
    <2> QED
      BY <1>4, <2>1, <2>2
  <1>7. ASSUME NEW k \in Window(n, w) PROVE t[k].at # 0
    <2>1. k - w + 1 \in DOMAIN n /\ w + (k - w + 1) - 1 = k
      BY <1>3 DEF Window
    <2>2. t[k].sym \in Printable
      BY <1>3, <1>6, <2>1
    <2>3. Blank.sym \notin Printable
      BY DEF Blank, Mark, Printable, Plain, Coded, Junk
    <2> QED
      BY <1>1, <1>5, <2>2, <2>3 DEF Is
  <1> QED
    BY <1>1, <1>5, <1>6, <1>7 DEF Is

-----------------------------------------------------------------------------
(* An occurrence in a text is a place of the output that is left whole.     *)

\* From w on, t holds what was at a .. a + m.
Row(t, w, a, m) == w + m <= Len(t) /\ \A k \in 0 .. m : t[w + k].at = a + k

Unmarked(t, w, m) == w + m <= Len(t) /\ \A k \in w .. w + m : t[k].at # 0

LEMMA RowOfSymbols ==
    ASSUME NEW o, NEW t, Woven(t, o), NEW w \in 1 .. Len(t), NEW m \in Nat,
           Unmarked(t, w, m)
    PROVE  Row(t, w, t[w].at, m)
  <1> DEFINE S == {k \in Nat : k <= m => t[w + k].at = t[w].at + k}
  <1>1. /\ DOMAIN t = 1 .. Len(t) /\ Len(t) \in Nat /\ Follows(t)
        /\ \A i \in 1 .. Len(t) : t[i].at \in Nat
    BY SymbolIs, LeftIs DEF Woven
  <1>0. w + m <= Len(t) /\ \A k \in w .. w + m : t[k].at # 0
    BY DEF Unmarked
  <1>2. 0 \in S
    BY <1>1
  <1>3. ASSUME NEW k \in Nat, k \in S PROVE k + 1 \in S
    <2> SUFFICES ASSUME k + 1 <= m PROVE t[w + (k + 1)].at = t[w].at + (k + 1)
      OBVIOUS
    <2>1. t[w + k].at = t[w].at + k
      BY <1>3
    <2>2. /\ w + k \in 1 .. Len(t) /\ w + (k + 1) \in 1 .. Len(t)
          /\ w + k \in w .. w + m /\ w + (k + 1) \in w .. w + m
          /\ w + (k + 1) = (w + k) + 1
      BY <1>0, <1>1
    <2>3. t[w + (k + 1)].at = t[w + k].at + 1
      BY <1>0, <1>1, <2>2 DEF Follows
    <2>4. t[w].at \in Nat
      BY <1>1
    <2> HIDE DEF S
    <2>5. t[w].at + (k + 1) = (t[w].at + k) + 1
      BY <2>4
    <2> QED
      BY <2>1, <2>3, <2>5
  <1>4. \A k \in Nat : k \in S
    <2> HIDE DEF S
    <2> QED
      BY <1>2, <1>3, NatSet
  <1>5. \A k \in 0 .. m : t[w + k].at = t[w].at + k
    BY <1>4
  <1> QED
    BY <1>0, <1>5 DEF Row

LEMMA SymbolsOfRow ==
    ASSUME NEW o, NEW t, Woven(t, o), NEW a \in Nat \ {0}, NEW m \in Nat,
           a .. a + m \subseteq LeftOf(t)
    PROVE  \E w \in 1 .. Len(t) : Row(t, w, a, m)
  <1>1. /\ DOMAIN t = 1 .. Len(t) /\ Len(t) \in Nat /\ Follows(t)
        /\ \A b \in LeftOf(t) : \E i \in 1 .. Len(t) : t[i].at = b
    BY SymbolIs, LeftIs DEF Woven
  <1>2. PICK w \in 1 .. Len(t) : t[w].at = a
    BY <1>1
  <1> DEFINE S == {k \in Nat : k <= m => w + k <= Len(t) /\ t[w + k].at = a + k}
  <1>3. 0 \in S
    BY <1>1, <1>2
  <1>4. ASSUME NEW k \in Nat, k \in S PROVE k + 1 \in S
    <2> SUFFICES ASSUME k + 1 <= m
                 PROVE  w + (k + 1) <= Len(t) /\ t[w + (k + 1)].at = a + (k + 1)
      OBVIOUS
    <2>1. w + k \in 1 .. Len(t) /\ t[w + k].at = a + k
      BY <1>1, <1>4
    <2>2. PICK j \in 1 .. Len(t) : t[j].at = a + (k + 1)
      BY <1>1
    <2>3. t[w + k].at # 0 /\ t[j].at = t[w + k].at + 1
      BY <2>1, <2>2
    <2>4. j = (w + k) + 1
      BY <1>1, <2>1, <2>3 DEF Follows
    <2>5. j = w + (k + 1)
      BY <1>1, <2>4
    <2> QED
      BY <1>1, <2>2, <2>5
  <1>5. \A k \in Nat : k \in S
    <2> HIDE DEF S
    <2> QED
      BY <1>3, <1>4, NatSet
  <1>6. ASSUME NEW k \in 0 .. m
        PROVE  w + k <= Len(t) /\ t[w + k].at = a + k
    <2>1. k \in S /\ k <= m
      BY <1>5
    <2> QED
      BY <2>1
  <1>7. m \in 0 .. m
    OBVIOUS
  <1> HIDE DEF S
  <1> QED
    BY <1>6, <1>7 DEF Row

PlacesIn(n, o) ==
    {i .. i + Len(n) - 1 : i \in {j \in DOMAIN o : Occurs(n, o, j)}}

Ats(t, n, w) == {t[k].at : k \in Window(n, w)}

LEMMA OccursAtPlace ==
    ASSUME NEW o \in Seq(Printable), NEW t, Woven(t, o), NEW n \in Needle,
           NEW w \in 1 .. Len(t), Occurs(n, Symbol(t), w)
    PROVE  Ats(t, n, w) \in PlacesIn(n, o) /\ Ats(t, n, w) \subseteq LeftOf(t)
  <1> DEFINE a == t[w].at
             m == Len(n) - 1
  <1>1. /\ Len(t) \in Nat /\ \A i \in 1 .. Len(t) : t[i].at \in Nat
        /\ \A i \in 1 .. Len(t) : t[i].at # 0 => t[i].at \in LeftOf(t)
    BY SymbolIs, LeftIs DEF Woven
  <1>2. m \in Nat /\ Len(n) = m + 1 /\ DOMAIN n = 1 .. m + 1
    BY NeedleIs
  <1>3. DOMAIN o = 1 .. Len(o) /\ Len(o) \in Nat
    BY LenProperties
  <1>4. /\ Window(n, w) \subseteq 1 .. Len(t) /\ w \in Window(n, w)
        /\ \A k \in Window(n, w) :
              t[k].at # 0 /\ t[k].at \in DOMAIN o /\ t[k].sym = o[t[k].at]
        /\ \A k \in DOMAIN n : w + k - 1 \in Window(n, w) /\ t[w + k - 1].sym = n[k]
    BY OccursIs
  <1>5. Window(n, w) = w .. w + m
    BY <1>2 DEF Window
  <1>6. w + m <= Len(t) /\ w + m \in Window(n, w)
    BY <1>1, <1>2, <1>4, <1>5
  <1> HIDE DEF m
  <1>7. \A k \in 0 .. m : t[w + k].at = a + k
    <2>1. Unmarked(t, w, m)
      BY <1>4, <1>5, <1>6 DEF Unmarked
    <2>2. Row(t, w, t[w].at, m)
      BY <1>2, <2>1, RowOfSymbols
    <2> QED
      BY <2>2 DEF Row
  <1>8. a \in DOMAIN o /\ a + m \in DOMAIN o
    <2>1. 0 \in 0 .. m /\ m \in 0 .. m
      BY <1>2
    <2>2. t[w + m].at = a + m
      BY <1>7, <2>1
    <2> QED
      BY <1>4, <1>6, <2>2
  <1> HIDE DEF a
  <1>9. Occurs(n, o, a)
    <2>1. a + Len(n) - 1 <= Len(o)
      BY <1>2, <1>3, <1>8
    <2>2. ASSUME NEW k \in DOMAIN n PROVE o[a + k - 1] = n[k]
      <3>1. k - 1 \in 0 .. m /\ w + (k - 1) = w + k - 1 /\ a + (k - 1) = a + k - 1
        BY <1>2, <1>3, <1>8
      <3>2. t[w + k - 1].at = a + k - 1
        BY <1>7, <3>1
      <3> QED
        BY <1>4, <3>2
    <2> QED
      BY <2>1, <2>2 DEF Occurs
  <1>10. Ats(t, n, w) = a .. a + Len(n) - 1
    <2>1. ASSUME NEW k \in w .. w + m PROVE t[k].at \in a .. a + m
      <3>1. k - w \in 0 .. m /\ w + (k - w) = k
        BY <1>2
      <3>2. t[k].at = a + (k - w)
        BY <1>7, <3>1
      <3>3. a \in Nat
        BY <1>3, <1>8
      <3> QED
        BY <1>2, <3>1, <3>2, <3>3
    <2>2. ASSUME NEW b \in a .. a + m PROVE \E k \in w .. w + m : t[k].at = b
      <3>1. b - a \in 0 .. m /\ a + (b - a) = b /\ w + (b - a) \in w .. w + m
        BY <1>2, <1>3, <1>8
      <3> QED
        BY <1>7, <3>1
    <2>3. a + Len(n) - 1 = a + m
      BY <1>2, <1>3, <1>8
    <2> QED
      BY <1>5, <2>1, <2>2, <2>3 DEF Ats
  <1>11. Ats(t, n, w) \in PlacesIn(n, o)
    BY <1>8, <1>9, <1>10 DEF PlacesIn
  <1>12. Ats(t, n, w) \subseteq LeftOf(t)
    BY <1>1, <1>4 DEF Ats
  <1> QED
    BY <1>11, <1>12

LEMMA PlaceOccurs ==
    ASSUME NEW o \in Seq(Printable), NEW t, Woven(t, o), NEW n \in Needle,
           NEW p \in PlacesIn(n, o), p \subseteq LeftOf(t)
    PROVE  \E w \in 1 .. Len(t) : Occurs(n, Symbol(t), w) /\ Ats(t, n, w) = p
  <1> DEFINE m == Len(n) - 1
  <1>1. m \in Nat /\ Len(n) = m + 1 /\ DOMAIN n = 1 .. m + 1
    BY NeedleIs
  <1>2. DOMAIN o = 1 .. Len(o) /\ Len(o) \in Nat
    BY LenProperties
  <1>3. /\ t \in Seq(Placed) /\ Len(t) \in Nat
        /\ \A i \in 1 .. Len(t) : Symbol(t)[i] = t[i].sym
        /\ Len(Symbol(t)) = Len(t)
        /\ \A i \in 1 .. Len(t) : Is(t[i], o)
    BY SymbolIs DEF Woven
  <1>4. PICK a \in DOMAIN o : Occurs(n, o, a) /\ p = a .. a + Len(n) - 1
    BY DEF PlacesIn
  <1> HIDE DEF m
  <1>5. p = a .. a + m
    BY <1>1, <1>2, <1>4
  <1>6. PICK w \in 1 .. Len(t) :
            w + m <= Len(t) /\ \A k \in 0 .. m : t[w + k].at = a + k
    <2>1. a \in Nat \ {0} /\ a .. a + m \subseteq LeftOf(t)
      BY <1>2, <1>5
    <2>2. m \in Nat
      BY <1>1
    <2>3. \E w \in 1 .. Len(t) : Row(t, w, a, m)
      BY <2>1, <2>2, SymbolsOfRow
    <2> QED
      BY <2>3 DEF Row
  <1>7. Occurs(n, Symbol(t), w)
    <2>1. w + Len(n) - 1 <= Len(Symbol(t))
      BY <1>1, <1>3, <1>6
    <2>2. ASSUME NEW k \in DOMAIN n PROVE Symbol(t)[w + k - 1] = n[k]
      <3>1. /\ k - 1 \in 0 .. m /\ w + (k - 1) = w + k - 1
            /\ a + (k - 1) = a + k - 1 /\ w + k - 1 \in 1 .. Len(t)
            /\ a + k - 1 # 0
        BY <1>1, <1>2, <1>3, <1>6
      <3>2. t[w + k - 1].at = a + k - 1
        BY <1>6, <3>1
      <3>3. o[a + k - 1] = n[k]
        BY <1>4 DEF Occurs
      <3>4. t[w + k - 1].sym = o[a + k - 1]
        BY <1>3, <3>1, <3>2 DEF Is
      <3> QED
        BY <1>3, <3>1, <3>3, <3>4
    <2> QED
      BY <2>1, <2>2 DEF Occurs
  <1>8. Ats(t, n, w) = p
    <2>1. ASSUME NEW k \in w .. w + m PROVE t[k].at \in a .. a + m
      <3>1. k - w \in 0 .. m /\ w + (k - w) = k
        BY <1>1
      <3>2. t[k].at = a + (k - w)
        BY <1>6, <3>1
      <3>3. a \in Nat
        BY <1>2
      <3>4. a + (k - w) \in a .. a + m
        BY <1>1, <3>1, <3>3
      <3> QED
        BY <3>2, <3>4
    <2>2. ASSUME NEW b \in a .. a + m PROVE \E k \in w .. w + m : t[k].at = b
      <3>1. b - a \in 0 .. m /\ a + (b - a) = b /\ w + (b - a) \in w .. w + m
        BY <1>1, <1>2
      <3> QED
        BY <1>6, <3>1
    <2>3. Window(n, w) = w .. w + m
      BY <1>1 DEF Window
    <2> QED
      BY <1>5, <2>1, <2>2, <2>3 DEF Ats
  <1> QED
    BY <1>7, <1>8

-----------------------------------------------------------------------------
(* What Replace does to a text, from its end backwards.                     *)

LEMMA AtsDiffer ==
    ASSUME NEW o, NEW t, Woven(t, o), NEW i \in 1 .. Len(t), NEW j \in 1 .. Len(t),
           t[i].at # 0, i < j
    PROVE  t[i].at # t[j].at
  <1>1. DOMAIN t = 1 .. Len(t) /\ Follows(t) /\ t[i].at \in Nat /\ t[j].at \in Nat
    BY SymbolIs, LeftIs DEF Woven
  <1>2. CASE t[j].at = 0
    BY <1>2
  <1>3. CASE t[j].at # 0
    <2>1. t[i].at < t[j].at
      BY <1>1, <1>3 DEF Follows
    <2> QED
      BY <1>1, <2>1
  <1> QED
    BY <1>2, <1>3

LEMMA ScanEnd ==
    ASSUME NEW o, NEW t, Woven(t, o), NEW n \in Needle
    PROVE  Scanned(<<>>, t, n, Len(t) + 1, o)
  <1>1. Len(t) \in Nat
    BY SymbolIs DEF Woven
  <1>2. Woven(<<>>, o) /\ LeftOf(<<>>) = {}
    BY EmptySeq DEF Woven, Follows, LeftOf
  <1>3. \A j : j \notin Len(t) + 1 .. Len(t)
    BY <1>1
  <1> QED
    BY <1>1, <1>2, <1>3
       DEF Scanned, FromHere, BeginsHere, WholeGone, NoneWhole

LEMMA ScanHit ==
    ASSUME NEW o \in Seq(Printable), NEW t, Woven(t, o), NEW n \in Needle,
           NEW i \in 1 .. Len(t), Occurs(n, Symbol(t), i),
           NEW r, Scanned(r, t, n, i + Len(n), o)
    PROVE  Scanned(Put(Blank, r), t, n, i, o)
  <1> DEFINE p == Put(Blank, r)
  <1>1. Len(t) \in Nat /\ Len(n) \in Nat \ {0}
    BY SymbolIs, NeedleIs DEF Woven
  <1>2. /\ Window(n, i) \subseteq 1 .. Len(t) /\ i \in Window(n, i)
        /\ \A k \in Window(n, i) : t[k].at # 0
    BY OccursIs
  <1>3. Is(Blank, o) /\ Blank.at = 0 /\ Fits(Blank, r)
    <2>1. Blank \in Placed
      <3>1. 0 \in 0 .. Cap
        BY Bounds
      <3> QED
        BY <3>1 DEF Blank, Placed
    <2>2. Blank.at = 0
      BY DEF Blank
    <2>3. Is(Blank, o)
      BY <2>1, <2>2 DEF Is
    <2>4. Fits(Blank, r)
      BY <2>2 DEF Fits
    <2> QED
      BY <2>2, <2>3, <2>4
  <1>4. Woven(r, o) /\ LeftOf(r) \subseteq {t[j].at : j \in i + Len(n) .. Len(t)}
    BY DEF Scanned, FromHere
  <1>5. Woven(p, o) /\ LeftOf(p) = LeftOf(r) /\ p # <<>> /\ p[1] = Blank
    <2>1. /\ Woven(p, o) /\ p # <<>> /\ p[1] = Blank
          /\ LeftOf(p) = LeftOf(r) \cup ({Blank.at} \ {0})
      BY <1>3, <1>4, PutFits
    <2> HIDE DEF p
    <2> QED
      BY <1>3, <2>1
  <1> HIDE DEF p
  <1>6. \A k \in Window(n, i) : t[k].at \notin LeftOf(p)
    <2> SUFFICES ASSUME NEW k \in Window(n, i), NEW j \in i + Len(n) .. Len(t),
                        t[k].at = t[j].at
                 PROVE  FALSE
      BY <1>4, <1>5
    <2>1. k \in 1 .. Len(t) /\ j \in 1 .. Len(t) /\ k < j /\ t[k].at # 0
      BY <1>1, <1>2 DEF Window
    <2> QED
      BY <2>1, AtsDiffer
  <1>7. LeftOf(p) \subseteq {t[j].at : j \in i .. Len(t)}
    <2>1. i + Len(n) .. Len(t) \subseteq i .. Len(t)
      BY <1>1
    <2> QED
      BY <1>4, <1>5, <2>1
  <1>8. ASSUME NEW j \in i .. Len(t), t[j].at # 0, t[j].at \notin LeftOf(p)
        PROVE  \E w \in i .. Len(t) : j \in Window(n, w) /\ GoneAt(p, t, n, w)
    <2>1. CASE j < i + Len(n)
      <3>1. j \in Window(n, i) /\ i \in i .. Len(t)
        BY <1>1, <2>1 DEF Window
      <3> QED
        BY <1>6, <3>1 DEF GoneAt
    <2>2. CASE j >= i + Len(n)
      <3>1. j \in i + Len(n) .. Len(t)
        BY <1>1, <2>2
      <3>2. PICK w \in i + Len(n) .. Len(t) :
                j \in Window(n, w) /\ GoneAt(r, t, n, w)
        BY <1>5, <1>8, <3>1 DEF Scanned, WholeGone
      <3>3. w \in i .. Len(t)
        BY <1>1
      <3> QED
        BY <1>5, <3>2, <3>3 DEF GoneAt
    <2> QED
      BY <1>1, <2>1, <2>2
  <1>9. ASSUME NEW w \in i .. Len(t), Occurs(n, Symbol(t), w)
        PROVE  \E j \in Window(n, w) : t[j].at \notin LeftOf(p)
    <2>1. CASE w < i + Len(n)
      <3>1. w \in Window(n, w) /\ w \in Window(n, i)
        BY <1>1, <2>1 DEF Window
      <3> QED
        BY <1>6, <3>1
    <2>2. CASE w >= i + Len(n)
      <3>1. w \in i + Len(n) .. Len(t)
        BY <1>1, <2>2
      <3> QED
        BY <1>5, <1>9, <3>1 DEF Scanned, NoneWhole
    <2> QED
      BY <1>1, <2>1, <2>2
  <1>10. t[i].at \notin LeftOf(p)
    BY <1>2, <1>6
  <1>11. p # <<>> /\ p[1].at = 0
    BY <1>3, <1>5
  <1>12. FromHere(p, t, i) /\ BeginsHere(p, t, i)
    BY <1>7, <1>10, <1>11 DEF FromHere, BeginsHere
  <1>13. WholeGone(p, t, n, i)
    BY <1>8 DEF WholeGone
  <1>14. NoneWhole(p, t, n, i)
    BY <1>9 DEF NoneWhole
  <1>15. Scanned(p, t, n, i, o)
    BY <1>5, <1>12, <1>13, <1>14 DEF Scanned
  <1> QED
    BY <1>15 DEF p

LEMMA BeginsIs ==
    ASSUME NEW r, NEW t, NEW i, r # <<>>, r[1] = t[i]
    PROVE  BeginsHere(r, t, i)
  BY DEF BeginsHere

LEMMA ScanMiss ==
    ASSUME NEW o \in Seq(Printable), NEW t, Woven(t, o), NEW n \in Needle,
           NEW i \in 1 .. Len(t), ~Occurs(n, Symbol(t), i),
           NEW r, Scanned(r, t, n, i + 1, o)
    PROVE  Scanned(Put(t[i], r), t, n, i, o)
  <1> DEFINE x == t[i]
             p == Put(x, r)
  <1>1. /\ Len(t) \in Nat /\ DOMAIN t = 1 .. Len(t) /\ Follows(t) /\ Is(x, o)
        /\ \A j \in 1 .. Len(t) : t[j].at \in Nat
    BY SymbolIs, LeftIs DEF Woven
  <1>2. /\ Woven(r, o) /\ LeftOf(r) \subseteq {t[j].at : j \in i + 1 .. Len(t)}
        /\ i + 1 <= Len(t) =>
              /\ r # <<>>
              /\ r[1] = t[i + 1] \/ (r[1].at = 0 /\ t[i + 1].at \notin LeftOf(r))
    BY DEF Scanned, FromHere, BeginsHere
  <1>3. r # <<>> /\ r[1].at # 0 => r[1].at \in LeftOf(r)
    <2>1. r \in Seq(Placed)
      BY <1>2 DEF Woven
    <2>2. r # <<>> => 1 \in 1 .. Len(r)
      BY <2>1, LenProperties, EmptySeq
    <2> QED
      BY <2>1, <2>2, LeftIs
  <1>4. i + 1 .. Len(t) \subseteq 1 .. Len(t)
    BY <1>1
  <1>5. ASSUME x.at # 0 PROVE \A a \in LeftOf(r) : x.at < a
    <2> SUFFICES ASSUME NEW a \in LeftOf(r) PROVE x.at < a
      OBVIOUS
    <2>1. PICK j \in i + 1 .. Len(t) : t[j].at = a
      BY <1>2
    <2>2. a # 0
      BY DEF LeftOf
    <2>3. i < j /\ j \in 1 .. Len(t)
      BY <1>1
    <2> QED
      BY <1>1, <1>5, <2>1, <2>2, <2>3 DEF Follows
  <1>6. Fits(x, r)
    <2> HIDE DEF p
    <2> SUFFICES ASSUME x.at # 0
                 PROVE  /\ r # <<>> /\ r[1].at # 0 => r[1].at = x.at + 1
                        /\ x.at + 1 \in LeftOf(r) => r # <<>> /\ r[1].at = x.at + 1
      BY <1>5 DEF Fits
    <2>1. ASSUME r # <<>>, r[1].at # 0 PROVE r[1].at = x.at + 1
      <3>1. PICK j \in i + 1 .. Len(t) : t[j].at = r[1].at
        BY <1>2, <1>3, <2>1
      <3>2. i + 1 <= Len(t) /\ i + 1 \in 1 .. Len(t)
        BY <1>1
      <3>3. r[1] = t[i + 1]
        BY <1>2, <2>1, <3>2
      <3>4. i \in DOMAIN t /\ i + 1 \in DOMAIN t /\ t[i + 1].at # 0
        BY <1>1, <2>1, <3>2, <3>3
      <3>5. t[i + 1].at = t[i].at + 1
        BY <1>1, <3>4 DEF Follows
      <3> QED
        BY <3>3, <3>5
    <2>2. ASSUME x.at + 1 \in LeftOf(r) PROVE r # <<>> /\ r[1].at = x.at + 1
      <3>1. PICK j \in i + 1 .. Len(t) : t[j].at = x.at + 1
        BY <1>2, <2>2
      <3>2. j \in 1 .. Len(t) /\ i + 1 <= Len(t)
        BY <1>1
      <3>3. j = i + 1
        BY <1>1, <3>1, <3>2 DEF Follows
      <3>4. r # <<>> /\ r[1] = t[i + 1]
        BY <1>2, <2>2, <3>1, <3>2, <3>3
      <3> QED
        BY <3>1, <3>3, <3>4
    <2> QED
      BY <2>1, <2>2
  <1>7. /\ Woven(p, o) /\ LeftOf(p) = LeftOf(r) \cup ({x.at} \ {0})
        /\ p # <<>> /\ p[1] = x
    BY <1>1, <1>2, <1>6, PutFits
  <1> HIDE DEF p
  <1>8. LeftOf(p) \subseteq {t[j].at : j \in i .. Len(t)}
    <2>1. i + 1 .. Len(t) \subseteq i .. Len(t) /\ i \in i .. Len(t)
      BY <1>1
    <2> QED
      BY <1>2, <1>7, <2>1
  <1>9. ASSUME NEW w \in i + 1 .. Len(t), Occurs(n, Symbol(t), w),
               NEW k \in Window(n, w)
        PROVE  t[k].at \in LeftOf(p) <=> t[k].at \in LeftOf(r)
    <2>1. k \in 1 .. Len(t) /\ t[k].at # 0
      BY <1>4, <1>9, OccursIs
    <2>2. i < k
      BY <1>1, <2>1 DEF Window
    <2>3. t[k].at # x.at
      <3>1. CASE x.at = 0
        BY <2>1, <3>1
      <3>2. CASE x.at # 0
        BY <2>1, <2>2, <3>2, AtsDiffer
      <3> QED
        BY <3>1, <3>2
    <2> QED
      BY <1>7, <2>3
  <1>10. i + 1 .. Len(t) \subseteq i .. Len(t)
    BY <1>1
  <1>11. ASSUME NEW j \in i .. Len(t), t[j].at # 0, t[j].at \notin LeftOf(p)
         PROVE  \E w \in i .. Len(t) : j \in Window(n, w) /\ GoneAt(p, t, n, w)
    <2>1. j # i
      BY <1>7, <1>11
    <2>2. j \in i + 1 .. Len(t) /\ t[j].at \notin LeftOf(r)
      BY <1>1, <1>7, <1>11, <2>1
    <2>3. PICK w \in i + 1 .. Len(t) :
              j \in Window(n, w) /\ GoneAt(r, t, n, w)
      BY <1>11, <2>2 DEF Scanned, WholeGone
    <2> QED
      BY <1>9, <1>10, <2>3 DEF GoneAt
  <1>12. ASSUME NEW w \in i .. Len(t), Occurs(n, Symbol(t), w)
         PROVE  \E j \in Window(n, w) : t[j].at \notin LeftOf(p)
    <2>1. w # i
      BY <1>12
    <2>2. w \in i + 1 .. Len(t)
      BY <1>1, <2>1
    <2>3. \E j \in Window(n, w) : t[j].at \notin LeftOf(r)
      BY <1>12, <2>2 DEF Scanned, NoneWhole
    <2> QED
      BY <1>9, <1>12, <2>2, <2>3
  <1>13. FromHere(p, t, i) /\ BeginsHere(p, t, i)
    <2>1. FromHere(p, t, i)
      BY <1>8 DEF FromHere
    <2>2. p # <<>> /\ p[1] = t[i]
      BY <1>7
    <2>3. BeginsHere(p, t, i)
      BY <2>2, BeginsIs
    <2> QED
      BY <2>1, <2>3
  <1>14. WholeGone(p, t, n, i)
    BY <1>11 DEF WholeGone
  <1>15. NoneWhole(p, t, n, i)
    BY <1>12 DEF NoneWhole
  <1>16. Scanned(p, t, n, i, o)
    BY <1>7, <1>13, <1>14, <1>15 DEF Scanned
  <1> QED
    BY <1>16 DEF p

LEMMA ScanHolds ==
    ASSUME NEW o \in Seq(Printable), NEW t, Woven(t, o), NEW n \in Needle,
           NEW f, Scans(f, t, n)
    PROVE  Scanned(f[1], t, n, 1, o)
  <1> DEFINE N == Len(t)
             Good(i) == Scanned(f[i], t, n, i, o)
             S == {m \in Nat : \A i \in 1 .. N + 1 : i + m > N => Good(i)}
  <1>1. N \in Nat /\ Len(n) \in Nat \ {0} /\ Len(Symbol(t)) = N
    BY SymbolIs, NeedleIs DEF Woven
  <1>2. \A i \in 1 .. N + 1 : f[i] = ScanStep(f, t, n, i)
    BY DEF Scans
  <1>3. Good(N + 1)
    <2>1. f[N + 1] = <<>>
      BY <1>1, <1>2 DEF ScanStep
    <2> QED
      BY <2>1, ScanEnd
  <1>4. 0 \in S
    <2> SUFFICES ASSUME NEW i \in 1 .. N + 1, i + 0 > N PROVE Good(i)
      OBVIOUS
    <2>1. i = N + 1
      BY <1>1
    <2> QED
      BY <1>3, <2>1
  <1>5. ASSUME NEW m \in Nat, m \in S PROVE m + 1 \in S
    <2> SUFFICES ASSUME NEW i \in 1 .. N + 1, i + (m + 1) > N PROVE Good(i)
      OBVIOUS
    <2>1. CASE i = N + 1
      BY <1>3, <2>1
    <2>2. CASE i # N + 1
      <3>1. i \in 1 .. N
        BY <1>1, <2>2
      <3>2. CASE Occurs(n, Symbol(t), i)
        <4>1. i + Len(n) - 1 <= N
          BY <1>1, <3>2 DEF Occurs
        <4>2. i + Len(n) \in 1 .. N + 1 /\ i + Len(n) + m > N
          BY <1>1, <3>1, <4>1
        <4>3. Good(i + Len(n))
          BY <1>5, <4>2
        <4>4. f[i] = Put(Blank, f[i + Len(n)])
          BY <1>1, <1>2, <3>1, <3>2 DEF ScanStep
        <4> QED
          BY <3>1, <3>2, <4>3, <4>4, ScanHit
      <3>3. CASE ~Occurs(n, Symbol(t), i)
        <4>1. i + 1 \in 1 .. N + 1 /\ (i + 1) + m > N
          BY <1>1, <3>1
        <4>2. Good(i + 1)
          BY <1>5, <4>1
        <4>3. f[i] = Put(t[i], f[i + 1])
          BY <1>1, <1>2, <3>1, <3>3 DEF ScanStep
        <4> QED
          BY <3>1, <3>3, <4>2, <4>3, ScanMiss
      <3> QED
        BY <3>2, <3>3
    <2> QED
      BY <2>1, <2>2
  <1>6. N \in S
    <2> HIDE DEF S
    <2> QED
      BY <1>1, <1>4, <1>5, NatSet
  <1>7. 1 \in 1 .. N + 1 /\ 1 + N > N
    BY <1>1
  <1>8. Good(1)
    BY <1>6, <1>7
  <1> QED
    BY <1>8

\* Replace leaves nothing of the places that it replaces and everything else,
\* and it replaces something of every place that was left whole.
LEMMA ReplaceSays ==
    ASSUME NEW o \in Seq(Printable), NEW t, Woven(t, o), NEW n \in Needle
    PROVE  /\ Woven(Replace(t, n), o)
           /\ LeftOf(Replace(t, n)) \subseteq LeftOf(t)
           /\ \A a \in LeftOf(t) \ LeftOf(Replace(t, n)) :
                 \E p \in PlacesIn(n, o) :
                    a \in p /\ p \subseteq LeftOf(t)
                    /\ p \cap LeftOf(Replace(t, n)) = {}
           /\ \A p \in PlacesIn(n, o) :
                 p \subseteq LeftOf(t) => ~(p \subseteq LeftOf(Replace(t, n)))
  <1>1. t \in Seq(Placed) /\ Len(t) \in Nat
    BY SymbolIs DEF Woven
  <1>2. PICK f : Scans(f, t, n) /\ Replace(t, n) = f[1]
    BY <1>1, ReplaceScans
  <1> DEFINE r == Replace(t, n)
  <1>3. Scanned(r, t, n, 1, o)
    BY <1>2, ScanHolds
  <1> HIDE DEF r
  <1>4. /\ Woven(r, o) /\ FromHere(r, t, 1)
        /\ WholeGone(r, t, n, 1) /\ NoneWhole(r, t, n, 1)
    BY <1>3 DEF Scanned
  <1>5. LeftOf(r) \subseteq LeftOf(t)
    <2> SUFFICES ASSUME NEW a \in LeftOf(r) PROVE a \in LeftOf(t)
      OBVIOUS
    <2>1. a # 0
      BY DEF LeftOf
    <2>2. PICK j \in 1 .. Len(t) : t[j].at = a
      BY <1>4 DEF FromHere
    <2> QED
      BY <1>1, <2>1, <2>2, LeftIs
  <1>6. ASSUME NEW a \in LeftOf(t) \ LeftOf(r)
        PROVE  \E p \in PlacesIn(n, o) :
                  a \in p /\ p \subseteq LeftOf(t) /\ p \cap LeftOf(r) = {}
    <2>1. PICK j \in 1 .. Len(t) : t[j].at = a /\ a # 0
      BY <1>1, LeftIs
    <2>2. PICK w \in 1 .. Len(t) :
              j \in Window(n, w) /\ GoneAt(r, t, n, w)
      BY <1>4, <2>1 DEF WholeGone
    <2>3. Ats(t, n, w) \in PlacesIn(n, o) /\ Ats(t, n, w) \subseteq LeftOf(t)
      BY <2>2, OccursAtPlace DEF GoneAt
    <2>4. a \in Ats(t, n, w) /\ Ats(t, n, w) \cap LeftOf(r) = {}
      BY <2>1, <2>2 DEF Ats, GoneAt
    <2> QED
      BY <2>3, <2>4
  <1>7. ASSUME NEW p \in PlacesIn(n, o), p \subseteq LeftOf(t)
        PROVE  ~(p \subseteq LeftOf(r))
    <2>1. PICK w \in 1 .. Len(t) : Occurs(n, Symbol(t), w) /\ Ats(t, n, w) = p
      BY <1>7, PlaceOccurs
    <2>2. PICK j \in Window(n, w) : t[j].at \notin LeftOf(r)
      BY <1>4, <2>1 DEF NoneWhole
    <2> QED
      BY <2>1, <2>2 DEF Ats
  <1> QED
    BY <1>4, <1>5, <1>6, <1>7 DEF r

-----------------------------------------------------------------------------
(* The needles that a value becomes.                                        *)

LEMMA MinOfTwo ==
    ASSUME NEW a \in Nat, NEW b \in Nat
    PROVE  Min({a, b}) = IF a <= b THEN a ELSE b
  <1> DEFINE m == IF a <= b THEN a ELSE b
  <1>1. m \in {a, b} /\ \A y \in {a, b} : m <= y
    OBVIOUS
  <1> HIDE DEF m
  <1>2. Min({a, b}) \in {a, b} /\ \A y \in {a, b} : Min({a, b}) <= y
    BY <1>1 DEF Min
  <1>3. \A x, y \in {a, b} : x <= y /\ y <= x => x = y
    OBVIOUS
  <1> QED
    BY <1>1, <1>2, <1>3 DEF m

LEMMA SpellIs ==
    ASSUME NEW v \in Seq(Chars) \ {<<>>}
    PROVE  Spell(v) \in Needle /\ Len(Spell(v)) = Len(v) /\ Len(v) \in Nat \ {0}
           /\ \A k \in DOMAIN Spell(v) : \E c \in Chars : Spell(v)[k] = Plain(c)
  <1>1. /\ Len(v) \in Nat \ {0} /\ DOMAIN v = 1 .. Len(v)
        /\ \A i \in 1 .. Len(v) : v[i] \in Chars
    BY LenProperties, EmptySeq, ElementOfSeq
  <1>2. Spell(v) = [i \in 1 .. Len(v) |-> Plain(v[i])]
    BY <1>1 DEF Spell
  <1>3. \A c \in Chars : Plain(c) \in Printable
    BY DEF Printable
  <1>4. Spell(v) \in [1 .. Len(v) -> Printable]
    BY <1>1, <1>2, <1>3
  <1>5. Spell(v) \in Seq(Printable) /\ Len(Spell(v)) = Len(v)
    BY <1>1, <1>4, FunIsSeq
  <1>6. Spell(v) # <<>>
    BY <1>1, <1>5, EmptySeq
  <1>7. \A k \in DOMAIN Spell(v) : \E c \in Chars : Spell(v)[k] = Plain(c)
    BY <1>1, <1>2
  <1> QED
    BY <1>1, <1>5, <1>6, <1>7 DEF Needle

\* Groups is how many groups encode n characters.
Groups(n) == (n + Group - 1) \div Group

LEMMA GroupsIs ==
    ASSUME NEW n \in Nat \ {0}
    PROVE  /\ Groups(n) \in Nat \ {0}
           /\ \A j \in 1 .. Groups(n) : (j - 1) * Group < n
           /\ Groups(n) * (Group + 1) > n
           /\ Groups(n) * (Group + 1) \in Nat
  <1> Group \in Nat \ {0}
    BY Bounds
  <1> DEFINE k == Groups(n)
  <1>1. k \in Int /\ k * Group <= n + Group - 1 /\ n + Group - 1 < (k + 1) * Group
    BY DEF Groups
  <1> HIDE DEF k
  <1>2. (k + 1) * Group = k * Group + Group
    BY <1>1
  <1>3. k * Group >= n
    BY <1>1, <1>2
  <1>4. k >= 1
    <2>1. n + Group - 1 \in Nat
      OBVIOUS
    <2>2. k \in Nat
      BY <2>1 DEF k, Groups
    <2>3. k = 0 => k * Group = 0
      OBVIOUS
    <2> QED
      BY <1>3, <2>2, <2>3
  <1>5. k * (Group + 1) = k * Group + k
    BY <1>1
  <1>6. ASSUME NEW j \in 1 .. k PROVE (j - 1) * Group < n
    <2>1. (j - 1) * Group <= (k - 1) * Group
      BY <1>1
    <2>2. (k - 1) * Group = k * Group - Group
      BY <1>1
    <2> QED
      BY <1>1, <2>1, <2>2
  <1> QED
    BY <1>1, <1>3, <1>4, <1>5, <1>6 DEF k

LEMMA EncodeIs ==
    ASSUME NEW v \in Seq(Chars) \ {<<>>}
    PROVE  Encode(v) \in Needle /\ Len(Encode(v)) = Groups(Len(v))
  <1>1. /\ Len(v) \in Nat \ {0} /\ DOMAIN v = 1 .. Len(v)
        /\ \A i \in 1 .. Len(v) : v[i] \in Chars
    BY LenProperties, EmptySeq, ElementOfSeq
  <1>2. Group \in Nat \ {0}
    BY Bounds
  <1> DEFINE k == Groups(Len(v))
             part(j) == SubSeq(v, (j - 1) * Group + 1, Min({j * Group, Len(v)}))
  <1>3. /\ k \in Nat \ {0}
        /\ \A j \in 1 .. k : (j - 1) * Group < Len(v)
    BY <1>1, GroupsIs
  <1>4. Encode(v) = [j \in 1 .. k |-> Coded(part(j))]
    BY DEF Encode, Groups
  <1> HIDE DEF k
  <1>5. ASSUME NEW j \in 1 .. k
        PROVE  part(j) \in BoundedSeq(Chars, Group) \ {<<>>}
    <2> DEFINE first == (j - 1) * Group + 1
               last == Min({j * Group, Len(v)})
    <2>1. j * Group = (j - 1) * Group + Group /\ (j - 1) * Group \in Nat
          /\ j * Group \in Nat
      BY <1>2, <1>3
    <2>2. first - 1 < Len(v)
      BY <1>3, <2>1
    <2>3. last = IF j * Group <= Len(v) THEN j * Group ELSE Len(v)
      BY <1>1, <2>1, MinOfTwo
    <2>4. /\ first \in Nat \ {0} /\ last \in Nat /\ first <= last
          /\ last <= Len(v) /\ last - first + 1 <= Group
      BY <1>1, <1>2, <2>1, <2>2, <2>3
    <2> HIDE DEF first, last
    <2>5. \A i \in first .. last : v[i] \in Chars
      BY <1>1, <2>4
    <2> DEFINE s == SubSeq(v, first, last)
    <2>6. s \in Seq(Chars) /\ Len(s) = last - first + 1
      BY <2>4, <2>5, SubSeqProperties
    <2> HIDE DEF s
    <2>7. s # <<>> /\ Len(s) \in 0 .. Group
      BY <1>2, <2>4, <2>6, EmptySeq
    <2>8. s \in [1 .. Len(s) -> Chars]
      BY <2>6, LenProperties
    <2>9. s \in BoundedSeq(Chars, Group)
      BY <2>7, <2>8 DEF BoundedSeq, SeqOf
    <2> QED
      BY <2>7, <2>9 DEF s, first, last
  <1> HIDE DEF part
  <1>6. \A j \in 1 .. k : Coded(part(j)) \in Printable
    BY <1>5 DEF Printable
  <1>7. Encode(v) \in [1 .. k -> Printable]
    BY <1>4, <1>6
  <1>8. Encode(v) \in Seq(Printable) /\ Len(Encode(v)) = k
    BY <1>3, <1>7, FunIsSeq
  <1>9. Encode(v) # <<>>
    BY <1>3, <1>8, EmptySeq
  <1> QED
    BY <1>8, <1>9 DEF Needle, k

Named == {n \in Names : value[n] # <<>>}

LEMMA ValuesAre ==
    ASSUME value \in [Names -> Values]
    PROVE  /\ \A n \in Names : n \in Nat
           /\ \A n \in Named : /\ n \in Names /\ value[n] \in Seq(Chars) \ {<<>>}
                               /\ value[n] \in Secrets
                               /\ Len(value[n]) \in Nat \ {0}
           /\ \A v \in Secrets : v \in Seq(Chars) \ {<<>>}
                                 /\ \E n \in Named : value[n] = v
           /\ IsFiniteSet(Named)
  <1>1. \A n \in Names : value[n] \in Seq(Chars)
    BY ValuesAssumption
  <1>2. \A n \in Named : n \in Names /\ value[n] \in Seq(Chars) \ {<<>>}
    BY <1>1 DEF Named
  <1>3. ASSUME NEW n \in Named PROVE Len(value[n]) \in Nat \ {0}
    BY <1>2, LenProperties, EmptySeq
  <1>4. IsFiniteSet(Names) /\ Named \subseteq Names
    BY FS_Interval, Bounds DEF Names, Named
  <1>5. IsFiniteSet(Named)
    BY <1>4, FS_Subset
  <1>6. \A n \in Names : n \in Nat
    BY Bounds DEF Names
  <1> QED
    BY <1>1, <1>2, <1>3, <1>5, <1>6 DEF Named, Secrets

LEMMA LongerOrders ==
    ASSUME value \in [Names -> Values], NEW x \in Named, NEW y \in Named,
           NEW z \in Named
    PROVE  /\ Longer(x, y) /\ Longer(y, z) => Longer(x, z)
           /\ x # y => Longer(x, y) \/ Longer(y, x)
           /\ ~Longer(x, x)
  <1>1. /\ x \in Nat /\ y \in Nat /\ z \in Nat
        /\ Len(value[x]) \in Nat /\ Len(value[y]) \in Nat /\ Len(value[z]) \in Nat
    BY ValuesAre
  <1> QED
    BY <1>1 DEF Longer

\* The value needles are those of the secrets, and none comes after a shorter.
LEMMA ValueNeedlesAre ==
    ASSUME value \in [Names -> Values]
    PROVE  /\ ValueNeedles \in Seq(Needle)
           /\ \A i \in 1 .. Len(ValueNeedles) :
                 \E v \in Secrets : ValueNeedles[i] = Spell(v)
           /\ \A v \in Secrets :
                 \E i \in 1 .. Len(ValueNeedles) : ValueNeedles[i] = Spell(v)
           /\ \A i, j \in 1 .. Len(ValueNeedles) :
                 i < j => Len(ValueNeedles[i]) >= Len(ValueNeedles[j])
  <1> DEFINE R == {p \in Named \X Named : Longer(p[1], p[2])}
             s == InOrder
             n == Cardinality(Named)
  <1>1. /\ IsFiniteSet(Named) /\ n \in Nat
        /\ \A m \in Named : m \in Nat /\ Len(value[m]) \in Nat
    BY ValuesAre, FS_CardinalityType
  <1>2. \A x, y \in Named : <<x, y>> \in R <=> Longer(x, y)
    OBVIOUS
  <1> HIDE DEF R
  <1>3. Orders(R, Named)
    <2>1. \A x, y, z \in Named : Longer(x, y) /\ Longer(y, z) => Longer(x, z)
      BY LongerOrders
    <2>2. \A x, y \in Named : x # y => Longer(x, y) \/ Longer(y, x)
      BY LongerOrders
    <2>3. \A x \in Named : ~Longer(x, x)
      BY LongerOrders
    <2> QED
      BY <1>2, <2>1, <2>2, <2>3 DEF Orders
  <1>4. \A i \in 1 .. n : \E x \in Named : Cardinality(Before(R, Named, x)) = i - 1
    BY <1>1, <1>3, RankOrders
  <1>5. \A x \in Named : {y \in Named : Longer(y, x)} = Before(R, Named, x)
    BY <1>2 DEF Before
  <1>6. s = [i \in 1 .. n |->
                CHOOSE x \in Named : Cardinality({y \in Named : Longer(y, x)}) = i - 1]
    BY DEF InOrder, Sorted, Named
  <1> HIDE DEF n, s
  <1>7. ASSUME NEW i \in 1 .. n
        PROVE  s[i] \in Named /\ Cardinality(Before(R, Named, s[i])) = i - 1
    <2> DEFINE P(x) == Cardinality({y \in Named : Longer(y, x)}) = i - 1
    <2>1. \E x \in Named : P(x)
      BY <1>4, <1>5
    <2>2. s[i] = CHOOSE x \in Named : P(x)
      BY <1>6
    <2> HIDE DEF P
    <2>3. s[i] \in Named /\ P(s[i])
      BY <2>1, <2>2
    <2> USE DEF P
    <2> QED
      BY <1>5, <2>3
  <1>8. s \in [1 .. n -> Named]
    BY <1>6, <1>7
  <1>9. Ranked(s, R, Named)
    BY <1>7, <1>8 DEF Ranked, n
  <1>10. /\ \A x \in Named : \E i \in 1 .. n : s[i] = x
         /\ \A i, j \in 1 .. n : i < j => <<s[i], s[j]>> \in R
    BY <1>1, <1>3, <1>9, RankOrders DEF n
  <1> DEFINE u == ValueNeedles
  <1>11. u = [i \in 1 .. n |-> Spell(value[s[i]])]
    BY <1>8 DEF ValueNeedles, s
  <1> HIDE DEF u
  <1>12. ASSUME NEW x \in Named
         PROVE  Spell(value[x]) \in Needle /\ Len(Spell(value[x])) = Len(value[x])
    BY ValuesAre, SpellIs
  <1>13. u \in [1 .. n -> Needle]
    BY <1>8, <1>11, <1>12
  <1>14. u \in Seq(Needle) /\ Len(u) = n
    BY <1>1, <1>13, FunIsSeq
  <1>15. ASSUME NEW i \in 1 .. n PROVE \E v \in Secrets : u[i] = Spell(v)
    BY <1>8, <1>11, ValuesAre
  <1>16. ASSUME NEW v \in Secrets PROVE \E i \in 1 .. n : u[i] = Spell(v)
    <2>1. PICK x \in Named : value[x] = v
      BY ValuesAre
    <2>2. PICK i \in 1 .. n : s[i] = x
      BY <1>10
    <2> QED
      BY <1>11, <2>1, <2>2
  <1>17. ASSUME NEW i \in 1 .. n, NEW j \in 1 .. n, i < j
         PROVE  Len(u[i]) >= Len(u[j])
    <2>1. /\ s[i] \in Named /\ s[j] \in Named /\ Longer(s[i], s[j])
          /\ Len(value[s[i]]) \in Nat /\ Len(value[s[j]]) \in Nat
      BY <1>1, <1>2, <1>8, <1>10, <1>17
    <2>2. Len(u[i]) = Len(value[s[i]]) /\ Len(u[j]) = Len(value[s[j]])
      BY <1>11, <1>12, <2>1
    <2> QED
      BY <2>1, <2>2 DEF Longer
  <1> QED
    BY <1>14, <1>15, <1>16, <1>17 DEF u

Forms == Named \X {"coded", "plain"}

Spelled(p) == IF p[2] = "coded" THEN Encode(value[p[1]]) ELSE Spell(value[p[1]])

Letters(p) == Len(Spelled(p)) * (IF p[2] = "coded" THEN Group + 1 ELSE 1)

FormBefore(p, q) ==
    \/ Letters(p) > Letters(q)
    \/ Letters(p) = Letters(q) /\ Longer(p[1], q[1])

\* The form needles are the values and their encodings.
LEMMA FormNeedlesAre ==
    ASSUME value \in [Names -> Values]
    PROVE  /\ FormNeedles \in Seq(Needle)
           /\ \A i \in 1 .. Len(FormNeedles) :
                 \E v \in Secrets :
                    FormNeedles[i] = Spell(v) \/ FormNeedles[i] = Encode(v)
           /\ \A v \in Secrets :
                 \E i, j \in 1 .. Len(FormNeedles) :
                    FormNeedles[i] = Spell(v) /\ FormNeedles[j] = Encode(v)
  <1> DEFINE R == {p \in Forms \X Forms : FormBefore(p[1], p[2])}
             n == Cardinality(Forms)
  <1>1. /\ IsFiniteSet(Named)
        /\ \A m \in Named : /\ m \in Nat /\ Len(value[m]) \in Nat \ {0}
                            /\ value[m] \in Seq(Chars) \ {<<>>}
                            /\ value[m] \in Secrets
    BY ValuesAre
  <1>2. IsFiniteSet(Forms) /\ n \in Nat
    <2>1. IsFiniteSet({"coded", "plain"})
      <3>1. {"coded", "plain"} = {"coded"} \cup {"plain"}
        OBVIOUS
      <3>2. IsFiniteSet({"coded"})
        BY FS_Singleton
      <3> QED
        BY <3>1, <3>2, FS_AddElement
    <2>2. IsFiniteSet(Forms)
      BY <1>1, <2>1, FS_Product DEF Forms
    <2> QED
      BY <2>2, FS_CardinalityType
  <1>3. \A p, q \in Forms : <<p, q>> \in R <=> FormBefore(p, q)
    OBVIOUS
  <1> HIDE DEF R
  <1>4. ASSUME NEW p \in Forms
        PROVE  /\ p = <<p[1], p[2]>> /\ p[1] \in Named /\ p[2] \in {"coded", "plain"}
               /\ p[1] \in Nat /\ Len(value[p[1]]) \in Nat /\ Letters(p) \in Nat
               /\ Spelled(p) \in Needle
               /\ p[2] = "plain" => Letters(p) = Len(value[p[1]])
               /\ p[2] = "coded" => Letters(p) > Len(value[p[1]])
    <2>1. p = <<p[1], p[2]>> /\ p[1] \in Named /\ p[2] \in {"coded", "plain"}
      BY DEF Forms
    <2>2. /\ p[1] \in Nat /\ Len(value[p[1]]) \in Nat \ {0}
          /\ value[p[1]] \in Seq(Chars) \ {<<>>}
      BY <1>1, <2>1
    <2>3. CASE p[2] = "coded"
      <3>1. Spelled(p) \in Needle /\ Len(Spelled(p)) = Groups(Len(value[p[1]]))
        BY <2>2, <2>3, EncodeIs DEF Spelled
      <3>2. Letters(p) = Groups(Len(value[p[1]])) * (Group + 1)
        BY <2>3, <3>1 DEF Letters
      <3>3. Letters(p) \in Nat /\ Letters(p) > Len(value[p[1]])
        BY <2>2, <3>2, GroupsIs
      <3> QED
        BY <2>1, <2>2, <2>3, <3>1, <3>3
    <2>4. CASE p[2] = "plain"
      <3>1. Spelled(p) \in Needle /\ Len(Spelled(p)) = Len(value[p[1]])
        BY <2>2, <2>4, SpellIs DEF Spelled
      <3>2. Letters(p) = Len(value[p[1]])
        BY <2>2, <2>4, <3>1 DEF Letters
      <3> QED
        BY <2>1, <2>2, <2>4, <3>1, <3>2
    <2> QED
      BY <2>1, <2>3, <2>4
  <1>5. Orders(R, Forms)
    <2>1. ASSUME NEW x \in Forms, NEW y \in Forms, NEW z \in Forms,
                 FormBefore(x, y), FormBefore(y, z)
          PROVE  FormBefore(x, z)
      <3>1. Letters(x) \in Nat /\ Letters(y) \in Nat /\ Letters(z) \in Nat
        BY <1>4
      <3>2. Longer(x[1], y[1]) /\ Longer(y[1], z[1]) => Longer(x[1], z[1])
        BY <1>4, LongerOrders
      <3>3. CASE Letters(x) > Letters(z)
        BY <3>3 DEF FormBefore
      <3>4. CASE ~(Letters(x) > Letters(z))
        <4>1. Letters(x) >= Letters(y) /\ Letters(y) >= Letters(z)
          BY <2>1, <3>1 DEF FormBefore
        <4>2. Letters(x) = Letters(y) /\ Letters(y) = Letters(z)
          BY <3>1, <3>4, <4>1
        <4>3. ~(Letters(x) > Letters(y)) /\ ~(Letters(y) > Letters(z))
          BY <3>1, <4>2
        <4> QED
          BY <2>1, <3>2, <4>2, <4>3 DEF FormBefore
      <3> QED
        BY <3>3, <3>4
    <2>2. ASSUME NEW x \in Forms, NEW y \in Forms, x # y
          PROVE  FormBefore(x, y) \/ FormBefore(y, x)
      <3>1. Letters(x) \in Nat /\ Letters(y) \in Nat
        BY <1>4
      <3>2. CASE x[1] = y[1]
        <4>1. x[2] # y[2]
          BY <1>4, <2>2, <3>2
        <4>2. Letters(x) # Letters(y)
          BY <1>4, <3>1, <3>2, <4>1
        <4> QED
          BY <3>1, <4>2 DEF FormBefore
      <3>3. CASE x[1] # y[1]
        <4>1. Longer(x[1], y[1]) \/ Longer(y[1], x[1])
          BY <1>4, <3>3, LongerOrders
        <4> QED
          BY <3>1, <4>1 DEF FormBefore
      <3> QED
        BY <3>2, <3>3
    <2>3. ASSUME NEW x \in Forms PROVE ~FormBefore(x, x)
      <3>1. Letters(x) \in Nat /\ ~Longer(x[1], x[1])
        BY <1>4, LongerOrders
      <3> QED
        BY <3>1 DEF FormBefore
    <2> QED
      BY <1>3, <2>1, <2>2, <2>3 DEF Orders
  <1>6. \A i \in 1 .. n : \E x \in Forms : Cardinality(Before(R, Forms, x)) = i - 1
    BY <1>2, <1>5, RankOrders
  <1>7. \A x \in Forms : {y \in Forms : FormBefore(y, x)} = Before(R, Forms, x)
    BY <1>3 DEF Before
  <1> DEFINE s == [i \in 1 .. n |->
                 CHOOSE x \in Forms : Cardinality({y \in Forms : FormBefore(y, x)}) = i - 1]
             u == FormNeedles
  <1>8. u = [i \in DOMAIN s |-> Spelled(s[i])]
    BY DEF FormNeedles, Sorted, Forms, Named, FormBefore, Letters, Spelled
  <1>9. s = [i \in 1 .. n |->
                 CHOOSE x \in Forms : Cardinality({y \in Forms : FormBefore(y, x)}) = i - 1]
    OBVIOUS
  <1> HIDE DEF n, s, u
  <1>10. ASSUME NEW i \in 1 .. n
         PROVE  s[i] \in Forms /\ Cardinality(Before(R, Forms, s[i])) = i - 1
    <2> DEFINE P(x) == Cardinality({y \in Forms : FormBefore(y, x)}) = i - 1
    <2>1. \E x \in Forms : P(x)
      BY <1>6, <1>7
    <2>2. s[i] = CHOOSE x \in Forms : P(x)
      BY <1>9
    <2> HIDE DEF P
    <2>3. s[i] \in Forms /\ P(s[i])
      BY <2>1, <2>2
    <2> USE DEF P
    <2> QED
      BY <1>7, <2>3
  <1>11. s \in [1 .. n -> Forms]
    BY <1>9, <1>10
  <1>12. Ranked(s, R, Forms)
    BY <1>10, <1>11 DEF Ranked, n
  <1>13. \A x \in Forms : \E i \in 1 .. n : s[i] = x
    BY <1>2, <1>5, <1>12, RankOrders DEF n
  <1>14. u = [i \in 1 .. n |-> Spelled(s[i])]
    BY <1>8, <1>11
  <1>15. u \in [1 .. n -> Needle]
    BY <1>4, <1>11, <1>14
  <1>16. u \in Seq(Needle) /\ Len(u) = n
    BY <1>2, <1>15, FunIsSeq
  <1>17. ASSUME NEW i \in 1 .. n
         PROVE  \E v \in Secrets : u[i] = Spell(v) \/ u[i] = Encode(v)
    <2>1. s[i] \in Forms /\ u[i] = Spelled(s[i])
      BY <1>11, <1>14
    <2>2. value[s[i][1]] \in Secrets
      BY <1>1, <1>4, <2>1
    <2> QED
      BY <2>1, <2>2 DEF Spelled
  <1>18. ASSUME NEW v \in Secrets
         PROVE  \E i, j \in 1 .. n : u[i] = Spell(v) /\ u[j] = Encode(v)
    <2>1. PICK x \in Named : value[x] = v
      BY ValuesAre
    <2>2. <<x, "plain">> \in Forms /\ <<x, "coded">> \in Forms
      BY DEF Forms
    <2>3. PICK i \in 1 .. n : s[i] = <<x, "plain">>
      BY <1>13, <2>2
    <2>4. PICK j \in 1 .. n : s[j] = <<x, "coded">>
      BY <1>13, <2>2
    <2>5. u[i] = Spell(v) /\ u[j] = Encode(v)
      BY <1>14, <2>1, <2>3, <2>4 DEF Spelled
    <2> QED
      BY <2>5
  <1> QED
    BY <1>16, <1>17, <1>18 DEF u

-----------------------------------------------------------------------------
(* The runs of a text.                                                      *)

Text == Seq(Printable \cup {Mark})

LEMMA StretchIs ==
    ASSUME NEW s \in Text, NEW r \in Stretches(s)
    PROVE  /\ r.first \in 1 .. Len(s) /\ r.last \in 1 .. Len(s) /\ Len(s) \in Nat
           /\ r = [first |-> r.first, last |-> r.last] /\ r.first <= r.last
           /\ \A k \in r.first .. r.last : InRun(s[k])
           /\ r.first = 1 \/ ~InRun(s[r.first - 1])
           /\ r.last = Len(s) \/ ~InRun(s[r.last + 1])
  <1>1. DOMAIN s = 1 .. Len(s) /\ Len(s) \in Nat
    BY LenProperties DEF Text
  <1>2. r \in [first : 1 .. Len(s), last : 1 .. Len(s)]
    BY <1>1 DEF Stretches, Span
  <1> QED
    BY <1>1, <1>2 DEF Stretches

\* A position is in one stretch at most.
LEMMA OneStretch ==
    ASSUME NEW s \in Text, NEW r \in Stretches(s), NEW q \in Stretches(s),
           NEW k, k \in r.first .. r.last, k \in q.first .. q.last
    PROVE  r = q
  <1>1. ASSUME NEW a \in Stretches(s), NEW b \in Stretches(s),
               k \in a.first .. a.last, k \in b.first .. b.last
        PROVE  a.first <= b.first /\ b.last <= a.last
    <2>1. /\ a.first \in 1 .. Len(s) /\ a.last \in 1 .. Len(s) /\ Len(s) \in Nat
          /\ b.first \in 1 .. Len(s) /\ b.last \in 1 .. Len(s)
          /\ \A i \in b.first .. b.last : InRun(s[i])
          /\ a.first = 1 \/ ~InRun(s[a.first - 1])
          /\ a.last = Len(s) \/ ~InRun(s[a.last + 1])
      BY StretchIs
    <2>2. a.first <= b.first
      <3> SUFFICES ASSUME b.first < a.first PROVE FALSE
        BY <2>1
      <3>1. a.first - 1 \in b.first .. b.last /\ a.first # 1
        BY <1>1, <2>1
      <3> QED
        BY <2>1, <3>1
    <2>3. b.last <= a.last
      <3> SUFFICES ASSUME a.last < b.last PROVE FALSE
        BY <2>1
      <3>1. a.last + 1 \in b.first .. b.last /\ a.last # Len(s)
        BY <1>1, <2>1
      <3> QED
        BY <2>1, <3>1
    <2> QED
      BY <2>2, <2>3
  <1>2. r.first <= q.first /\ q.last <= r.last /\ q.first <= r.first /\ r.last <= q.last
    BY <1>1
  <1>3. /\ r.first \in Nat /\ r.last \in Nat /\ q.first \in Nat /\ q.last \in Nat
        /\ r = [first |-> r.first, last |-> r.last]
        /\ q = [first |-> q.first, last |-> q.last]
    BY StretchIs
  <1>4. r.first = q.first /\ r.last = q.last
    BY <1>2, <1>3
  <1> QED
    BY <1>3, <1>4

\* p is the run of the stretch r that begins where p does.
Cuts(p, r) ==
    /\ r.first <= p.first /\ p.first <= p.last
    /\ (p.first - r.first) % MaxRun = 0
    /\ p.last = Min({p.first + MaxRun - 1, r.last})

LEMMA RunIs ==
    ASSUME NEW s \in Text, NEW p \in Runs(s)
    PROVE  /\ p.first \in 1 .. Len(s) /\ p.last \in 1 .. Len(s) /\ Len(s) \in Nat
           /\ p = [first |-> p.first, last |-> p.last] /\ p.first <= p.last
           /\ \E r \in Stretches(s) :
                 /\ Cuts(p, r) /\ r.first <= p.first /\ p.last <= r.last
                 /\ p.last = IF p.first + MaxRun - 1 <= r.last
                             THEN p.first + MaxRun - 1 ELSE r.last
           /\ \A k \in p.first .. p.last : InRun(s[k])
  <1>1. DOMAIN s = 1 .. Len(s) /\ Len(s) \in Nat
    BY LenProperties DEF Text
  <1>2. p \in [first : 1 .. Len(s), last : 1 .. Len(s)]
    BY <1>1 DEF Runs, Span
  <1>3. PICK r \in Stretches(s) : Cuts(p, r)
    BY DEF Runs, Cuts
  <1>4. /\ r.first \in 1 .. Len(s) /\ r.last \in 1 .. Len(s)
        /\ \A k \in r.first .. r.last : InRun(s[k])
    BY StretchIs
  <1>5. p.first \in 1 .. Len(s) /\ p.last \in 1 .. Len(s) /\ MaxRun \in Nat \ {0}
    BY <1>2, Bounds
  <1>6. p.first + MaxRun - 1 \in Nat /\ r.last \in Nat
    BY <1>4, <1>5
  <1>7. p.last = IF p.first + MaxRun - 1 <= r.last
                 THEN p.first + MaxRun - 1 ELSE r.last
    BY <1>3, <1>6, MinOfTwo DEF Cuts
  <1>8. r.first <= p.first /\ p.first <= p.last /\ p.last <= r.last
    BY <1>3, <1>4, <1>5, <1>7 DEF Cuts
  <1>9. \A k \in p.first .. p.last : InRun(s[k])
    BY <1>4, <1>5, <1>8
  <1> QED
    BY <1>1, <1>2, <1>3, <1>5, <1>7, <1>8, <1>9

\* A position is the first of one run at most.
LEMMA OneRun ==
    ASSUME NEW s \in Text, NEW p \in Runs(s), NEW q \in Runs(s), p.first = q.first
    PROVE  p = q
  <1>1. PICK r \in Stretches(s) :
            /\ Cuts(p, r) /\ r.first <= p.first /\ p.last <= r.last
            /\ p.last = IF p.first + MaxRun - 1 <= r.last
                        THEN p.first + MaxRun - 1 ELSE r.last
    BY RunIs
  <1>2. PICK u \in Stretches(s) :
            /\ Cuts(q, u) /\ u.first <= q.first /\ q.last <= u.last
            /\ q.last = IF q.first + MaxRun - 1 <= u.last
                        THEN q.first + MaxRun - 1 ELSE u.last
    BY RunIs
  <1>3. /\ p.first \in Nat /\ p.last \in Nat /\ q.first \in Nat /\ q.last \in Nat
        /\ p.first <= p.last /\ q.first <= q.last
        /\ p = [first |-> p.first, last |-> p.last]
        /\ q = [first |-> q.first, last |-> q.last]
    BY RunIs
  <1>4. r.first \in Nat /\ r.last \in Nat /\ u.first \in Nat /\ u.last \in Nat
    BY StretchIs
  <1>5. p.first \in r.first .. r.last /\ p.first \in u.first .. u.last
    BY <1>1, <1>2, <1>3, <1>4
  <1>6. r = u
    BY <1>5, OneStretch
  <1>7. p.last = q.last
    BY <1>1, <1>2, <1>6
  <1> QED
    BY <1>3, <1>7

LEMMA RunsFinite ==
    ASSUME NEW s \in Text, NEW T \in SUBSET Runs(s)
    PROVE  IsFiniteSet(T)
  <1> DEFINE f == [p \in T |-> p.first]
  <1>1. Len(s) \in Nat /\ \A p \in T : p.first \in 1 .. Len(s)
    BY RunIs, LenProperties DEF Text
  <1>2. f \in [T -> 1 .. Len(s)]
    BY <1>1
  <1>3. \A p, q \in T : f[p] = f[q] => p = q
    BY OneRun
  <1> HIDE DEF f
  <1>4. f \in Injection(T, 1 .. Len(s))
    BY <1>2, <1>3, Fun_IsInj
  <1>5. IsFiniteSet(1 .. Len(s))
    BY <1>1, FS_Interval
  <1> QED
    BY <1>4, <1>5, FS_Injection

LEMMA InRunIs ==
    \A x \in Printable \cup {Mark} : InRun(x) => x \in Printable
  BY CharsAssumption DEF InRun, Mark, Printable, Plain

LEMMA SpellingIs ==
    ASSUME NEW s \in Text, NEW p \in Runs(s)
    PROVE  /\ Spelling(s, p) \in Needle
           /\ Len(Spelling(s, p)) = p.last - p.first + 1
           /\ \A k \in 1 .. p.last - p.first + 1 :
                 Spelling(s, p)[k] = s[p.first + k - 1]
  <1>1. /\ p.first \in 1 .. Len(s) /\ p.last \in 1 .. Len(s) /\ Len(s) \in Nat
        /\ p.first <= p.last /\ \A k \in p.first .. p.last : InRun(s[k])
    BY RunIs
  <1>2. \A k \in 1 .. Len(s) : s[k] \in Printable \cup {Mark}
    BY LenProperties, ElementOfSeq DEF Text
  <1>3. \A k \in p.first .. p.last : s[k] \in Printable
    BY <1>1, <1>2, InRunIs
  <1>4. p.first \in Int /\ p.last \in Int
    BY <1>1
  <1> DEFINE u == SubSeq(s, p.first, p.last)
  <1>5. /\ u \in Seq(Printable)
        /\ Len(u) = IF p.first <= p.last THEN p.last - p.first + 1 ELSE 0
        /\ \A k \in 1 .. p.last - p.first + 1 : u[k] = s[p.first + k - 1]
    BY <1>3, <1>4, SubSeqProperties
  <1> HIDE DEF u
  <1>6. Len(u) = p.last - p.first + 1 /\ Len(u) # 0
    BY <1>1, <1>5
  <1>7. u # <<>>
    BY <1>6, EmptySeq
  <1> QED
    BY <1>5, <1>6, <1>7 DEF u, Needle, Spelling

\* The hits are the spellings of the runs that hold a secret.
LEMMA HitsAre ==
    ASSUME NEW s \in Text
    PROVE  /\ Hits(s) \in Seq(Needle)
           /\ \A i \in 1 .. Len(Hits(s)) :
                 \E p \in Holders(s) : Hits(s)[i] = Spelling(s, p)
           /\ \A p \in Holders(s) :
                 \E i \in 1 .. Len(Hits(s)) : Hits(s)[i] = Spelling(s, p)
  <1> DEFINE H == Holders(s)
             R == {x \in H \X H : Earlier(x[1], x[2])}
             n == Cardinality(H)
  <1>1. H \in SUBSET Runs(s)
    BY DEF Holders, Looked
  <1>2. IsFiniteSet(H) /\ n \in Nat
    BY <1>1, RunsFinite, FS_CardinalityType
  <1>3. \A p, q \in H : <<p, q>> \in R <=> Earlier(p, q)
    OBVIOUS
  <1>4. \A p \in H : p \in Runs(s) /\ p.first \in Nat
    BY <1>1, RunIs
  <1> HIDE DEF R
  <1>5. Orders(R, H)
    <2> HIDE DEF H
    <2>1. ASSUME NEW x \in H, NEW y \in H, NEW z \in H, Earlier(x, y), Earlier(y, z)
          PROVE  Earlier(x, z)
      BY <1>4, <2>1 DEF Earlier
    <2>2. ASSUME NEW x \in H, NEW y \in H, x # y PROVE Earlier(x, y) \/ Earlier(y, x)
      <3>1. x.first # y.first
        BY <1>4, <2>2, OneRun
      <3> QED
        BY <1>4, <3>1 DEF Earlier
    <2>3. ASSUME NEW x \in H PROVE ~Earlier(x, x)
      BY <1>4 DEF Earlier
    <2> QED
      BY <1>3, <2>1, <2>2, <2>3 DEF Orders
  <1>6. \A i \in 1 .. n : \E x \in H : Cardinality(Before(R, H, x)) = i - 1
    BY <1>2, <1>5, RankOrders
  <1>7. \A x \in H : {y \in H : Earlier(y, x)} = Before(R, H, x)
    BY <1>3 DEF Before
  <1> DEFINE w == [i \in 1 .. n |->
                 CHOOSE x \in H : Cardinality({y \in H : Earlier(y, x)}) = i - 1]
             u == Hits(s)
  <1>8. u = [i \in DOMAIN w |-> Spelling(s, w[i])]
    BY DEF Hits, InTurn, Sorted
  <1>9. w = [i \in 1 .. n |->
                 CHOOSE x \in H : Cardinality({y \in H : Earlier(y, x)}) = i - 1]
    OBVIOUS
  <1> HIDE DEF H, n, w, u
  <1>10. ASSUME NEW i \in 1 .. n
         PROVE  w[i] \in H /\ Cardinality(Before(R, H, w[i])) = i - 1
    <2> DEFINE P(x) == Cardinality({y \in H : Earlier(y, x)}) = i - 1
    <2>1. \E x \in H : P(x)
      BY <1>6, <1>7
    <2>2. w[i] = CHOOSE x \in H : P(x)
      BY <1>9
    <2> HIDE DEF P
    <2>3. w[i] \in H /\ P(w[i])
      BY <2>1, <2>2
    <2> USE DEF P
    <2> QED
      BY <1>7, <2>3
  <1>11. w \in [1 .. n -> H]
    BY <1>9, <1>10
  <1>12. Ranked(w, R, H)
    BY <1>10, <1>11 DEF Ranked, n
  <1>13. \A x \in H : \E i \in 1 .. n : w[i] = x
    BY <1>2, <1>5, <1>12, RankOrders DEF n
  <1>14. u = [i \in 1 .. n |-> Spelling(s, w[i])]
    BY <1>8, <1>11
  <1>15. \A p \in H : Spelling(s, p) \in Needle
    BY <1>4, SpellingIs
  <1>16. u \in [1 .. n -> Needle]
    BY <1>11, <1>14, <1>15
  <1>17. u \in Seq(Needle) /\ Len(u) = n
    BY <1>2, <1>16, FunIsSeq
  <1>18. \A i \in 1 .. n : \E p \in H : u[i] = Spelling(s, p)
    BY <1>11, <1>14
  <1>19. \A p \in H : \E i \in 1 .. n : u[i] = Spelling(s, p)
    BY <1>13, <1>14
  <1> QED
    BY <1>17, <1>18, <1>19 DEF H, u

LEMMA OutIsText == \A o \in Seq(Printable) : o \in Text
  <1> TAKE o \in Seq(Printable)
  <1>1. DOMAIN o = 1 .. Len(o) /\ Len(o) \in Nat
    BY LenProperties
  <1>2. o \in [1 .. Len(o) -> Printable \cup {Mark}]
    BY <1>1, LenProperties, ElementOfSeq
  <1> QED
    BY <1>1, <1>2, FunIsSeq DEF Text

-----------------------------------------------------------------------------
(* The inductive invariant.                                                 *)

\* Where values, their encodings, and runs that hold a secret are.
ValuePlaces   == UNION {PlacesIn(Spell(v), out) : v \in Secrets}
EncodedPlaces == UNION {PlacesIn(Encode(v), out) : v \in Secrets}
FoundPlaces   == UNION {PlacesIn(Run(p), out) : p \in Found}
SecretPlaces  == ValuePlaces \cup EncodedPlaces \cup FoundPlaces

LonePlaces ==
    {p \in ValuePlaces :
        \A q \in ValuePlaces : p \cap q = {} \/ p \subseteq q \/ q \subseteq p}

LoneRuns ==
    {p \in Found :
        \A q \in FoundPlaces : q \cap Where(p) = {} \/ Where(p) \subseteq q}

Listed(n, q) == \E i \in 1 .. Len(q) : q[i] = n

Typed ==
    /\ value \in [Names -> Values]
    /\ out \in Seq(Symbols) /\ Len(out) <= Cap
    /\ pass \in {"values", "runs", "forms", "done"}
    /\ todo \in Seq(Needle)

Weaves == Woven(text, out) /\ Woven(data, out)

\* What each pass has yet to replace.
TodoIs ==
    /\ pass = "values" =>
          \A i \in 1 .. Len(todo) : \E v \in Secrets : todo[i] = Spell(v)
    /\ pass = "runs" =>
          \A i \in 1 .. Len(todo) : \E p \in Found : todo[i] = Run(p)
    /\ pass = "forms" =>
          \A i \in 1 .. Len(todo) :
             \E v \in Secrets : todo[i] = Spell(v) \/ todo[i] = Encode(v)
    /\ pass = "done" => todo = <<>>

LongestFirst ==
    pass = "values" =>
        \A i, j \in 1 .. Len(todo) : i < j => Len(todo[i]) >= Len(todo[j])

\* The pass over runs has yet to be given what it looks at.
DataLater == pass = "values" => data = <<>>

SecretsOnly ==
    \A a \in DOMAIN out : a \notin LeftOf(text) => \E p \in SecretPlaces : a \in p

\* A form is still to be replaced, or none of its places is whole.
Handled(n, t, o, q) ==
    Listed(n, q) \/ \A p \in PlacesIn(n, o) : ~(p \subseteq LeftOf(t))

FormsGo ==
    pass \in {"forms", "done"} =>
        \A v \in Secrets :
            Handled(Spell(v), text, out, todo) /\ Handled(Encode(v), text, out, todo)

\* A place is gone, or it is whole and still to be replaced.
Due(p, t, listed) ==
    p \cap LeftOf(t) = {} \/ (p \subseteq LeftOf(t) /\ listed)

ValuesGo ==
    \A v \in Secrets : \A p \in LonePlaces :
        p \in PlacesIn(Spell(v), out) =>
            Due(p, text, pass = "values" /\ Listed(Spell(v), todo))

RunsGo ==
    pass # "values" =>
        \A p \in LoneRuns :
            Due(Where(p), text, pass = "runs" /\ Listed(Run(p), todo))

\* A run is still to be replaced, or none of its places is whole.
RunsBreak ==
    pass # "values" =>
        \A p \in Found :
            \/ pass = "runs" /\ Listed(Run(p), todo)
            \/ \A q \in PlacesIn(Run(p), out) : ~(q \subseteq LeftOf(text))

Inv ==
    /\ Typed /\ Weaves /\ TodoIs /\ LongestFirst /\ DataLater
    /\ SecretsOnly /\ FormsGo /\ ValuesGo /\ RunsGo /\ RunsBreak

LEMMA SecretIs ==
    ASSUME Typed, NEW v \in Secrets
    PROVE  v \in Seq(Chars) \ {<<>>} /\ Spell(v) \in Needle /\ Encode(v) \in Needle
  <1>1. v \in Seq(Chars) \ {<<>>}
    BY ValuesAre DEF Typed
  <1> QED
    BY <1>1, SpellIs, EncodeIs

LEMMA OutIs ==
    ASSUME Typed
    PROVE  /\ out \in Seq(Printable) /\ out \in Text
           /\ DOMAIN out = 1 .. Len(out) /\ Len(out) \in Nat
  <1>1. out \in Seq(Symbols) /\ DOMAIN out = 1 .. Len(out) /\ Len(out) \in Nat
    BY LenProperties DEF Typed
  <1>2. \A i \in 1 .. Len(out) : out[i] \in Printable
    BY <1>1, ElementOfSeq, SymbolsAssumption
  <1>3. out \in [1 .. Len(out) -> Printable]
    BY <1>1, <1>2, LenProperties
  <1>4. out \in Seq(Printable)
    BY <1>1, <1>3, FunIsSeq
  <1> QED
    BY <1>1, <1>4, OutIsText

\* The places that are in the model's terms.
LEMMA LeftAndPlaces ==
    /\ Left = LeftOf(text)
    /\ \A n : Places(n) = PlacesIn(n, out)
  BY DEF Left, LeftOf, Places, PlacesIn

\* A run of a text is at a place of its spelling, which is whole.
Stand(t, p) == {t[k].at : k \in p.first .. p.last}

LEMMA RunStands ==
    ASSUME Typed, NEW t, Woven(t, out), NEW p \in Runs(Symbol(t))
    PROVE  /\ Spelling(Symbol(t), p) \in Needle
           /\ Stand(t, p) \in PlacesIn(Spelling(Symbol(t), p), out)
           /\ Stand(t, p) \subseteq LeftOf(t)
  <1>1. Symbol(t) \in Text /\ Len(Symbol(t)) = Len(t)
    BY SymbolIs DEF Woven, Text
  <1>2. /\ p.first \in 1 .. Len(t) /\ p.last \in 1 .. Len(t)
        /\ p.first <= p.last /\ Len(t) \in Nat
    BY <1>1, RunIs
  <1> DEFINE s == Symbol(t)
             n == Spelling(s, p)
  <1>3. /\ n \in Needle /\ Len(n) = p.last - p.first + 1
        /\ \A k \in 1 .. p.last - p.first + 1 : n[k] = s[p.first + k - 1]
    BY <1>1, SpellingIs
  <1>4. Len(s) = Len(t)
    BY <1>1
  <1> HIDE DEF n, s
  <1>5. DOMAIN n = 1 .. Len(n)
    BY <1>3, NeedleIs
  <1>6. p.first + Len(n) - 1 = p.last
    BY <1>2, <1>3
  <1>7. Occurs(n, s, p.first)
    BY <1>2, <1>3, <1>4, <1>5, <1>6 DEF Occurs
  <1>8. Ats(t, n, p.first) = Stand(t, p)
    BY <1>6 DEF Ats, Window, Stand
  <1>9. out \in Seq(Printable)
    BY OutIs
  <1>10. /\ Ats(t, n, p.first) \in PlacesIn(n, out)
         /\ Ats(t, n, p.first) \subseteq LeftOf(t)
    BY <1>2, <1>3, <1>7, <1>9, OccursAtPlace DEF s
  <1> QED
    BY <1>3, <1>8, <1>10 DEF n, s

LEMMA FoundIs ==
    ASSUME Typed, Woven(data, out), NEW p \in Found
    PROVE  Where(p) \in PlacesIn(Run(p), out)
  <1>1. p \in Runs(Symbol(data))
    BY DEF Found, Holders, Looked
  <1>2. Where(p) = Stand(data, p)
    BY DEF Where, Stand
  <1> QED
    BY <1>1, <1>2, RunStands DEF Run

LEMMA PlaceIs ==
    ASSUME NEW o \in Seq(Printable), NEW n \in Needle, NEW p \in PlacesIn(n, o)
    PROVE  \E i \in DOMAIN o :
              /\ p = i .. i + Len(n) - 1 /\ p \subseteq DOMAIN o
              /\ \A a \in p : a - i + 1 \in DOMAIN n /\ o[a] = n[a - i + 1]
  <1>1. DOMAIN o = 1 .. Len(o) /\ Len(o) \in Nat
    BY LenProperties
  <1>2. Len(n) \in Nat \ {0} /\ DOMAIN n = 1 .. Len(n)
    BY NeedleIs
  <1>3. PICK i \in DOMAIN o : Occurs(n, o, i) /\ p = i .. i + Len(n) - 1
    BY DEF PlacesIn
  <1>4. i + Len(n) - 1 <= Len(o) /\ \A k \in DOMAIN n : o[i + k - 1] = n[k]
    BY <1>3 DEF Occurs
  <1>5. p \subseteq DOMAIN o
    BY <1>1, <1>2, <1>3, <1>4
  <1>6. ASSUME NEW a \in p
        PROVE  a - i + 1 \in DOMAIN n /\ o[a] = n[a - i + 1]
    <2>1. a - i + 1 \in DOMAIN n /\ i + (a - i + 1) - 1 = a
      BY <1>1, <1>2, <1>3
    <2> QED
      BY <1>4, <2>1
  <1> QED
    BY <1>3, <1>5, <1>6

\* Of two places, the one inside the other is not the longer.
LEMMA PlaceInside ==
    ASSUME NEW o \in Seq(Printable), NEW n \in Needle, NEW m \in Needle,
           NEW p \in PlacesIn(n, o), NEW q \in PlacesIn(m, o),
           q \subseteq p, Len(m) >= Len(n)
    PROVE  p \subseteq q
  <1>1. PICK i \in DOMAIN o : p = i .. i + Len(n) - 1
    BY PlaceIs
  <1>2. PICK j \in DOMAIN o : q = j .. j + Len(m) - 1
    BY PlaceIs
  <1>3. /\ Len(n) \in Nat \ {0} /\ Len(m) \in Nat \ {0}
        /\ i \in Nat /\ j \in Nat
    BY NeedleIs, LenProperties
  <1>4. j \in q /\ j + Len(m) - 1 \in q
    BY <1>2, <1>3
  <1>5. j >= i /\ j + Len(m) - 1 <= i + Len(n) - 1
    BY <1>1, <1>3, <1>4
  <1>6. j = i /\ Len(m) = Len(n)
    BY <1>3, <1>5
  <1> QED
    BY <1>1, <1>2, <1>6

\* What depends on the values and the output only does not change, nor do the
\* runs once they have been found.
LEMMA Same ==
    ASSUME UNCHANGED <<value, out>>
    PROVE  /\ Secrets' = Secrets /\ ValuePlaces' = ValuePlaces
           /\ EncodedPlaces' = EncodedPlaces /\ LonePlaces' = LonePlaces
  <1>1. Secrets' = Secrets
    BY DEF Secrets
  <1>2. ValuePlaces' = ValuePlaces /\ EncodedPlaces' = EncodedPlaces
    BY <1>1 DEF ValuePlaces, EncodedPlaces
  <1>3. LonePlaces' = LonePlaces
    BY <1>2 DEF LonePlaces
  <1> QED
    BY <1>1, <1>2, <1>3

LEMMA SameRuns ==
    ASSUME UNCHANGED <<value, out, data>>
    PROVE  /\ Found' = Found /\ FoundPlaces' = FoundPlaces
           /\ SecretPlaces' = SecretPlaces /\ LoneRuns' = LoneRuns
           /\ \A p : Run(p)' = Run(p) /\ Where(p)' = Where(p)
  <1>1. Secrets' = Secrets /\ ValuePlaces' = ValuePlaces
        /\ EncodedPlaces' = EncodedPlaces
    BY Same
  <1>2. Found' = Found
    BY <1>1 DEF Found, Holders, HoldsSecret
  <1>3. \A p : Run(p)' = Run(p) /\ Where(p)' = Where(p)
    BY DEF Run, Where
  <1>4. FoundPlaces' = FoundPlaces
    BY <1>2, <1>3 DEF FoundPlaces
  <1>5. SecretPlaces' = SecretPlaces
    BY <1>1, <1>4 DEF SecretPlaces
  <1>6. LoneRuns' = LoneRuns
    BY <1>2, <1>3, <1>4 DEF LoneRuns
  <1> QED
    BY <1>2, <1>3, <1>4, <1>5, <1>6

\* Before the pass over runs, none has been found.
LEMMA NoneFound ==
    ASSUME data = <<>>
    PROVE  Found = {} /\ SecretPlaces = ValuePlaces \cup EncodedPlaces
  <1>1. DOMAIN Symbol(data) = {}
    BY DEF Symbol
  <1>2. Span(Symbol(data)) = {}
    BY <1>1 DEF Span
  <1>3. Found = {}
    BY <1>2 DEF Found, Holders, Looked, Runs
  <1> QED
    BY <1>3 DEF SecretPlaces, FoundPlaces

-----------------------------------------------------------------------------
(* A replacement.                                                           *)

\* u is t with the places of n replaced.
Took(t, u, n, o) ==
    /\ LeftOf(u) \subseteq LeftOf(t)
    /\ \A a \in LeftOf(t) \ LeftOf(u) :
          \E p \in PlacesIn(n, o) :
             a \in p /\ p \subseteq LeftOf(t) /\ p \cap LeftOf(u) = {}
    /\ \A p \in PlacesIn(n, o) : p \subseteq LeftOf(t) => ~(p \subseteq LeftOf(u))

\* r is q without its first.
Rest(r, q) ==
    /\ Len(q) \in Nat \ {0} /\ Len(r) = Len(q) - 1
    /\ \A i \in 1 .. Len(r) : r[i] = q[i + 1]

LEMMA Replaced ==
    ASSUME Typed, Weaves, ReplaceNext
    PROVE  /\ Weaves' /\ Took(text, text', todo[1], out)
           /\ todo[1] \in Needle /\ todo' \in Seq(Needle) /\ Rest(todo', todo)
           /\ UNCHANGED <<value, out, data, pass>>
  <1>1. /\ todo # <<>> /\ todo' = Tail(todo) /\ text' = Replace(text, Head(todo))
        /\ UNCHANGED <<value, out, data, pass>>
    BY DEF ReplaceNext
  <1>2. todo \in Seq(Needle)
    BY DEF Typed
  <1>3. /\ todo[1] = Head(todo) /\ Head(todo) \in Needle
        /\ todo' \in Seq(Needle) /\ Rest(todo', todo)
    BY <1>1, <1>2, SeqShrinks DEF Rest
  <1>4. out \in Seq(Printable) /\ Woven(text, out)
    BY OutIs DEF Weaves
  <1>5. Woven(text', out) /\ Took(text, text', todo[1], out)
    BY <1>1, <1>3, <1>4, ReplaceSays DEF Took
  <1> QED
    BY <1>1, <1>3, <1>5 DEF Weaves

LEMMA ListedRest ==
    ASSUME NEW q, NEW r, Rest(r, q), NEW n
    PROVE  Listed(n, q) => n = q[1] \/ Listed(n, r)
  <1> SUFFICES ASSUME NEW i \in 1 .. Len(q), q[i] = n, n # q[1]
               PROVE  Listed(n, r)
    BY DEF Listed
  <1>1. Len(q) \in Nat \ {0} /\ Len(r) = Len(q) - 1
    BY DEF Rest
  <1>2. i - 1 \in 1 .. Len(r) /\ (i - 1) + 1 = i
    BY <1>1
  <1>3. r[i - 1] = n
    BY <1>2 DEF Rest
  <1> QED
    BY <1>2, <1>3 DEF Listed

\* What each of q is, each of r is.
LEMMA RestOf ==
    ASSUME NEW q, NEW r, Rest(r, q), NEW i \in 1 .. Len(r)
    PROVE  i + 1 \in 1 .. Len(q) /\ r[i] = q[i + 1]
  BY DEF Rest

\* A place that no replaced place overlaps, or only one that it is in, goes
\* whole or stays.
LEMMA DueStays ==
    ASSUME NEW o, NEW t, NEW u, NEW n, Took(t, u, n, o), NEW p,
           NEW l \in BOOLEAN, NEW k \in BOOLEAN, Due(p, t, l),
           l => \A g \in PlacesIn(n, o) : g \cap p = {} \/ p \subseteq g,
           l => k \/ p \in PlacesIn(n, o)
    PROVE  Due(p, u, k)
  <1>1. CASE p \cap LeftOf(t) = {}
    BY <1>1 DEF Took, Due
  <1>2. CASE p \subseteq LeftOf(t) /\ l
    <2>1. CASE p \subseteq LeftOf(u)
      BY <1>2, <2>1 DEF Took, Due
    <2>2. CASE ~(p \subseteq LeftOf(u))
      <3>1. PICK a \in p : a \in LeftOf(t) \ LeftOf(u)
        BY <1>2, <2>2
      <3>2. PICK g \in PlacesIn(n, o) : a \in g /\ g \cap LeftOf(u) = {}
        BY <3>1 DEF Took
      <3>3. p \subseteq g
        BY <1>2, <3>1, <3>2
      <3> QED
        BY <3>2, <3>3 DEF Due
    <2> QED
      BY <2>1, <2>2
  <1> QED
    BY <1>1, <1>2 DEF Due

\* What was whole of a form is not, once it has been replaced.
LEMMA HandledStays ==
    ASSUME NEW o, NEW t, NEW u, NEW q, NEW r, Rest(r, q), Took(t, u, q[1], o),
           NEW n, Handled(n, t, o, q)
    PROVE  Handled(n, u, o, r)
  <1>1. CASE Listed(n, q) /\ n = q[1]
    BY <1>1 DEF Took, Handled
  <1>2. CASE Listed(n, q) /\ n # q[1]
    BY <1>2, ListedRest DEF Handled
  <1>3. CASE \A p \in PlacesIn(n, o) : ~(p \subseteq LeftOf(t))
    BY <1>3 DEF Took, Handled
  <1> QED
    BY <1>1, <1>2, <1>3 DEF Handled

\* The places of what is replaced next.
LEMMA NextPlaces ==
    ASSUME Typed, TodoIs, todo # <<>>
    PROVE  /\ 1 \in 1 .. Len(todo)
           /\ PlacesIn(todo[1], out) \subseteq SecretPlaces
           /\ pass = "values" => PlacesIn(todo[1], out) \subseteq ValuePlaces
           /\ pass = "runs" => PlacesIn(todo[1], out) \subseteq FoundPlaces
           /\ pass # "done"
  <1>1. 1 \in 1 .. Len(todo)
    BY SeqShrinks DEF Typed
  <1>2. pass \in {"values", "runs", "forms"}
    BY DEF Typed, TodoIs
  <1>3. CASE pass = "values"
    <2>1. PICK v \in Secrets : todo[1] = Spell(v)
      BY <1>1, <1>3 DEF TodoIs
    <2> QED
      BY <1>1, <1>3, <2>1 DEF SecretPlaces, ValuePlaces
  <1>4. CASE pass = "runs"
    <2>1. PICK p \in Found : todo[1] = Run(p)
      BY <1>1, <1>4 DEF TodoIs
    <2> QED
      BY <1>1, <1>4, <2>1 DEF SecretPlaces, FoundPlaces
  <1>5. CASE pass = "forms"
    <2>1. PICK v \in Secrets : todo[1] = Spell(v) \/ todo[1] = Encode(v)
      BY <1>1, <1>5 DEF TodoIs
    <2> QED
      BY <1>1, <1>5, <2>1 DEF SecretPlaces, ValuePlaces, EncodedPlaces
  <1> QED
    BY <1>2, <1>3, <1>4, <1>5

-----------------------------------------------------------------------------
(* A replacement keeps the invariant.                                       *)

LEMMA ReplaceTodo ==
    ASSUME Inv, ReplaceNext
    PROVE  Typed' /\ Weaves' /\ TodoIs' /\ LongestFirst'
  <1>1. Typed /\ Weaves /\ TodoIs /\ LongestFirst
    BY DEF Inv
  <1>2. /\ Weaves' /\ todo' \in Seq(Needle) /\ Rest(todo', todo)
        /\ value' = value /\ out' = out /\ data' = data /\ pass' = pass
        /\ todo # <<>>
    BY <1>1, Replaced DEF ReplaceNext
  <1>3. /\ Secrets' = Secrets /\ Found' = Found
        /\ \A p : Run(p)' = Run(p)
    BY <1>2, Same, SameRuns
  <1>4. Typed'
    BY <1>1, <1>2 DEF Typed
  <1>5. \A i \in 1 .. Len(todo') : i + 1 \in 1 .. Len(todo) /\ todo'[i] = todo[i + 1]
    BY <1>2, RestOf
  <1>6. TodoIs'
    BY <1>1, <1>2, <1>3, <1>5 DEF TodoIs
  <1>7. LongestFirst'
    <2> SUFFICES ASSUME pass = "values", NEW i \in 1 .. Len(todo'),
                        NEW j \in 1 .. Len(todo'), i < j
                 PROVE  Len(todo'[i]) >= Len(todo'[j])
      BY <1>2 DEF LongestFirst
    <2>1. i + 1 < j + 1
      OBVIOUS
    <2>2. Len(todo[i + 1]) >= Len(todo[j + 1])
      BY <1>1, <1>5, <2>1 DEF LongestFirst
    <2> QED
      BY <1>5, <2>2
  <1> QED
    BY <1>2, <1>4, <1>6, <1>7

LEMMA ReplaceKeeps ==
    ASSUME Inv, ReplaceNext
    PROVE  DataLater' /\ SecretsOnly' /\ FormsGo'
  <1>1. Typed /\ Weaves /\ TodoIs
    BY DEF Inv
  <1>2. /\ Took(text, text', todo[1], out) /\ Rest(todo', todo)
        /\ value' = value /\ out' = out /\ data' = data /\ pass' = pass
        /\ todo # <<>>
    BY <1>1, Replaced DEF ReplaceNext
  <1>3. Secrets' = Secrets /\ SecretPlaces' = SecretPlaces
    BY <1>2, Same, SameRuns
  <1>4. /\ PlacesIn(todo[1], out) \subseteq SecretPlaces
        /\ pass = "values" => PlacesIn(todo[1], out) \subseteq ValuePlaces
    BY <1>1, <1>2, NextPlaces
  <1>5. DataLater'
    BY <1>2 DEF Inv, DataLater
  <1>6. SecretsOnly'
    <2> SUFFICES ASSUME NEW a \in DOMAIN out, a \notin LeftOf(text')
                 PROVE  \E p \in SecretPlaces : a \in p
      BY <1>2, <1>3 DEF SecretsOnly
    <2>1. CASE a \notin LeftOf(text)
      BY <2>1 DEF Inv, SecretsOnly
    <2>2. CASE a \in LeftOf(text)
      BY <1>2, <1>4, <2>2 DEF Took
    <2> QED
      BY <2>1, <2>2
  <1>7. FormsGo'
    <2> SUFFICES ASSUME pass \in {"forms", "done"}, NEW v \in Secrets
                 PROVE  /\ Handled(Spell(v), text', out, todo')
                        /\ Handled(Encode(v), text', out, todo')
      BY <1>2, <1>3 DEF FormsGo
    <2>1. /\ Handled(Spell(v), text, out, todo)
          /\ Handled(Encode(v), text, out, todo)
      BY DEF Inv, FormsGo
    <2> QED
      BY <1>2, <2>1, HandledStays
  <1> QED
    BY <1>5, <1>6, <1>7

\* The longest value is replaced first: a place of a value that is not the
\* longer is not in a place of the longer one.
LEMMA ReplaceValues ==
    ASSUME Inv, ReplaceNext
    PROVE  ValuesGo'
  <1>1. Typed /\ Weaves /\ TodoIs
    BY DEF Inv
  <1>2. /\ Took(text, text', todo[1], out) /\ Rest(todo', todo)
        /\ todo[1] \in Needle
        /\ value' = value /\ out' = out /\ data' = data /\ pass' = pass
        /\ todo # <<>>
    BY <1>1, Replaced DEF ReplaceNext
  <1>3. Secrets' = Secrets /\ LonePlaces' = LonePlaces
    BY <1>2, Same
  <1>4. /\ 1 \in 1 .. Len(todo)
        /\ pass = "values" => PlacesIn(todo[1], out) \subseteq ValuePlaces
    BY <1>1, <1>2, NextPlaces
  <1> SUFFICES ASSUME NEW v \in Secrets, NEW p \in LonePlaces,
                      p \in PlacesIn(Spell(v), out)
               PROVE  Due(p, text', pass = "values" /\ Listed(Spell(v), todo'))
    BY <1>2, <1>3 DEF ValuesGo
  <1> DEFINE l == pass = "values" /\ Listed(Spell(v), todo)
             k == pass = "values" /\ Listed(Spell(v), todo')
  <1>5. Due(p, text, l)
    BY DEF Inv, ValuesGo
  <1>6. ASSUME l, NEW g \in PlacesIn(todo[1], out)
        PROVE  g \cap p = {} \/ p \subseteq g
    <2>1. g \in ValuePlaces
      BY <1>4, <1>6
    <2>2. p \cap g = {} \/ p \subseteq g \/ g \subseteq p
      BY <2>1 DEF LonePlaces
    <2>3. CASE g \subseteq p
      <3>1. PICK i \in 1 .. Len(todo) : todo[i] = Spell(v)
        BY <1>6 DEF Listed
      <3>2. Spell(v) \in Needle /\ Len(Spell(v)) \in Nat
        BY <1>1, SecretIs, NeedleIs
      <3>3. Len(todo[1]) >= Len(Spell(v))
        <4>1. CASE i = 1
          BY <3>1, <3>2, <4>1
        <4>2. CASE i # 1
          <5>1. 1 < i
            BY <4>2
          <5> QED
            BY <1>4, <1>6, <3>1, <5>1 DEF Inv, LongestFirst
        <4> QED
          BY <4>1, <4>2
      <3>4. out \in Seq(Printable)
        BY <1>1, OutIs
      <3> QED
        BY <1>2, <2>3, <3>2, <3>3, <3>4, PlaceInside
    <2> QED
      BY <2>2, <2>3
  <1>7. l => k \/ p \in PlacesIn(todo[1], out)
    BY <1>2, ListedRest
  <1>8. l \in BOOLEAN /\ k \in BOOLEAN
    OBVIOUS
  <1> HIDE DEF l, k
  <1>9. Due(p, text', k)
    BY <1>2, <1>5, <1>6, <1>7, <1>8, DueStays
  <1> QED
    BY <1>9 DEF k

LEMMA ReplaceRuns ==
    ASSUME Inv, ReplaceNext
    PROVE  RunsGo' /\ RunsBreak'
  <1>1. Typed /\ Weaves /\ TodoIs
    BY DEF Inv
  <1>2. /\ Took(text, text', todo[1], out) /\ Rest(todo', todo)
        /\ value' = value /\ out' = out /\ data' = data /\ pass' = pass
        /\ todo # <<>>
    BY <1>1, Replaced DEF ReplaceNext
  <1>3. /\ LoneRuns' = LoneRuns /\ Found' = Found
        /\ \A p : Run(p)' = Run(p) /\ Where(p)' = Where(p)
    BY <1>2, SameRuns
  <1>4. pass = "runs" => PlacesIn(todo[1], out) \subseteq FoundPlaces
    BY <1>1, <1>2, NextPlaces
  <1>5. RunsGo'
    <2> SUFFICES ASSUME pass # "values", NEW p \in LoneRuns
                 PROVE  Due(Where(p), text', pass = "runs" /\ Listed(Run(p), todo'))
      BY <1>2, <1>3 DEF RunsGo
    <2> DEFINE P == Where(p)
               l == pass = "runs" /\ Listed(Run(p), todo)
               k == pass = "runs" /\ Listed(Run(p), todo')
    <2>1. Due(P, text, l)
      BY DEF Inv, RunsGo
    <2>2. l => \A g \in PlacesIn(todo[1], out) : g \cap P = {} \/ P \subseteq g
      BY <1>4 DEF LoneRuns
    <2>3. l => k \/ P \in PlacesIn(todo[1], out)
      <3>1. P \in PlacesIn(Run(p), out)
        BY <1>1, FoundIs DEF LoneRuns, Weaves
      <3> QED
        BY <1>2, <3>1, ListedRest
    <2>4. l \in BOOLEAN /\ k \in BOOLEAN
      OBVIOUS
    <2> HIDE DEF l, k, P
    <2>5. Due(P, text', k)
      BY <1>2, <2>1, <2>2, <2>3, <2>4, DueStays
    <2> QED
      BY <2>5 DEF k, P
  <1>6. RunsBreak'
    <2> SUFFICES ASSUME pass # "values", NEW p \in Found
                 PROVE  \/ pass = "runs" /\ Listed(Run(p), todo')
                        \/ \A q \in PlacesIn(Run(p), out) :
                              ~(q \subseteq LeftOf(text'))
      BY <1>2, <1>3 DEF RunsBreak
    <2>1. CASE pass = "runs" /\ Listed(Run(p), todo)
      <3>1. Handled(Run(p), text, out, todo)
        BY <2>1 DEF Handled
      <3> QED
        BY <1>2, <2>1, <3>1, HandledStays DEF Handled
    <2>2. CASE \A q \in PlacesIn(Run(p), out) : ~(q \subseteq LeftOf(text))
      BY <1>2, <2>2 DEF Took
    <2> QED
      BY <2>1, <2>2 DEF Inv, RunsBreak
  <1> QED
    BY <1>5, <1>6

LEMMA ReplaceStep ==
    ASSUME Inv, ReplaceNext
    PROVE  Inv'
  BY ReplaceTodo, ReplaceKeeps, ReplaceValues, ReplaceRuns DEF Inv

-----------------------------------------------------------------------------
(* The next pass keeps the invariant.                                       *)

LEMMA NoneListed == \A n : ~Listed(n, <<>>)
  BY DEF Listed

\* What the text has lost stays lost; what was due of the pass that ends is gone.
LEMMA PassEnds ==
    ASSUME Inv, todo = <<>>, UNCHANGED <<value, out, text>>, pass' # "values",
           SecretPlaces \subseteq SecretPlaces', Woven(data', out)
    PROVE  Weaves' /\ LongestFirst' /\ DataLater' /\ SecretsOnly' /\ ValuesGo'
  <1>1. LonePlaces' = LonePlaces /\ Secrets' = Secrets
    BY Same
  <1>2. Weaves' /\ LongestFirst' /\ DataLater'
    BY DEF Inv, Weaves, LongestFirst, DataLater
  <1>3. SecretsOnly'
    BY DEF Inv, SecretsOnly
  <1>4. ValuesGo'
    <2> SUFFICES ASSUME NEW v \in Secrets, NEW p \in LonePlaces,
                        p \in PlacesIn(Spell(v), out)
                 PROVE  p \cap LeftOf(text) = {}
      BY <1>1 DEF ValuesGo, Due
    <2> QED
      BY NoneListed DEF Inv, ValuesGo, Due
  <1> QED
    BY <1>2, <1>3, <1>4

LEMMA RunsEnd ==
    ASSUME Inv, todo = <<>>, UNCHANGED <<value, out, text, data>>,
           pass # "values", pass' # "values"
    PROVE  /\ Weaves' /\ LongestFirst' /\ DataLater' /\ SecretsOnly' /\ ValuesGo'
           /\ RunsGo' /\ RunsBreak'
  <1>1. /\ LoneRuns' = LoneRuns /\ Found' = Found
        /\ SecretPlaces' = SecretPlaces
        /\ \A p : Run(p)' = Run(p) /\ Where(p)' = Where(p)
    BY SameRuns
  <1>2. RunsGo'
    <2> SUFFICES ASSUME NEW p \in LoneRuns
                 PROVE  Where(p) \cap LeftOf(text) = {}
      BY <1>1 DEF RunsGo, Due
    <2> QED
      BY NoneListed DEF Inv, RunsGo, Due
  <1>3. RunsBreak'
    <2> SUFFICES ASSUME NEW p \in Found
                 PROVE  \A q \in PlacesIn(Run(p), out) : ~(q \subseteq LeftOf(text))
      BY <1>1 DEF RunsBreak
    <2> QED
      BY NoneListed DEF Inv, RunsBreak
  <1>4. Woven(data', out)
    BY DEF Inv, Weaves
  <1> QED
    BY <1>1, <1>2, <1>3, <1>4, PassEnds

\* What the pass over runs is given is whole, and each run that it finds in it
\* to hold a secret is listed.
LEMMA RunsStep ==
    ASSUME Inv, StartRuns
    PROVE  Inv'
  <1>1. /\ Typed /\ pass = "values" /\ todo = <<>> /\ pass' = "runs"
        /\ todo' = Hits(Symbol(text)) /\ data' = text
        /\ UNCHANGED <<value, out, text>>
    BY DEF Inv, StartRuns
  <1>2. Woven(text, out) /\ Symbol(text) \in Text
    BY SymbolIs DEF Inv, Weaves, Woven, Text
  <1> DEFINE hits == Hits(Symbol(text))
  <1>3. /\ hits \in Seq(Needle)
        /\ \A i \in 1 .. Len(hits) :
              \E p \in Holders(Symbol(text)) : hits[i] = Spelling(Symbol(text), p)
        /\ \A p \in Holders(Symbol(text)) :
              \E i \in 1 .. Len(hits) : hits[i] = Spelling(Symbol(text), p)
    BY <1>2, HitsAre
  <1>4. todo' = hits
    BY <1>1
  <1> HIDE DEF hits
  <1>5. Secrets' = Secrets /\ ValuePlaces' = ValuePlaces
        /\ EncodedPlaces' = EncodedPlaces
    BY <1>1, Same
  <1>6. Symbol(data)' = Symbol(text)
    BY <1>1 DEF Symbol
  <1>7. Found' = Holders(Symbol(text))
    BY <1>5, <1>6 DEF Found, Holders, HoldsSecret
  <1>8. \A p : Run(p)' = Spelling(Symbol(text), p)
    BY <1>6 DEF Run
  <1>9. Typed'
    BY <1>1, <1>3, <1>4 DEF Typed
  <1>10. TodoIs'
    BY <1>1, <1>3, <1>4, <1>7, <1>8 DEF TodoIs
  <1>11. Woven(data, out)' /\ Woven(data', out)
    BY <1>1, <1>2
  <1>12. ASSUME NEW p \in Found'
         PROVE  /\ Where(p)' \subseteq LeftOf(text)
                /\ Listed(Run(p)', todo')
    <2>1. p \in Runs(Symbol(text))
      BY <1>7 DEF Holders, Looked
    <2>2. Where(p)' = Stand(text, p)
      BY <1>1 DEF Where, Stand
    <2>3. Where(p)' \subseteq LeftOf(text)
      BY <1>1, <1>2, <2>1, <2>2, RunStands
    <2> QED
      BY <1>3, <1>4, <1>7, <1>8, <2>3 DEF Listed
  <1>13. RunsGo'
    BY <1>1, <1>12 DEF RunsGo, LoneRuns, Due
  <1>14. RunsBreak'
    BY <1>1, <1>12 DEF RunsBreak
  <1>15. FormsGo'
    BY <1>1 DEF FormsGo
  <1>16. SecretPlaces \subseteq SecretPlaces'
    <2>1. SecretPlaces = ValuePlaces \cup EncodedPlaces
      BY <1>1, NoneFound DEF Inv, DataLater
    <2> QED
      BY <1>5, <2>1 DEF SecretPlaces
  <1> QED
    BY <1>1, <1>9, <1>10, <1>11, <1>13, <1>14, <1>15, <1>16, PassEnds DEF Inv

LEMMA FormsStep ==
    ASSUME Inv, StartForms
    PROVE  Inv'
  <1>1. /\ Typed /\ pass = "runs" /\ todo = <<>> /\ pass' = "forms"
        /\ todo' = FormNeedles
        /\ UNCHANGED <<value, out, text, data>>
    BY DEF Inv, StartForms
  <1>2. /\ FormNeedles \in Seq(Needle)
        /\ \A i \in 1 .. Len(FormNeedles) :
              \E v \in Secrets :
                 FormNeedles[i] = Spell(v) \/ FormNeedles[i] = Encode(v)
        /\ \A v \in Secrets : /\ Listed(Spell(v), FormNeedles)
                              /\ Listed(Encode(v), FormNeedles)
    BY <1>1, FormNeedlesAre DEF Typed, Listed
  <1>3. Secrets' = Secrets
    BY <1>1, Same
  <1>4. Typed'
    BY <1>1, <1>2 DEF Typed
  <1>5. TodoIs'
    BY <1>1, <1>2, <1>3 DEF TodoIs
  <1>6. FormsGo'
    BY <1>1, <1>2, <1>3 DEF FormsGo, Handled
  <1> QED
    BY <1>1, <1>4, <1>5, <1>6, RunsEnd DEF Inv

LEMMA FinishStep ==
    ASSUME Inv, Finish
    PROVE  Inv'
  <1>1. /\ Typed /\ pass = "forms" /\ todo = <<>> /\ pass' = "done"
        /\ UNCHANGED <<value, out, text, data, todo>>
    BY DEF Inv, Finish
  <1>2. Secrets' = Secrets
    BY <1>1, Same
  <1>3. Typed'
    BY <1>1 DEF Typed
  <1>4. TodoIs'
    BY <1>1 DEF TodoIs
  <1>5. FormsGo'
    BY <1>1, <1>2 DEF Inv, FormsGo
  <1> QED
    BY <1>1, <1>3, <1>4, <1>5, RunsEnd DEF Inv

LEMMA StutterStep ==
    ASSUME Inv, UNCHANGED vars
    PROVE  Inv'
  <1>1. UNCHANGED <<value, out, text, data, pass, todo>>
    BY DEF vars
  <1>2. /\ Secrets' = Secrets /\ LonePlaces' = LonePlaces
        /\ Found' = Found /\ SecretPlaces' = SecretPlaces
        /\ LoneRuns' = LoneRuns
        /\ \A p : Run(p)' = Run(p) /\ Where(p)' = Where(p)
    BY <1>1, Same, SameRuns
  <1>3. Typed' /\ Weaves' /\ LongestFirst' /\ DataLater'
    BY <1>1 DEF Inv, Typed, Weaves, LongestFirst, DataLater
  <1>4. TodoIs'
    BY <1>1, <1>2 DEF Inv, TodoIs
  <1>5. SecretsOnly' /\ FormsGo'
    BY <1>1, <1>2 DEF Inv, SecretsOnly, FormsGo
  <1>6. ValuesGo' /\ RunsGo' /\ RunsBreak'
    BY <1>1, <1>2 DEF Inv, ValuesGo, RunsGo, RunsBreak
  <1> QED
    BY <1>3, <1>4, <1>5, <1>6 DEF Inv

-----------------------------------------------------------------------------
(* The initial states.                                                      *)

\* What is kept of an output.
LEMMA FirstIs ==
    ASSUME NEW s \in Seq(Symbols)
    PROVE  First(s, Cap) \in Seq(Symbols) /\ Len(First(s, Cap)) <= Cap
  <1>1. Len(s) \in Nat /\ Cap \in Nat
    BY Bounds, LenProperties
  <1> DEFINE m == Min({Cap, Len(s)})
  <1>2. m \in Nat /\ m <= Cap /\ m <= Len(s)
    BY <1>1, MinOfTwo
  <1> HIDE DEF m
  <1>3. \A i \in 1 .. m : s[i] \in Symbols
    BY <1>1, <1>2, ElementOfSeq
  <1>4. SubSeq(s, 1, m) \in Seq(Symbols) /\ Len(SubSeq(s, 1, m)) = m
    BY <1>1, <1>2, <1>3, SubSeqProperties
  <1> QED
    BY <1>2, <1>4 DEF First, m

LEMMA BoundedIsSeq ==
    ASSUME NEW S, NEW n, NEW s \in BoundedSeq(S, n)
    PROVE  s \in Seq(S)
  BY DEF BoundedSeq, SeqOf

LEMMA InitWoven ==
    ASSUME Init
    PROVE  /\ out \in Seq(Symbols) /\ Len(out) <= Cap
           /\ Woven(text, out) /\ LeftOf(text) = DOMAIN out
  <1>1. out \in Seq(Symbols) /\ Len(out) <= Cap
    BY FirstIs, BoundedIsSeq DEF Init
  <1>2. /\ DOMAIN out = 1 .. Len(out) /\ Len(out) \in Nat /\ Cap \in Nat
        /\ \A i \in 1 .. Len(out) : out[i] \in Printable
    BY <1>1, LenProperties, ElementOfSeq, SymbolsAssumption, Bounds
  <1>3. text = [i \in 1 .. Len(out) |-> [sym |-> out[i], at |-> i]]
    BY <1>2 DEF Init
  <1>4. \A i \in 1 .. Len(out) : text[i].sym = out[i] /\ text[i].at = i
    BY <1>3
  <1>5. \A i \in 1 .. Len(out) : [sym |-> out[i], at |-> i] \in Placed
    BY <1>1, <1>2 DEF Placed
  <1>6. text \in [1 .. Len(out) -> Placed]
    BY <1>3, <1>5
  <1>7. text \in Seq(Placed) /\ Len(text) = Len(out)
    BY <1>2, <1>6, FunIsSeq
  <1>8. DOMAIN text = 1 .. Len(out)
    BY <1>6
  <1>9. \A i \in DOMAIN text : Is(text[i], out)
    BY <1>2, <1>3, <1>4, <1>5, <1>8 DEF Is
  <1>10. Follows(text)
    BY <1>2, <1>4, <1>8 DEF Follows
  <1>11. LeftOf(text) = DOMAIN out
    BY <1>2, <1>4, <1>8 DEF LeftOf
  <1> QED
    BY <1>1, <1>7, <1>9, <1>10, <1>11 DEF Woven

LEMMA InitInv == Init => Inv
  <1> SUFFICES ASSUME Init PROVE Inv
    OBVIOUS
  <1>1. /\ value \in [Names -> Values] /\ pass = "values"
        /\ todo = ValueNeedles
    BY DEF Init
  <1>2. /\ out \in Seq(Symbols) /\ Len(out) <= Cap
        /\ Woven(text, out) /\ LeftOf(text) = DOMAIN out
    BY InitWoven
  <1>3. /\ todo \in Seq(Needle)
        /\ \A i \in 1 .. Len(todo) : \E v \in Secrets : todo[i] = Spell(v)
        /\ \A v \in Secrets : Listed(Spell(v), todo)
        /\ \A i, j \in 1 .. Len(todo) : i < j => Len(todo[i]) >= Len(todo[j])
    BY <1>1, ValueNeedlesAre DEF Listed
  <1>4. Typed
    BY <1>1, <1>2, <1>3 DEF Typed
  <1>5. Weaves /\ DataLater /\ SecretsOnly
    <2>1. data = <<>> /\ data \in Seq(Placed) /\ DOMAIN data = {}
      BY DEF Init
    <2>2. Woven(data, out)
      BY <2>1 DEF Woven, Follows
    <2> QED
      BY <1>2, <2>1, <2>2 DEF Weaves, DataLater, SecretsOnly
  <1>6. TodoIs /\ LongestFirst
    BY <1>1, <1>3 DEF TodoIs, LongestFirst
  <1>7. FormsGo /\ RunsGo /\ RunsBreak
    BY <1>1 DEF FormsGo, RunsGo, RunsBreak
  <1>8. ValuesGo
    <2> SUFFICES ASSUME NEW v \in Secrets, NEW p \in LonePlaces,
                        p \in PlacesIn(Spell(v), out)
                 PROVE  p \subseteq LeftOf(text)
      BY <1>1, <1>3 DEF ValuesGo, Due
    <2>1. Spell(v) \in Needle /\ out \in Seq(Printable)
      BY <1>4, SecretIs, OutIs
    <2>2. p \subseteq DOMAIN out
      BY <2>1, PlaceIs
    <2> QED
      BY <1>2, <2>2
  <1> QED
    BY <1>4, <1>5, <1>6, <1>7, <1>8 DEF Inv

-----------------------------------------------------------------------------
(* The theorems.                                                           *)

\* What clean has yet to replace, what it has left of the output and what is
\* gone of it, in every state of a call.
THEOREM InvHolds == Spec => []Inv
  <1>1. Inv /\ [Next]_vars => Inv'
    BY ReplaceStep, RunsStep, FormsStep, FinishStep, StutterStep DEF Next
  <1> QED
    BY <1>1, InitInv, PTL DEF Spec

\* The text stays a sequence of symbols and marks with their positions, and the
\* needles are never empty (clean).
THEOREM TypeOKHolds == Spec => []TypeOK
  <1>1. Inv => TypeOK
    BY DEF Inv, Typed, Weaves, Woven, TypeOK, Needle
  <1> QED
    BY <1>1, InvHolds, PTL

\* A needle that a text has, has a place in the output that is left whole.
LEMMA NotWithin ==
    ASSUME NEW o \in Seq(Printable), NEW t, Woven(t, o), NEW n \in Needle,
           \A p \in PlacesIn(n, o) : ~(p \subseteq LeftOf(t))
    PROVE  ~Within(n, Symbol(t))
  <1> SUFFICES ASSUME NEW i \in DOMAIN Symbol(t), Occurs(n, Symbol(t), i)
               PROVE  FALSE
    BY DEF Within
  <1>1. i \in 1 .. Len(t)
    BY SymbolIs DEF Woven
  <1> QED
    BY <1>1, OccursAtPlace

\* Whatever the secrets are and the command printed, the agent is given neither
\* a value nor its encoding: a mark stays where something was taken, so that no
\* replacement joins what is left into a secret (Redactor.clean).
THEOREM NoSecretIsLeftHolds == Spec => []NoSecretIsLeft
  <1>1. Inv => NoSecretIsLeft
    <2> SUFFICES ASSUME Inv, pass = "done", NEW v \in Secrets
                 PROVE  /\ ~Within(Spell(v), Symbol(text))
                        /\ ~Within(Encode(v), Symbol(text))
      BY DEF NoSecretIsLeft
    <2>1. Typed /\ todo = <<>> /\ Woven(text, out)
      BY DEF Inv, TodoIs, Weaves
    <2>2. /\ \A p \in PlacesIn(Spell(v), out) : ~(p \subseteq LeftOf(text))
          /\ \A p \in PlacesIn(Encode(v), out) : ~(p \subseteq LeftOf(text))
      BY <2>1, NoneListed DEF Inv, FormsGo, Handled
    <2>3. /\ Spell(v) \in Needle /\ Encode(v) \in Needle
          /\ out \in Seq(Printable)
      BY <2>1, SecretIs, OutIs
    <2> QED
      BY <2>1, <2>2, <2>3, NotWithin
  <1> QED
    BY <1>1, InvHolds, PTL

\* No end of a longer value stays when a shorter one is a part of it: an
\* occurrence that no other overlaps in part is gone (Redactor.__init__ sorts
\* the values, the longest first).
THEOREM ValuesGoWholeHolds == Spec => []ValuesGoWhole
  <1>1. Inv => ValuesGoWhole
    <2> SUFFICES ASSUME Inv, pass = "done"
                 PROVE  \A p \in LonePlaces : p \cap LeftOf(text) = {}
      BY LeftAndPlaces DEF ValuesGoWhole, LonePlaces, ValuePlaces
    <2> TAKE p \in LonePlaces
    <2>1. PICK v \in Secrets : p \in PlacesIn(Spell(v), out)
      BY DEF LonePlaces, ValuePlaces
    <2> QED
      BY <2>1 DEF Inv, ValuesGo, Due
  <1> QED
    BY <1>1, InvHolds, PTL

\* A run of base64 that the pass finds to hold a secret is not returned as it
\* was, and it is gone as a whole unless such a run is spelled in a part of it,
\* whatever values and runs were replaced before (_scrub_b64_wrappers).
THEOREM FoundRunsGoHolds == Spec => []FoundRunsGo
  <1>1. Inv => FoundRunsGo
    <2> SUFFICES ASSUME Inv, pass = "done", NEW p \in Found
                 PROVE  /\ ~(Where(p) \subseteq LeftOf(text))
                        /\ p \in LoneRuns => Where(p) \cap LeftOf(text) = {}
      BY LeftAndPlaces DEF FoundRunsGo, LoneRuns, FoundPlaces
    <2>1. Where(p) \in PlacesIn(Run(p), out)
      BY FoundIs DEF Inv, Weaves
    <2>2. ~(Where(p) \subseteq LeftOf(text))
      BY <2>1 DEF Inv, RunsBreak
    <2>3. p \in LoneRuns => Where(p) \cap LeftOf(text) = {}
      BY DEF Inv, RunsGo, Due
    <2> QED
      BY <2>2, <2>3
  <1> QED
    BY <1>1, InvHolds, PTL

\* Nothing but secrets, their encodings, and runs that hold one is taken from
\* the output, and the rest stays in its order (Redactor).
THEOREM OnlySecretsGoHolds == Spec => []OnlySecretsGo
  <1>1. Inv => OnlySecretsGo
    <2> SUFFICES ASSUME Inv PROVE OnlySecretsGo
      OBVIOUS
    <2>1. \A a \in DOMAIN out \ LeftOf(text) : \E p \in SecretPlaces : a \in p
      BY DEF Inv, SecretsOnly
    <2>2. /\ \A i \in DOMAIN text : text[i].at # 0 => text[i].sym = out[text[i].at]
          /\ \A i, j \in DOMAIN text :
                text[i].at # 0 /\ text[j].at # 0 /\ i < j
                    => text[i].at < text[j].at
      BY DEF Inv, Weaves, Woven, Is, Follows
    <2>3. SecretPlaces =
              UNION ({PlacesIn(Spell(v), out) : v \in Secrets}
                     \cup {PlacesIn(Encode(v), out) : v \in Secrets}
                     \cup {PlacesIn(Run(p), out) : p \in Found})
      BY DEF SecretPlaces, ValuePlaces, EncodedPlaces, FoundPlaces
    <2> QED
      BY <2>1, <2>2, <2>3, LeftAndPlaces DEF OnlySecretsGo
  <1> QED
    BY <1>1, InvHolds, PTL

=============================================================================
