---------------------------- MODULE ServerProofs ----------------------------
(***************************************************************************)
(* What holds of Server for all lines, any number of them, buffers of any  *)
(* size and any number of deaths: its types, that the replies are those    *)
(* that are owed and in order, and that a session that nothing cuts short  *)
(* is answered to its end.                                                 *)
(***************************************************************************)
EXTENDS Server, FiniteSetTheorems, WellFoundedInduction, SequenceTheorems, TLAPS

-----------------------------------------------------------------------------
(* Induction over Nat, and the concatenation of a sequence of sequences.    *)

\* A set with 0 and the successor of each of its numbers has every number: a
\* number that is missing would give an interval 0 .. k, of those whose last
\* number is missing, without a smaller one.
LEMMA NatSet ==
    ASSUME NEW S, 0 \in S, \A n \in Nat : n \in S => n + 1 \in S
    PROVE  \A n \in Nat : n \in S
  <1> SUFFICES ASSUME NEW n \in Nat, n \notin S PROVE FALSE
    OBVIOUS
  <1> DEFINE T == {0 .. k : k \in {m \in 0 .. n : m \notin S}}
  <1>1. T \subseteq FiniteSubsetsOf(Nat) /\ T # {}
    <2>1. \A k \in 0 .. n : IsFiniteSet(0 .. k) /\ 0 .. k \in SUBSET Nat
      BY FS_Interval
    <2>2. n \in {m \in 0 .. n : m \notin S}
      OBVIOUS
    <2> QED
      BY <2>1, <2>2 DEF FiniteSubsetsOf
  <1>2. PICK x \in T : \A y \in T : <<y, x>> \notin StrictSubsetOrdering(Nat)
    <2> HIDE DEF T
    <2> QED
      BY <1>1, WFMin, FS_StrictSubsetOrderingWellFounded
  <1>3. PICK k \in 0 .. n : k \notin S /\ x = 0 .. k
    BY <1>2
  <1>4. k # 0 /\ k - 1 \in 0 .. n /\ k - 1 \notin S
    BY <1>3
  <1>5. 0 .. (k - 1) \in T
    BY <1>4
  <1>6. 0 .. (k - 1) \subseteq 0 .. k /\ k \in 0 .. k /\ k \notin 0 .. (k - 1)
    BY <1>3
  <1>7. <<0 .. (k - 1), 0 .. k>> \in StrictSubsetOrdering(Nat)
    BY <1>6 DEF StrictSubsetOrdering
  <1> QED
    BY <1>2, <1>3, <1>5, <1>7


-----------------------------------------------------------------------------
(* Sequences under concatenation.  The provers reason about these operators *)
(* by the laws below and not by their definitions.                          *)

Cat(s, t) == s \o t
Nil       == <<>>
One(e)    == <<e>>
Flat(ss)  == FlattenSeq(ss)

LEMMA NilType == \A V : Nil \in Seq(V)
  BY EmptySeq DEF Nil

LEMMA OneType == ASSUME NEW V, NEW e \in V PROVE One(e) \in Seq(V)
  BY DEF One

LEMMA CatType ==
    ASSUME NEW V, NEW s \in Seq(V), NEW t \in Seq(V)
    PROVE  Cat(s, t) \in Seq(V)
  BY ConcatProperties DEF Cat

LEMMA CatNil ==
    ASSUME NEW V, NEW s \in Seq(V)
    PROVE  Cat(s, Nil) = s /\ Cat(Nil, s) = s
  BY ConcatEmptySeq DEF Cat, Nil

LEMMA CatAssoc ==
    ASSUME NEW V, NEW s \in Seq(V), NEW t \in Seq(V), NEW u \in Seq(V)
    PROVE  Cat(Cat(s, t), u) = Cat(s, Cat(t, u))
  BY ConcatAssociative DEF Cat

LEMMA CatAppend ==
    ASSUME NEW V, NEW s \in Seq(V), NEW e \in V
    PROVE  Append(s, e) = Cat(s, One(e))
  BY AppendIsConcat DEF Cat, One

LEMMA CatHead ==
    ASSUME NEW V, NEW s \in Seq(V), s # <<>>
    PROVE  /\ Head(s) \in V /\ Tail(s) \in Seq(V)
           /\ s = Cat(One(Head(s)), Tail(s))
  <1>1. Head(s) \in V /\ Tail(s) \in Seq(V)
    BY HeadTailProperties
  <1>2. s = <<Head(s)>> \o Tail(s)
    OBVIOUS
  <1> QED
    BY <1>1, <1>2 DEF Cat, One

\* What stands where in a concatenation.
LEMMA CatIndex ==
    ASSUME NEW V, NEW s \in Seq(V), NEW t \in Seq(V)
    PROVE  /\ Len(Cat(s, t)) = Len(s) + Len(t)
           /\ \A i \in 1 .. Len(s) : Cat(s, t)[i] = s[i]
           /\ \A i \in 1 .. Len(t) : Cat(s, t)[Len(s) + i] = t[i]
  BY ConcatProperties, LenProperties DEF Cat

\* A sequence that is not empty has a last element, behind its head or not.
IsSplit(V, s, t, e) ==
    /\ s = Append(t, e)
    /\ Len(s) = Len(t) + 1 /\ Len(t) \in Nat
    /\ Len(t) = 0 => t = Nil /\ Head(s) = e /\ Tail(s) = Nil
    /\ Len(t) # 0 => /\ Head(s) = Head(t) /\ Head(t) \in V
                     /\ Tail(s) = Append(Tail(t), e) /\ Tail(t) \in Seq(V)

LEMMA SplitLast ==
    ASSUME NEW V, NEW s \in Seq(V), Len(s) # 0
    PROVE  \E t \in Seq(V), e \in V : IsSplit(V, s, t, e)
  <1>1. s # <<>>
    BY EmptySeq
  <1>2. PICK t \in Seq(V), e \in V : s = Append(t, e)
    BY <1>1, SequenceEmptyOrAppend
  <1>3. Len(s) = Len(t) + 1 /\ Len(t) \in Nat
    BY <1>2, AppendProperties, LenProperties
  <1>4. t = <<>> <=> Len(t) = 0
    BY EmptySeq
  <1>5. t # <<>> => Head(t) \in V /\ Tail(t) \in Seq(V)
    BY HeadTailProperties
  <1>6. /\ Head(s) = IF t = <<>> THEN e ELSE Head(t)
        /\ Tail(s) = IF t = <<>> THEN <<>> ELSE Append(Tail(t), e)
    BY <1>2, HeadTailAppend
  <1> HIDE <1>1
  <1>7. CASE t = <<>>
    BY <1>2, <1>3, <1>4, <1>6, <1>7, Zenon DEF Nil, IsSplit
  <1>8. CASE t # <<>>
    BY <1>2, <1>3, <1>4, <1>5, <1>6, <1>8, Zenon DEF Nil, IsSplit
  <1> QED
    BY <1>7, <1>8

\* f[i] is the concatenation of the first i of ss, for i up to n.
Flattens(f, ss, n) ==
    \A i \in 1 .. n : f[i] = IF i = 1 THEN ss[1] ELSE Cat(f[i - 1], ss[i])

\* There is one such function, and it takes sequences for its values.
LEMMA FlattensExists ==
    ASSUME NEW V, NEW ss \in Seq(Seq(V))
    PROVE  \A n \in 1 .. Len(ss) :
              \E f \in [1 .. n -> Seq(V)] : Flattens(f, ss, n)
  <1> DEFINE P(n) == n \in 1 .. Len(ss) =>
                        \E f \in [1 .. n -> Seq(V)] : Flattens(f, ss, n)
             S == {n \in Nat : P(n)}
  <1>1. 0 \in S
    OBVIOUS
  <1>2. ASSUME NEW n \in Nat, n \in S PROVE n + 1 \in S
    <2> SUFFICES ASSUME n + 1 \in 1 .. Len(ss)
                 PROVE  \E f \in [1 .. n + 1 -> Seq(V)] : Flattens(f, ss, n + 1)
      OBVIOUS
    <2> ss[n + 1] \in Seq(V) /\ ss[1] \in Seq(V)
      BY ElementOfSeq
    <2>1. CASE n = 0
      <3> DEFINE f == [i \in 1 .. 1 |-> ss[1]]
      <3>1. f \in [1 .. n + 1 -> Seq(V)] /\ Flattens(f, ss, n + 1)
        BY <2>1 DEF Flattens
      <3> QED
        BY <3>1
    <2>2. CASE n # 0
      <3>1. PICK f \in [1 .. n -> Seq(V)] : Flattens(f, ss, n)
        BY <1>2, <2>2
      <3> DEFINE g == [i \in 1 .. n + 1 |->
                          IF i <= n THEN f[i] ELSE Cat(f[n], ss[n + 1])]
      <3>2. f[n] \in Seq(V) /\ Cat(f[n], ss[n + 1]) \in Seq(V)
        BY <3>1, <2>2, CatType
      <3>3. g \in [1 .. n + 1 -> Seq(V)]
        BY <3>1, <3>2
      <3>4. ASSUME NEW i \in 1 .. n + 1
            PROVE  g[i] = IF i = 1 THEN ss[1] ELSE Cat(g[i - 1], ss[i])
        <4>1. CASE i = n + 1
          BY <2>2, <4>1
        <4>2. CASE i # n + 1
          <5>1. i \in 1 .. n /\ g[i] = f[i]
            BY <4>2
          <5>2. i # 1 => i - 1 \in 1 .. n + 1 /\ g[i - 1] = f[i - 1]
            BY <4>2
          <5>3. f[i] = IF i = 1 THEN ss[1] ELSE Cat(f[i - 1], ss[i])
            BY <3>1, <5>1 DEF Flattens
          <5> QED
            BY <5>1, <5>2, <5>3
        <4> QED
          BY <4>1, <4>2
      <3>5. Flattens(g, ss, n + 1)
        BY <3>4 DEF Flattens
      <3> QED
        BY <3>3, <3>5
    <2> QED
      BY <2>1, <2>2
  <1> HIDE DEF S
  <1>3. \A n \in Nat : n \in S
    BY <1>1, <1>2, NatSet
  <1> QED
    BY <1>3 DEF S

LEMMA FlattensAgree ==
    ASSUME NEW ss, NEW tt, NEW m \in Nat, NEW n \in Nat, m <= n,
           \A i \in 1 .. m : ss[i] = tt[i],
           NEW f, Flattens(f, ss, m), NEW g, Flattens(g, tt, n)
    PROVE  \A i \in 1 .. m : f[i] = g[i]
  <1> DEFINE S == {i \in Nat : i \in 1 .. m => f[i] = g[i]}
  <1>1. 0 \in S
    OBVIOUS
  <1>2. ASSUME NEW i \in Nat, i \in S PROVE i + 1 \in S
    <2> SUFFICES ASSUME i + 1 \in 1 .. m PROVE f[i + 1] = g[i + 1]
      OBVIOUS
    <2> DEFINE k == i + 1
    <2>1. k \in 1 .. m /\ k \in 1 .. n /\ k - 1 = i /\ 1 \in 1 .. m
      OBVIOUS
    <2>2. k # 1 => i \in 1 .. m
      BY <2>1
    <2> HIDE DEF k
    <2>3. /\ f[k] = IF k = 1 THEN ss[1] ELSE Cat(f[i], ss[k])
          /\ g[k] = IF k = 1 THEN tt[1] ELSE Cat(g[i], tt[k])
      BY <2>1 DEF Flattens
    <2>4. ss[1] = tt[1] /\ ss[k] = tt[k] /\ (k # 1 => f[i] = g[i])
      BY <1>2, <2>1, <2>2
    <2>5. f[k] = g[k]
      BY <2>3, <2>4
    <2> QED
      BY <2>5 DEF k
  <1> HIDE DEF S
  <1>3. \A i \in Nat : i \in S
    BY <1>1, <1>2, NatSet
  <1> QED
    BY <1>3 DEF S

\* v is the concatenation of the first n of ss.
IsFlat(v, ss, n) == \E f : Flattens(f, ss, n) /\ v = f[n]
Agree(ss, tt, n) == \A i \in 1 .. n : ss[i] = tt[i]

LEMMA IsFlatOne == \A v, ss : IsFlat(v, ss, 1) => v = ss[1]
  <1>1. 1 \in 1 .. 1
    OBVIOUS
  <1> QED
    BY <1>1 DEF IsFlat, Flattens

LEMMA IsFlatStep ==
    ASSUME NEW ss, NEW tt, NEW n \in Nat \ {0}, Agree(ss, tt, n),
           NEW u, IsFlat(u, ss, n), NEW v, IsFlat(v, tt, n + 1)
    PROVE  v = Cat(u, tt[n + 1])
  <1> DEFINE k == n + 1
  <1>1. k \in Nat /\ n <= k /\ n \in 1 .. n /\ k \in 1 .. k /\ k - 1 = n /\ k # 1
    OBVIOUS
  <1>2. PICK f : Flattens(f, ss, n) /\ u = f[n]
    BY DEF IsFlat
  <1>3. PICK g : Flattens(g, tt, k) /\ v = g[k]
    BY DEF IsFlat
  <1> HIDE DEF k
  <1>4. f[n] = g[n]
    BY <1>1, <1>2, <1>3, FlattensAgree DEF Agree
  <1>5. g[k] = Cat(g[n], tt[k])
    BY <1>1, <1>3 DEF Flattens
  <1> QED
    BY <1>2, <1>3, <1>4, <1>5 DEF k

\* FlattenSeq is the last of the values of such a function.
LEMMA FlatByFunction ==
    ASSUME NEW V, NEW ss \in Seq(Seq(V)), Len(ss) # 0
    PROVE  IsFlat(Flat(ss), ss, Len(ss)) /\ Flat(ss) \in Seq(V)
  <1> DEFINE n == Len(ss)
             flatten == CHOOSE f : f = [i \in 1 .. n |->
                            IF i = 1 THEN ss[i] ELSE Cat(f[i - 1], ss[i])]
  <1>1. Flat(ss) = flatten[n]
    BY EmptySeq DEF FlattenSeq, Flat, Cat
  <1> n \in Nat \ {0}
    BY LenProperties
  <1> HIDE DEF n, flatten
  <1>2. PICK f \in [1 .. n -> Seq(V)] : Flattens(f, ss, n)
    BY FlattensExists DEF n
  <1>3. f = [i \in 1 .. n |-> IF i = 1 THEN ss[i] ELSE Cat(f[i - 1], ss[i])]
    <2> DEFINE h == [i \in 1 .. n |->
                        IF i = 1 THEN ss[i] ELSE Cat(f[i - 1], ss[i])]
    <2>1. \A i \in 1 .. n : f[i] = h[i]
      BY <1>2 DEF Flattens
    <2> QED
      BY <2>1
  <1>4. flatten = [i \in 1 .. n |->
                      IF i = 1 THEN ss[i] ELSE Cat(flatten[i - 1], ss[i])]
    BY <1>3 DEF flatten
  <1>5. Flattens(flatten, ss, n)
    <2> DEFINE h == [i \in 1 .. n |->
                        IF i = 1 THEN ss[i] ELSE Cat(flatten[i - 1], ss[i])]
    <2>1. \A i \in 1 .. n :
              h[i] = IF i = 1 THEN ss[1] ELSE Cat(flatten[i - 1], ss[i])
      OBVIOUS
    <2>2. flatten = h
      BY <1>4
    <2> QED
      BY <2>1, <2>2 DEF Flattens
  <1>6. \A i \in 1 .. n : f[i] = flatten[i]
    BY <1>2, <1>5, FlattensAgree
  <1>7. n \in 1 .. n
    OBVIOUS
  <1>8. flatten[n] \in Seq(V)
    BY <1>2, <1>6, <1>7
  <1>9. IsFlat(flatten[n], ss, n)
    BY <1>5 DEF IsFlat
  <1> QED
    BY <1>1, <1>8, <1>9 DEF n

\* Concatenating nothing, one more, and the first of them.
LEMMA FlatNil == Flat(Nil) = Nil
  BY DEF FlattenSeq, Flat, Nil

LEMMA FlatType ==
    ASSUME NEW V, NEW ss \in Seq(Seq(V))
    PROVE  Flat(ss) \in Seq(V)
  <1>1. CASE Len(ss) = 0
    <2>1. ss = Nil
      BY <1>1, EmptySeq DEF Nil
    <2> QED
      BY <2>1, FlatNil, NilType
  <1>2. CASE Len(ss) # 0
    BY <1>2, FlatByFunction
  <1> QED
    BY <1>1, <1>2

LEMMA FlatAppend ==
    ASSUME NEW V, NEW ss \in Seq(Seq(V)), NEW s \in Seq(V)
    PROVE  Flat(Append(ss, s)) = Cat(Flat(ss), s)
  <1> DEFINE n == Len(ss)
             tt == Append(ss, s)
  <1>1. /\ tt \in Seq(Seq(V)) /\ Len(tt) = n + 1
        /\ tt[n + 1] = s /\ \A i \in 1 .. n : ss[i] = tt[i]
    BY AppendProperties
  <1>2. n \in Nat /\ (n = 0 => ss = Nil)
    BY LenProperties, EmptySeq DEF Nil
  <1> HIDE DEF n, tt
  <1>a. Len(tt) # 0
    BY <1>1, <1>2
  <1>3. IsFlat(Flat(tt), tt, n + 1)
    BY <1>1, <1>a, FlatByFunction
  <1>5. CASE n = 0
    <2>1. IsFlat(Flat(tt), tt, 1)
      BY <1>3, <1>5
    <2>2. Flat(tt) = s /\ Flat(ss) = Nil
      BY <1>1, <1>2, <1>5, <2>1, IsFlatOne, FlatNil
    <2> QED
      BY <2>2, CatNil DEF tt
  <1>6. CASE n # 0
    <2>1. IsFlat(Flat(ss), ss, n)
      BY <1>6, FlatByFunction DEF n
    <2>2. Agree(ss, tt, n) /\ n \in Nat \ {0}
      BY <1>1, <1>2, <1>6 DEF Agree
    <2>3. Flat(tt) = Cat(Flat(ss), tt[n + 1])
      BY <1>3, <2>1, <2>2, IsFlatStep
    <2> QED
      BY <1>1, <2>3 DEF tt
  <1> QED
    BY <1>5, <1>6

LEMMA FlatHead ==
    ASSUME NEW V, NEW ss \in Seq(Seq(V)), Len(ss) # 0
    PROVE  Flat(ss) = Cat(Head(ss), Flat(Tail(ss)))
  <1> DEFINE S == {n \in Nat : \A s \in Seq(Seq(V)) : Len(s) = n + 1 =>
                      Flat(s) = Cat(Head(s), Flat(Tail(s)))}
  <1>1. 0 \in S
    <2> SUFFICES ASSUME NEW s \in Seq(Seq(V)), Len(s) = 0 + 1
                 PROVE  Flat(s) = Cat(Head(s), Flat(Tail(s)))
      OBVIOUS
    <2> HIDE DEF S
    <2>a. Len(s) # 0
      OBVIOUS
    <2>0. PICK t \in Seq(Seq(V)), e \in Seq(V) : IsSplit(Seq(V), s, t, e)
      BY <2>a, SplitLast
    <2>b. Len(t) = 0
      BY <2>0 DEF IsSplit
    <2>1. s = Append(t, e) /\ t = Nil /\ Head(s) = e /\ Tail(s) = Nil
      BY <2>0, <2>b, Zenon DEF IsSplit
    <2>2. Flat(s) = Cat(Flat(Nil), e)
      BY <2>1, FlatAppend
    <2> QED
      BY <2>1, <2>2, FlatNil, CatNil
  <1>2. ASSUME NEW n \in Nat, n \in S PROVE n + 1 \in S
    <2> SUFFICES ASSUME NEW t \in Seq(Seq(V)), Len(t) = (n + 1) + 1
                 PROVE  Flat(t) = Cat(Head(t), Flat(Tail(t)))
      OBVIOUS
    <2> HIDE DEF S
    <2>a. Len(t) # 0
      OBVIOUS
    <2>0. PICK s \in Seq(Seq(V)), e \in Seq(V) : IsSplit(Seq(V), t, s, e)
      BY <2>a, SplitLast
    <2>b. Len(s) = n + 1 /\ Len(s) # 0
      BY <2>0 DEF IsSplit
    <2>1. /\ t = Append(s, e) /\ Len(s) = n + 1
          /\ Head(t) = Head(s) /\ Head(s) \in Seq(V)
          /\ Tail(t) = Append(Tail(s), e) /\ Tail(s) \in Seq(Seq(V))
      BY <2>0, <2>b, Zenon DEF IsSplit
    <2>2. Flat(s) = Cat(Head(s), Flat(Tail(s)))
      BY <1>2, <2>1 DEF S
    <2>3. Flat(t) = Cat(Flat(s), e) /\ Flat(Tail(t)) = Cat(Flat(Tail(s)), e)
      BY <2>1, FlatAppend
    <2>4. Flat(Tail(s)) \in Seq(V)
      BY <2>1, FlatType
    <2>5. Cat(Cat(Head(s), Flat(Tail(s))), e)
              = Cat(Head(s), Cat(Flat(Tail(s)), e))
      BY <2>1, <2>4, CatAssoc
    <2> QED
      BY <2>1, <2>2, <2>3, <2>5
  <1> HIDE DEF S
  <1>3. \A n \in Nat : n \in S
    BY <1>1, <1>2, NatSet
  <1>4. Len(ss) - 1 \in Nat /\ Len(ss) = (Len(ss) - 1) + 1
    BY LenProperties
  <1>5. Len(ss) - 1 \in S
    BY <1>3, <1>4
  <1> QED
    BY <1>4, <1>5 DEF S

-----------------------------------------------------------------------------
(* The parts that the agent wrote and the daemon has not taken.             *)

LEMMA LineIsSeq == Line \subseteq Seq(Part) /\ Part = Seq(Message)
  BY DEF Line, Part

LEMMA LinesAreSeqs == \A s \in Seq(Line) : s \in Seq(Seq(Part))
  BY SeqMonotonic, LineIsSeq

\* The agent writes a line.
LEMMA PartsWritten ==
    ASSUME NEW V, NEW d \in Seq(V), NEW s \in Seq(V), NEW ss \in Seq(Seq(V)),
           NEW l \in Seq(V)
    PROVE  Cat(Cat(d, Cat(s, Flat(ss))), l) = Cat(d, Cat(s, Flat(Append(ss, l))))
  <1>1. Flat(ss) \in Seq(V)
    BY FlatType
  <1>2. Cat(s, Flat(ss)) \in Seq(V)
    BY <1>1, CatType
  <1>3. Flat(Append(ss, l)) = Cat(Flat(ss), l)
    BY FlatAppend
  <1> QED
    BY <1>1, <1>2, <1>3, CatAssoc

\* The bridge reads a line.
LEMMA PartsRead ==
    ASSUME NEW V, NEW s \in Seq(V), NEW ss \in Seq(Seq(V)), Len(ss) # 0
    PROVE  Cat(Cat(s, Nil), Flat(ss)) = Cat(Cat(s, Head(ss)), Flat(Tail(ss)))
  <1>1. ss # <<>>
    BY EmptySeq
  <1>2. Head(ss) \in Seq(V) /\ Tail(ss) \in Seq(Seq(V))
    BY <1>1, HeadTailProperties
  <1>3. Flat(Tail(ss)) \in Seq(V)
    BY <1>2, FlatType
  <1>4. Flat(ss) = Cat(Head(ss), Flat(Tail(ss)))
    BY FlatHead
  <1> QED
    BY <1>2, <1>3, <1>4, CatNil, CatAssoc

\* One more element is taken from the front of s.
LEMMA PartsTaken ==
    ASSUME NEW V, NEW d \in Seq(V), NEW s \in Seq(V), NEW t \in Seq(V),
           s # <<>>
    PROVE  Cat(d, Cat(s, t)) = Cat(Append(d, Head(s)), Cat(Tail(s), t))
  <1>1. /\ Head(s) \in V /\ Tail(s) \in Seq(V)
        /\ s = Cat(One(Head(s)), Tail(s))
    BY CatHead
  <1> DEFINE h == Head(s)
             r == Tail(s)
  <1>2. One(h) \in Seq(V) /\ Cat(r, t) \in Seq(V)
    BY <1>1, OneType, CatType
  <1>3. Append(d, h) = Cat(d, One(h))
    BY <1>1, CatAppend
  <1>4. r \in Seq(V) /\ s = Cat(One(h), r)
    BY <1>1
  <1> HIDE DEF h, r
  <1>5. Cat(Cat(One(h), r), t) = Cat(One(h), Cat(r, t))
    BY <1>2, <1>4, CatAssoc
  <1>6. Cat(Cat(d, One(h)), Cat(r, t)) = Cat(d, Cat(One(h), Cat(r, t)))
    BY <1>2, CatAssoc
  <1>7. Cat(d, Cat(s, t)) = Cat(Append(d, h), Cat(r, t))
    BY <1>3, <1>4, <1>5, <1>6
  <1> QED
    BY <1>7 DEF h, r

-----------------------------------------------------------------------------
(* The replies that parts are owed.                                         *)

\* The reply r, if there is one, and what the parts of w are owed when the x-th
\* one ends the connection.
Pend(r) == IF r = <<>> THEN Nil ELSE One(r)
ReplyTo(w, x, i) == IF i = x THEN Nil ELSE Pend(OwedIds(w[i], i))
Owes(w, x, n) == Flat([i \in 1 .. n |-> ReplyTo(w, x, i)])

LEMMA FunIsSeq ==
    ASSUME NEW V, NEW n \in Nat, NEW f \in [1 .. n -> V]
    PROVE  f \in Seq(V) /\ Len(f) = n
  BY SeqDef

LEMMA PendType == ASSUME NEW V, NEW r \in V PROVE Pend(r) \in Seq(V)
  BY NilType, OneType DEF Pend

\* What one message of a part gets is a sequence of one id at most.
Ids == {Null} \cup (Nat \X Nat)

LEMMA IdType ==
    ASSUME NEW part \in Part, NEW n \in Nat, NEW k \in 1 .. Len(part)
    PROVE  /\ ReplyId(part[k], n, k) \in Ids
           /\ <<ReplyId(part[k], n, k)>> \in Seq(Ids)
           /\ <<>> \in Seq(Ids)
  <1>1. ReplyId(part[k], n, k) \in Ids
    BY LenProperties DEF ReplyId, Ids, Null, Part
  <1>2. One(ReplyId(part[k], n, k)) \in Seq(Ids)
    BY <1>1, OneType
  <1> QED
    BY <1>1, <1>2, NilType DEF One, Nil

LEMMA ReplyIsIds == Reply = Seq(Ids)
  BY DEF Reply, Ids

LEMMA OwedType ==
    ASSUME NEW part \in Part, NEW n \in Nat
    PROVE  OwedIds(part, n) \in Reply
  <1> DEFINE id(k)   == IF part[k].id THEN <<n, k>> ELSE Null
             owed(k) == IF Owed(part[k]) THEN <<id(k)>> ELSE <<>>
             f == [k \in 1 .. Len(part) |-> owed(k)]
  <1>1. Len(part) \in Nat /\ DOMAIN part = 1 .. Len(part)
    BY LenProperties DEF Part
  <1>2. ASSUME NEW k \in 1 .. Len(part) PROVE owed(k) \in Seq(Ids)
    BY IdType DEF ReplyId
  <1> HIDE DEF owed
  <1>3. f \in [1 .. Len(part) -> Seq(Ids)]
    BY <1>2
  <1>4. OwedIds(part, n) = Flat(f)
    BY <1>1 DEF OwedIds, Flat, owed
  <1> HIDE DEF f
  <1>5. f \in Seq(Seq(Ids))
    BY <1>1, <1>3, FunIsSeq
  <1> QED
    BY <1>4, <1>5, FlatType, ReplyIsIds

\* The daemon answers what is owed: a message that has no reply is one that is
\* owed none, and a message that raises ends the connection.
LEMMA OwedUnlessSilent ==
    ASSUME NEW m \in Message, ~Raises(m)
    PROVE  Owed(m) <=> ~Silent(m)
  BY DEF Message, Methods, Garbage, Raises, Owed, Silent

LEMMA DispatchIsOwed ==
    ASSUME NEW part \in Part, NEW n \in Nat, ~Fails(part)
    PROVE  Dispatch(part, n) = OwedIds(part, n)
  <1>1. DOMAIN part = 1 .. Len(part)
    BY LenProperties DEF Part
  <1>2. ASSUME NEW k \in DOMAIN part
        PROVE  /\ Owed(part[k]) <=> ~Silent(part[k])
    <2>1. part[k] \in Message /\ ~Raises(part[k])
      BY <1>1, ElementOfSeq DEF Part, Fails
    <2> QED
      BY <2>1, OwedUnlessSilent
  <1>3. ASSUME NEW k \in DOMAIN part
        PROVE  (IF Silent(part[k]) THEN <<>> ELSE <<ReplyId(part[k], n, k)>>)
                 = (IF Owed(part[k])
                    THEN <<IF part[k].id THEN <<n, k>> ELSE Null>> ELSE <<>>)
    BY <1>2 DEF ReplyId
  <1> DEFINE f == [k \in DOMAIN part |-> IF Silent(part[k]) THEN <<>>
                                         ELSE <<ReplyId(part[k], n, k)>>]
             g == [k \in DOMAIN part |->
                     IF Owed(part[k])
                     THEN <<IF part[k].id THEN <<n, k>> ELSE Null>> ELSE <<>>]
  <1>4. f = g
    BY <1>3
  <1>5. Dispatch(part, n) = Flat(f) /\ OwedIds(part, n) = Flat(g)
    BY DEF Dispatch, OwedIds, Flat
  <1> QED
    BY <1>4, <1>5

LEMMA OwesType ==
    ASSUME NEW w \in Seq(Part), NEW x, NEW n \in 0 .. Len(w)
    PROVE  /\ Owes(w, x, n) \in Seq(Reply)
           /\ [i \in 1 .. n |-> ReplyTo(w, x, i)] \in Seq(Seq(Reply))
           /\ \A i \in 1 .. n : ReplyTo(w, x, i) \in Seq(Reply)
  <1> DEFINE f == [i \in 1 .. n |-> ReplyTo(w, x, i)]
  <1>1. n \in Nat /\ \A i \in 1 .. n : i \in Nat /\ w[i] \in Part
    BY LenProperties, ElementOfSeq
  <1>2. ASSUME NEW i \in 1 .. n PROVE ReplyTo(w, x, i) \in Seq(Reply)
    BY <1>1, OwedType, PendType, NilType DEF ReplyTo
  <1>3. f \in [1 .. n -> Seq(Reply)]
    BY <1>2
  <1>4. Owes(w, x, n) = Flat(f)
    BY DEF Owes
  <1> HIDE DEF f
  <1>5. f \in Seq(Seq(Reply))
    BY <1>1, <1>3, FunIsSeq
  <1> QED
    BY <1>2, <1>4, <1>5, FlatType DEF f

\* What one more part is owed comes last.
LEMMA OwesStep ==
    ASSUME NEW w \in Seq(Part), NEW x, NEW n \in Nat, n < Len(w)
    PROVE  Owes(w, x, n + 1) = Cat(Owes(w, x, n), ReplyTo(w, x, n + 1))
  <1> DEFINE f == [i \in 1 .. n |-> ReplyTo(w, x, i)]
             g == [i \in 1 .. n + 1 |-> ReplyTo(w, x, i)]
             r == ReplyTo(w, x, n + 1)
  <1>1. n + 1 \in 0 .. Len(w) /\ n \in 0 .. Len(w) /\ n + 1 \in 1 .. n + 1
    BY LenProperties
  <1>2. f \in Seq(Seq(Reply)) /\ g \in Seq(Seq(Reply)) /\ r \in Seq(Reply)
    BY <1>1, OwesType
  <1>3. \A i \in 1 .. n : f[i] = g[i]
    OBVIOUS
  <1>4. Len(f) = n /\ Len(g) = n + 1 /\ g[n + 1] = r
    BY SeqDef
  <1>5. Owes(w, x, n) = Flat(f) /\ Owes(w, x, n + 1) = Flat(g)
    BY DEF Owes
  <1> HIDE DEF f, g, r
  <1>6. g = Append(f, r)
    <2> DEFINE h == Append(f, r)
    <2>1. /\ h \in Seq(Seq(Reply)) /\ Len(h) = n + 1
          /\ h[n + 1] = r /\ \A i \in 1 .. n : h[i] = f[i]
      BY <1>2, <1>4, AppendProperties
    <2> HIDE DEF h
    <2>2. \A i \in 1 .. n + 1 : i \in 1 .. n \/ i = n + 1
      OBVIOUS
    <2>3. \A i \in 1 .. n + 1 : g[i] = h[i]
      BY <1>3, <1>4, <2>1, <2>2
    <2>4. g = h
      BY <1>2, <1>4, <2>1, <2>3, SeqEqual
    <2> QED
      BY <2>4 DEF h
  <1>7. Flat(Append(f, r)) = Cat(Flat(f), r)
    BY <1>2, FlatAppend
  <1> QED
    BY <1>5, <1>6, <1>7 DEF r

\* It depends on these parts only.
LEMMA OwesSame ==
    ASSUME NEW w, NEW v, NEW x, NEW y, NEW n \in Nat, Agree(w, v, n),
           x = y \/ (x \notin 1 .. n /\ y \notin 1 .. n)
    PROVE  Owes(w, x, n) = Owes(v, y, n)
  <1>1. ASSUME NEW i \in 1 .. n PROVE ReplyTo(w, x, i) = ReplyTo(v, y, i)
    <2>1. w[i] = v[i] /\ (i = x <=> i = y)
      BY DEF Agree
    <2> QED
      BY <2>1 DEF ReplyTo
  <1> QED
    BY <1>1 DEF Owes

LEMMA RepliesAreOwes ==
    ASSUME NEW n \in Nat PROVE Replies(n) = Owes(written, failed, n)
  BY DEF Replies, Owes, ReplyTo, Pend, Nil, One, Flat

LEMMA ReceivedCat ==
    /\ Received = Cat(Cat(seen, stdout), Pend(data))
    /\ OnTheWay = Cat(down, Pend(out))
  BY DEF Received, OnTheWay, Cat, Pend, Nil, One

-----------------------------------------------------------------------------
(* The invariant.                                                          *)

\* How far the bridge and the daemon's thread are, given each other and the
\* deaths so far.
Phases ==
    /\ down \in Seq(Reply \ {<<>>})
    /\ main = "write" => data # <<>>
    /\ main = "connect" => handler = "none"
    /\ handler = "none" => main \in {"connect", "exited"}
    /\ failed # 0 => handler = "closed"
    /\ ~reading => faults # 0
    /\ main = "exited" /\ faults = 0 =>
         handler = "closed" /\ down = <<>> /\ data = <<>>
    /\ ~upOpen => main = "exited" \/ pump = "done"
    /\ pump \in {"shut", "done"} /\ handler # "closed" =>
         stdin = <<>> /\ ~stdinOpen

\* What the daemon has taken, and what it can take.
Ahead == Cat(call, up)

\* While the daemon listens, what it is not done with is on the way to it, in
\* order.
IsFlow(done) ==
    /\ done \in Seq(Part) /\ Len(done) = handled
    /\ written = Cat(done, Cat(Cat(Ahead, chunk), Flat(stdin)))

Flow == handler # "closed" => \E done : IsFlow(done)

\* It stops listening when it has taken everything, unless something went wrong.
Complete ==
    handler = "closed" /\ faults = 0 /\ failed = 0 =>
        handled = Len(written) /\ ~stdinOpen

\* The replies that are owed have arrived or are on the way, but for one that
\* was never sent.
IsLost(lost) ==
    /\ lost \in Seq(Reply)
    /\ Owes(written, failed, handled) = Cat(Cat(Received, OnTheWay), lost)
    /\ handler # "closed" \/ faults = 0 => lost = Nil

Delivered == \E lost : IsLost(lost)

Inv == TypeOK /\ Phases /\ Flow /\ Complete /\ Delivered

-----------------------------------------------------------------------------
(* Types.                                                                  *)

LEMMA SeqGrows ==
    ASSUME NEW V, NEW s \in Seq(V), NEW e \in V
    PROVE  Append(s, e) \in Seq(V) /\ Len(Append(s, e)) = Len(s) + 1
  BY AppendProperties

LEMMA SeqShrinks ==
    ASSUME NEW V, NEW s \in Seq(V), s # <<>>
    PROVE  /\ Head(s) \in V /\ Tail(s) \in Seq(V)
           /\ Len(Tail(s)) = Len(s) - 1 /\ Len(s) \in Nat
  BY HeadTailProperties, LenProperties

LEMMA NothingIsSeq == \A V : <<>> \in Seq(V)
  BY EmptySeq

\* What the daemon has taken is what it deals with next.
LEMMA AheadIs ==
    ASSUME TypeOK
    PROVE  /\ Ahead \in Seq(Part)
           /\ handler \notin {"call", "stuck"} => call = <<>> /\ Ahead = up
           /\ handler \in {"call", "stuck"} =>
                call # <<>> /\ Head(call) \in Part /\ Ahead = Cat(One(Head(call)), up)
  <1>1. up \in Seq(Part) /\ call \in Seq(Part) /\ Len(call) <= 1
    BY DEF TypeOK
  <1>2. CASE call = <<>>
    <2>1. Ahead = up
      BY <1>1, <1>2, CatNil DEF Ahead, Nil
    <2> QED
      BY <1>1, <1>2, <2>1 DEF TypeOK
  <1>3. CASE call # <<>>
    <2>1. Head(call) \in Part
      BY <1>1, <1>3, SeqShrinks
    <2>2. Len(Tail(call)) = Len(call) - 1 /\ Len(call) \in Nat /\ Tail(call) \in Seq(Part)
      BY <1>1, <1>3, SeqShrinks
    <2>3. Len(Tail(call)) = 0
      BY <1>1, <2>2, LenProperties
    <2>4. Tail(call) = Nil
      BY <2>2, <2>3, EmptySeq DEF Nil
    <2>5. call = Cat(One(Head(call)), Nil)
      BY <1>1, <1>3, <2>4, CatHead
    <2>6. call = One(Head(call)) /\ call \in Seq(Part)
      BY <1>1, <2>1, <2>5, OneType, CatNil
    <2>7. Ahead = Cat(One(Head(call)), up)
      BY <2>6 DEF Ahead
    <2>8. Ahead \in Seq(Part)
      BY <1>1, CatType DEF Ahead
    <2> QED
      BY <1>3, <2>1, <2>7, <2>8 DEF TypeOK
  <1> QED
    BY <1>2, <1>3

LEMMA AheadTaken ==
    ASSUME TypeOK, HandlerRead
    PROVE  Ahead' = Ahead
  <1>1. up \in Seq(Part) /\ up # <<>> /\ Ahead = up
    BY AheadIs DEF HandlerRead, TypeOK
  <1>2. up = Cat(One(Head(up)), Tail(up))
    BY <1>1, CatHead
  <1>3. call' = One(Head(up)) /\ up' = Tail(up)
    BY DEF HandlerRead, One
  <1>4. Ahead' = Cat(call', up')
    BY DEF Ahead
  <1> QED
    BY <1>1, <1>2, <1>3, <1>4

\* The part that the daemon deals with is the next one that was written.
LEMMA TakenPart ==
    ASSUME TypeOK, Flow, handler = "call"
    PROVE  /\ Head(call) \in Part
           /\ handled + 1 \in 1 .. Len(written) /\ handled \in Nat
           /\ Head(call) = written[handled + 1]
           /\ \E done : /\ done \in Seq(Part) /\ Len(done) = handled + 1
                        /\ written = Cat(done, Cat(Cat(up, chunk), Flat(stdin)))
  <1>1. PICK done : IsFlow(done)
    BY DEF Flow
  <1>2. /\ up \in Seq(Part) /\ chunk \in Seq(Part) /\ stdin \in Seq(Line)
        /\ handled \in Nat /\ written \in Seq(Part)
    BY LenProperties DEF TypeOK
  <1> DEFINE h == Head(call)
             f == Flat(stdin)
             rest == Cat(Cat(up, chunk), f)
             taken == Append(done, h)
  <1>3. h \in Part /\ Ahead = Cat(One(h), up)
    BY AheadIs
  <1>4. f \in Seq(Part)
    BY <1>2, LinesAreSeqs, FlatType
  <1>5. One(h) \in Seq(Part)
    BY <1>3, OneType
  <1>6. rest \in Seq(Part) /\ Cat(up, chunk) \in Seq(Part)
    BY <1>2, <1>4, CatType
  <1>a. done \in Seq(Part) /\ Len(done) = handled
    BY <1>1 DEF IsFlow
  <1>b. written = Cat(done, Cat(Cat(Ahead, chunk), f))
    BY <1>1 DEF IsFlow
  <1> HIDE DEF h, f
  <1>7. Cat(Cat(Cat(One(h), up), chunk), f) = Cat(One(h), rest)
    <2> HIDE DEF rest
    <2>1. Cat(Cat(One(h), up), chunk) = Cat(One(h), Cat(up, chunk))
      BY <1>2, <1>5, CatAssoc
    <2>2. Cat(Cat(One(h), Cat(up, chunk)), f) = Cat(One(h), Cat(Cat(up, chunk), f))
      BY <1>4, <1>5, <1>6, CatAssoc
    <2> QED
      BY <2>1, <2>2 DEF rest
  <1>8. taken = Cat(done, One(h))
    BY <1>3, <1>a, CatAppend
  <1> HIDE DEF rest
  <1>9. written = Cat(taken, rest)
    BY <1>3, <1>5, <1>6, <1>7, <1>8, <1>a, <1>b, CatAssoc
  <1>10. /\ taken \in Seq(Part) /\ Len(taken) = handled + 1
         /\ taken[handled + 1] = h
    BY <1>a, <1>3, AppendProperties
  <1> HIDE DEF taken
  <1>11. /\ Len(written) = Len(taken) + Len(rest) /\ Len(rest) \in Nat
         /\ \A i \in 1 .. Len(taken) : written[i] = taken[i]
    BY <1>6, <1>9, <1>10, CatIndex, LenProperties
  <1>12. handled + 1 \in 1 .. Len(written) /\ handled + 1 \in 1 .. Len(taken)
    BY <1>2, <1>10, <1>11
  <1>13. h = written[handled + 1]
    BY <1>10, <1>11, <1>12
  <1> QED
    BY <1>2, <1>3, <1>9, <1>10, <1>12, <1>13 DEF rest, h, f

LEMMA TypeInit == Init => TypeOK
  BY NothingIsSeq, BoundsAssumption, RoomAssumption, EmptySeq
     DEF Init, TypeOK, Reply

LEMMA TypeStep ==
    ASSUME TypeOK, Phases, Flow, [Next]_vars PROVE TypeOK'
  <1>0. /\ Room \in Nat /\ MaxFaults \in Nat
        /\ Len(stdin) \in Nat /\ Len(down) \in Nat /\ Len(stdout) \in Nat
        /\ Len(<<>>) = 0
        /\ <<>> \in Seq(Part) /\ <<>> \in Reply
    BY RoomAssumption, BoundsAssumption, LenProperties, NothingIsSeq, EmptySeq
       DEF TypeOK, Reply
  <1>1. ASSUME NEW l \in Lines, Write(l) PROVE TypeOK'
    <2>1. l \in Line /\ l \in Seq(Part)
      BY LinesAssumption, LineIsSeq
    <2>2. stdin' \in Seq(Line) /\ Len(stdin') = Len(stdin) + 1
      BY <1>1, <2>1, SeqGrows DEF TypeOK, Write
    <2>3. /\ written' \in Seq(Part) /\ Len(l) \in Nat /\ Len(written) \in Nat
          /\ Len(written') = Len(written) + Len(l)
      BY <1>1, <2>1, ConcatProperties, LenProperties DEF TypeOK, Write
    <2> QED
      BY <1>0, <1>1, <2>2, <2>3
         DEF TypeOK, Write, handlerVars, mainVars
  <1>2. CASE CloseStdin
    BY <1>2 DEF TypeOK, CloseStdin, pumpVars, handlerVars, mainVars
  <1>3. CASE Hangup
    <2>1. faults' \in 0 .. MaxFaults
      BY <1>0, <1>3 DEF TypeOK, Hangup
    <2>2. reading' \in BOOLEAN /\ stdinOpen' \in BOOLEAN
      BY <1>3 DEF Hangup
    <2> QED
      BY <1>3, <2>1, <2>2 DEF TypeOK, Hangup, pumpVars, handlerVars, mainVars
  <1>4. CASE ReadStdout
    <2>1. /\ Head(stdout) \in Reply /\ stdout' \in Seq(Reply)
          /\ Len(stdout') = Len(stdout) - 1
      BY <1>4, SeqShrinks DEF TypeOK, ReadStdout
    <2>2. seen' \in Seq(Reply)
      BY <1>4, <2>1, SeqGrows DEF TypeOK, ReadStdout
    <2> QED
      BY <1>0, <1>4, <2>1, <2>2
         DEF TypeOK, ReadStdout, pumpVars, handlerVars, mainVars
  <1>5. CASE Connect
    BY <1>5 DEF TypeOK, Phases, Connect, agentVars, pumpVars
  <1>6. CASE Refused
    <2>1. faults' \in 0 .. MaxFaults
      BY <1>0, <1>6 DEF TypeOK, Refused
    <2>2. upOpen' \in BOOLEAN
      BY <1>6 DEF Refused
    <2> QED
      BY <1>6, <2>1, <2>2 DEF TypeOK, Refused, agentVars, handlerVars
  <1>7. CASE PumpRead
    <2>1. /\ chunk' \in Line /\ stdin' \in Seq(Line)
          /\ Len(stdin') = Len(stdin) - 1
      BY <1>7, SeqShrinks DEF TypeOK, PumpRead, Idle
    <2>2. chunk' \in Seq(Part) /\ chunk' # <<>>
      BY <2>1 DEF Line
    <2> QED
      BY <1>0, <1>7, <2>1, <2>2
         DEF TypeOK, PumpRead, agentVars, handlerVars, mainVars
  <1>8. CASE PumpEnd
    BY <1>8 DEF TypeOK, PumpEnd, agentVars, handlerVars, mainVars
  <1>9. CASE PumpSend
    <2>1. up' \in Seq(Part)
      BY <1>9, ConcatProperties DEF TypeOK, PumpSend
    <2> QED
      BY <1>0, <1>9, <2>1 DEF TypeOK, PumpSend, agentVars, handlerVars, mainVars
  <1>10. CASE PumpSendFail
    BY <1>0, <1>10 DEF TypeOK, PumpSendFail, agentVars, handlerVars, mainVars
  <1>11. CASE PumpShut
    BY <1>11 DEF TypeOK, PumpShut, Shut, agentVars, handlerVars
  <1>12. CASE Recv
    <2>1. /\ data' \in Reply /\ down' \in Seq(Reply)
          /\ Len(down') = Len(down) - 1
      BY <1>12, SeqShrinks DEF TypeOK, Recv
    <2> QED
      BY <1>0, <1>12, <2>1 DEF TypeOK, Recv, agentVars, pumpVars, handlerVars
  <1>13. CASE WriteStdout
    <2>1. stdout' \in Seq(Reply) /\ Len(stdout') = Len(stdout) + 1
      BY <1>13, SeqGrows DEF TypeOK, WriteStdout
    <2> QED
      BY <1>0, <1>13, <2>1
         DEF TypeOK, WriteStdout, agentVars, pumpVars, handlerVars
  <1>14. CASE Exit
    BY <1>14 DEF TypeOK, Exit, agentVars, handlerVars
  <1>15. CASE HandlerRead
    <2>1. Head(up) \in Part /\ up' \in Seq(Part)
      BY <1>15, SeqShrinks DEF TypeOK, HandlerRead
    <2>2. call' = Append(<<>>, Head(up)) /\ Len(<<>>) = 0
      BY <1>0, <1>15 DEF HandlerRead
    <2>3. call' \in Seq(Part) /\ Len(call') = 1 /\ call' # <<>>
      BY <1>0, <2>1, <2>2, SeqGrows
    <2>4. handler' \in {"call", "stuck"} /\ out' = out /\ handler = "read"
      BY <1>15 DEF HandlerRead
    <2> QED
      BY <1>15, <2>1, <2>3, <2>4
         DEF TypeOK, HandlerRead, agentVars, pumpVars, mainVars
  <1>21. CASE HandlerDispatch
    <2>1. /\ Head(call) \in Part /\ handled \in Nat
          /\ handled' \in 0 .. Len(written) /\ handled' = handled + 1
      BY <1>21, TakenPart DEF HandlerDispatch
    <2>2. CASE Fails(Head(call))
      BY <1>0, <1>21, <2>1, <2>2
         DEF TypeOK, HandlerDispatch, agentVars, pumpVars, mainVars
    <2>3. CASE ~Fails(Head(call))
      <3>1. out' = Dispatch(Head(call), handled + 1)
        BY <1>21, <2>3 DEF HandlerDispatch
      <3>2. Dispatch(Head(call), handled + 1) = OwedIds(Head(call), handled + 1)
        BY <2>1, <2>3, DispatchIsOwed
      <3>3. out' \in Reply
        BY <2>1, <3>1, <3>2, OwedType
      <3>4. failed' = failed /\ handler' = IF out' = <<>> THEN "read" ELSE "write"
        BY <1>21, <2>3 DEF HandlerDispatch
      <3> QED
        BY <1>0, <1>21, <2>1, <3>3, <3>4
           DEF TypeOK, HandlerDispatch, agentVars, pumpVars, mainVars
    <2> QED
      BY <2>2, <2>3
  <1>22. CASE Unstick
    BY <1>22 DEF TypeOK, Unstick, agentVars, pumpVars, mainVars
  <1>16. CASE HandlerEnd
    BY <1>16 DEF TypeOK, HandlerEnd, agentVars, pumpVars, mainVars
  <1>17. CASE HandlerWrite
    <2>1. down' \in Seq(Reply) /\ Len(down') = Len(down) + 1
      BY <1>17, SeqGrows DEF TypeOK, HandlerWrite
    <2> QED
      BY <1>0, <1>17, <2>1 DEF TypeOK, HandlerWrite, agentVars, pumpVars, mainVars
  <1>18. CASE HandlerWriteFail
    BY <1>0, <1>18 DEF TypeOK, HandlerWriteFail, agentVars, pumpVars, mainVars
  <1>19. CASE DaemonCrash
    BY <1>0, <1>19 DEF TypeOK, DaemonCrash, agentVars, pumpVars, mainVars
  <1>20. CASE UNCHANGED vars
    BY <1>20 DEF TypeOK, vars, agentVars, pumpVars, handlerVars, mainVars
  <1> QED
    BY <1>1, <1>2, <1>3, <1>4, <1>5, <1>6, <1>7, <1>8, <1>9, <1>10, <1>11,
       <1>12, <1>13, <1>14, <1>15, <1>16, <1>17, <1>18, <1>19, <1>20, <1>21, <1>22
       DEF Next, Agent, Pump, Main, Handler

-----------------------------------------------------------------------------
(* The phases.                                                             *)

LEMMA PhasesInit == Init => Phases
  BY NothingIsSeq DEF Init, Phases

LEMMA PhasesStep ==
    ASSUME TypeOK, Phases, [Next]_vars PROVE Phases'
  <1>0. faults \in Nat /\ handled \in Nat /\ (faults + 1 # 0)
    BY BoundsAssumption, LenProperties DEF TypeOK
  <1>1. ASSUME NEW l \in Lines, Write(l) PROVE Phases'
    BY <1>1 DEF TypeOK, Phases, Write, handlerVars, mainVars
  <1>2. CASE CloseStdin
    BY <1>2 DEF TypeOK, Phases, CloseStdin, pumpVars, handlerVars, mainVars
  <1>3. CASE Hangup
    BY <1>0, <1>3 DEF TypeOK, Phases, Hangup, pumpVars, handlerVars, mainVars
  <1>4. CASE ReadStdout
    BY <1>4 DEF TypeOK, Phases, ReadStdout, pumpVars, handlerVars, mainVars
  <1>5. CASE Connect
    BY <1>5 DEF TypeOK, Phases, Connect, agentVars, pumpVars
  <1>6. CASE Refused
    BY <1>0, <1>6 DEF TypeOK, Phases, Refused, agentVars, handlerVars
  <1>7. CASE PumpRead
    BY <1>7 DEF TypeOK, Phases, Running, PumpRead, agentVars, handlerVars, mainVars
  <1>8. CASE PumpEnd
    BY <1>8 DEF TypeOK, Phases, PumpEnd, agentVars, handlerVars, mainVars
  <1>9. CASE PumpSend
    BY <1>9 DEF TypeOK, Phases, PumpSend, agentVars, handlerVars, mainVars
  <1>10. CASE PumpSendFail
    BY <1>10 DEF TypeOK, Phases, PumpSendFail, agentVars, handlerVars, mainVars
  <1>11. CASE PumpShut
    BY <1>11 DEF TypeOK, Phases, PumpShut, Shut, agentVars, handlerVars
  <1>12. CASE Recv
    <2>1. /\ data' \in Reply \ {<<>>} /\ down' \in Seq(Reply \ {<<>>})
      BY <1>12, SeqShrinks DEF Phases, Recv
    <2> QED
      BY <1>12, <2>1 DEF TypeOK, Phases, Recv, agentVars, pumpVars, handlerVars
  <1>13. CASE WriteStdout
    BY <1>13 DEF TypeOK, Phases, WriteStdout, agentVars, pumpVars, handlerVars
  <1>14. CASE Exit
    BY <1>14 DEF TypeOK, Phases, Exit, agentVars, handlerVars
  <1>15. CASE HandlerRead \/ Unstick
    <2>1. handler' \in {"call", "stuck"} /\ handler # "closed" /\ handler # "none"
      BY <1>15 DEF HandlerRead, Unstick
    <2> QED
      BY <1>15, <2>1
         DEF TypeOK, Phases, HandlerRead, Unstick, agentVars, pumpVars, mainVars
  <1>21. CASE HandlerDispatch
    <2>1. handler' \in {"read", "write", "closed"} /\ (failed' # 0 => handler' = "closed")
      BY <1>21 DEF Phases, HandlerDispatch
    <2> QED
      BY <1>21, <2>1
         DEF TypeOK, Phases, HandlerDispatch, agentVars, pumpVars, mainVars
  <1>16. CASE HandlerEnd
    BY <1>16 DEF TypeOK, Phases, HandlerEnd, agentVars, pumpVars, mainVars
  <1>17. CASE HandlerWrite
    <2>1. down' \in Seq(Reply \ {<<>>})
      BY <1>17, SeqGrows DEF TypeOK, Phases, HandlerWrite
    <2> QED
      BY <1>17, <2>1
         DEF TypeOK, Phases, Running, HandlerWrite, agentVars, pumpVars, mainVars
  <1>18. CASE HandlerWriteFail
    BY <1>18 DEF TypeOK, Phases, HandlerWriteFail, agentVars, pumpVars, mainVars
  <1>19. CASE DaemonCrash
    BY <1>0, <1>19 DEF TypeOK, Phases, DaemonCrash, agentVars, pumpVars, mainVars
  <1>20. CASE UNCHANGED vars
    BY <1>20 DEF Phases, vars, agentVars, pumpVars, handlerVars, mainVars
  <1> QED
    BY <1>1, <1>2, <1>3, <1>4, <1>5, <1>6, <1>7, <1>8, <1>9, <1>10, <1>11,
       <1>12, <1>13, <1>14, <1>15, <1>16, <1>17, <1>18, <1>19, <1>20, <1>21
       DEF Next, Agent, Pump, Main, Handler

-----------------------------------------------------------------------------
(* What is on the way to the daemon, and that it takes everything.          *)

FlowVars == <<handler, handled, written, call, up, chunk, stdin>>

LEMMA FlowInit == Init => Flow
  <1> SUFFICES ASSUME Init PROVE IsFlow(<<>>)
    BY DEF Flow
  <1>1. Nil \in Seq(Part) /\ Len(Nil) = 0 /\ Flat(Nil) = Nil
    BY NilType, EmptySeq, FlatNil DEF Nil
  <1>2. Cat(Nil, Cat(Cat(Cat(Nil, Nil), Nil), Nil)) = Nil
    BY <1>1, CatNil
  <1> QED
    BY <1>1, <1>2 DEF Init, IsFlow, Ahead, Nil

LEMMA FlowStep ==
    ASSUME TypeOK, Phases, Flow, [Next]_vars PROVE Flow'
  <1>0. CASE handler' = "closed"
    BY <1>0 DEF Flow
  <1> SUFFICES ASSUME handler' # "closed" PROVE Flow'
    BY <1>0
  <1>1. /\ up \in Seq(Part) /\ chunk \in Seq(Part) /\ stdin \in Seq(Line)
        /\ stdin \in Seq(Seq(Part)) /\ Flat(stdin) \in Seq(Part)
        /\ call \in Seq(Part) /\ Ahead \in Seq(Part) /\ Ahead' = Cat(call', up')
    BY LinesAreSeqs, FlatType, AheadIs DEF TypeOK, Ahead
  <1>2. CASE UNCHANGED FlowVars
    BY <1>2 DEF Flow, IsFlow, FlowVars, Ahead
  <1>3. ASSUME NEW l \in Lines, Write(l) PROVE Flow'
    <2>1. l \in Seq(Part)
      BY LinesAssumption, LineIsSeq
    <2>2. PICK done : IsFlow(done)
      BY <1>3 DEF Flow, Write, handlerVars
    <2>3. Cat(Ahead, chunk) \in Seq(Part)
      BY <1>1, CatType
    <2>4. Cat(Cat(done, Cat(Cat(Ahead, chunk), Flat(stdin))), l)
            = Cat(done, Cat(Cat(Ahead, chunk), Flat(Append(stdin, l))))
      BY <1>1, <2>1, <2>2, <2>3, PartsWritten DEF IsFlow
    <2>5. written' = Cat(done, Cat(Cat(Ahead, chunk), Flat(stdin')))
      BY <1>3, <2>2, <2>4 DEF IsFlow, Write, Cat
    <2>6. IsFlow(done)'
      BY <1>3, <2>2, <2>5 DEF IsFlow, Ahead, Write, handlerVars
    <2> QED
      BY <2>6 DEF Flow
  <1>4. CASE PumpRead
    <2>1. PICK done : IsFlow(done)
      BY <1>4 DEF Flow, PumpRead, handlerVars
    <2>2. Len(stdin) # 0
      BY <1>1, <1>4, EmptySeq DEF PumpRead, Idle
    <2>3. Cat(Cat(Ahead, Nil), Flat(stdin))
            = Cat(Cat(Ahead, Head(stdin)), Flat(Tail(stdin)))
      BY <1>1, <2>2, PartsRead
    <2>4. chunk = Nil /\ chunk' = Head(stdin) /\ stdin' = Tail(stdin) /\ Ahead' = Ahead
      BY <1>4 DEF TypeOK, PumpRead, Nil, Ahead, handlerVars
    <2>5. written' = Cat(done, Cat(Cat(Ahead', chunk'), Flat(stdin')))
      BY <1>4, <2>1, <2>3, <2>4 DEF IsFlow, PumpRead, agentVars
    <2>6. IsFlow(done)'
      BY <1>4, <2>1, <2>5 DEF IsFlow, PumpRead, handlerVars
    <2> QED
      BY <2>6 DEF Flow
  <1>5. CASE PumpSend
    <2>1. PICK done : IsFlow(done)
      BY <1>5 DEF Flow, PumpSend
    <2>2. up' = Cat(up, chunk) /\ chunk' = Nil /\ call' = call
      BY <1>5 DEF PumpSend, Cat, Nil, handlerVars
    <2>a. Ahead' = Cat(call, Cat(up, chunk))
      BY <1>1, <2>2
    <2>b. Ahead' = Cat(Ahead, chunk)
      BY <1>1, <2>a, CatAssoc DEF Ahead
    <2>3. Cat(Ahead', chunk') = Cat(Ahead, chunk)
      BY <1>1, <2>2, <2>b, CatType, CatNil
    <2>4. IsFlow(done)'
      BY <1>5, <2>1, <2>3 DEF IsFlow, PumpSend, agentVars, handlerVars
    <2> QED
      BY <2>4 DEF Flow
  <1>6. CASE HandlerDispatch
    <2>1. PICK done : /\ done \in Seq(Part) /\ Len(done) = handled + 1
                      /\ written = Cat(done, Cat(Cat(up, chunk), Flat(stdin)))
      BY <1>6, TakenPart DEF HandlerDispatch
    <2>2. call' = Nil /\ up' = up
      BY <1>6 DEF HandlerDispatch, Nil
    <2>3. Ahead' = up
      BY <1>1, <2>2, CatNil
    <2>4. IsFlow(done)'
      BY <1>6, <2>1, <2>3 DEF IsFlow, HandlerDispatch, agentVars, pumpVars
    <2> QED
      BY <2>4 DEF Flow
  <1>14. CASE HandlerRead \/ Unstick
    <2>1. PICK done : IsFlow(done)
      BY <1>14 DEF Flow, HandlerRead, Unstick
    <2>2. Ahead' = Ahead
      BY <1>14, AheadTaken DEF Unstick, Ahead
    <2>3. IsFlow(done)'
      BY <1>14, <2>1, <2>2 DEF IsFlow, HandlerRead, Unstick, agentVars, pumpVars
    <2> QED
      BY <2>3 DEF Flow
  <1>7. CASE Connect
    <2>1. PICK done : IsFlow(done)
      BY <1>7 DEF Phases, Flow, Connect
    <2>2. IsFlow(done)'
      BY <1>7, <2>1 DEF IsFlow, Ahead, Connect, agentVars, pumpVars
    <2> QED
      BY <2>2 DEF Flow
  <1>8. CASE HandlerWrite
    <2>1. PICK done : IsFlow(done)
      BY <1>8 DEF Flow, HandlerWrite
    <2>2. IsFlow(done)'
      BY <1>8, <2>1 DEF IsFlow, Ahead, HandlerWrite, agentVars, pumpVars
    <2> QED
      BY <2>2 DEF Flow
  <1>9. CASE CloseStdin \/ Hangup \/ ReadStdout
    BY <1>2, <1>9 DEF CloseStdin, Hangup, ReadStdout, FlowVars, pumpVars, handlerVars
  <1>10. CASE PumpEnd \/ PumpShut
    BY <1>2, <1>10 DEF PumpEnd, PumpShut, FlowVars, agentVars, handlerVars
  <1>11. CASE Recv \/ WriteStdout \/ Exit \/ Refused
    BY <1>2, <1>11
       DEF Recv, WriteStdout, Exit, Refused, FlowVars, agentVars, pumpVars, handlerVars
  <1>12. CASE PumpSendFail \/ HandlerEnd \/ HandlerWriteFail \/ DaemonCrash
    BY <1>12 DEF PumpSendFail, HandlerEnd, HandlerWriteFail, DaemonCrash, handlerVars
  <1>13. CASE UNCHANGED vars
    BY <1>2, <1>13 DEF vars, FlowVars, agentVars, pumpVars, handlerVars
  <1> QED
    BY <1>3, <1>4, <1>5, <1>6, <1>7, <1>8, <1>9, <1>10, <1>11, <1>12, <1>13, <1>14
       DEF Next, Agent, Pump, Main, Handler

LEMMA CompleteStep ==
    ASSUME TypeOK, Phases, Flow, Complete, [Next]_vars PROVE Complete'
  <1> SUFFICES ASSUME handler' = "closed", faults' = 0, failed' = 0
               PROVE  (handled = Len(written) /\ ~stdinOpen)'
    BY DEF Complete
  <1>0. faults \in Nat /\ faults + 1 # 0 /\ handled \in Nat /\ handled + 1 # 0
    BY BoundsAssumption, LenProperties DEF TypeOK
  <1>1. CASE handler = "closed" /\ faults = 0 /\ failed = 0 /\ UNCHANGED <<handled, written>>
             /\ (stdinOpen' => stdinOpen)
    BY <1>1 DEF Complete
  <1>2. CASE HandlerEnd
    <2>1. pump = "done" /\ stdin = <<>> /\ ~stdinOpen
      BY <1>2 DEF TypeOK, Phases, HandlerEnd
    <2>2. Ahead = Nil /\ chunk = Nil /\ stdin = Nil
      BY <1>2, <2>1, AheadIs DEF TypeOK, HandlerEnd, Nil
    <2>3. PICK done : IsFlow(done)
      BY <1>2 DEF Flow, HandlerEnd
    <2>4. Nil \in Seq(Part)
      BY NilType
    <2>5. Cat(done, Cat(Cat(Nil, Nil), Nil)) = done
      BY <2>3, <2>4, CatNil DEF IsFlow
    <2>6. written = done
      BY <2>2, <2>3, <2>5, FlatNil DEF IsFlow
    <2> QED
      BY <1>2, <2>1, <2>3, <2>6 DEF IsFlow, HandlerEnd, agentVars
  <1>3. CASE Agent
    <2>1. CASE \E l \in Lines : Write(l)
      BY <2>1 DEF Complete, Write, handlerVars
    <2>2. CASE CloseStdin
      BY <1>1, <2>2 DEF CloseStdin, handlerVars
    <2>3. CASE Hangup
      BY <1>0, <2>3 DEF Hangup
    <2> QED
      BY <1>3, <2>1, <2>2, <2>3 DEF Agent
  <1>4. CASE ReadStdout \/ Pump
    BY <1>1, <1>4
       DEF ReadStdout, Pump, PumpRead, PumpEnd, PumpSend, PumpSendFail, PumpShut,
           agentVars, handlerVars
  <1>5. CASE Main
    BY <1>1, <1>5 DEF Main, Connect, Recv, WriteStdout, Exit, agentVars, handlerVars
  <1>6. CASE Refused \/ DaemonCrash
    BY <1>0, <1>6 DEF Refused, DaemonCrash
  <1>7. CASE HandlerRead \/ HandlerDispatch \/ Unstick
    BY <1>0, <1>7 DEF HandlerRead, HandlerDispatch, Unstick
  <1>8. CASE HandlerWrite
    BY <1>8 DEF HandlerWrite
  <1>9. CASE HandlerWriteFail
    BY <1>9 DEF TypeOK, Phases, HandlerWriteFail, Running
  <1>10. CASE UNCHANGED vars
    BY <1>1, <1>10 DEF vars, agentVars, handlerVars
  <1> QED
    BY <1>2, <1>3, <1>4, <1>5, <1>6, <1>7, <1>8, <1>9, <1>10 DEF Next, Handler

-----------------------------------------------------------------------------
(* The replies.                                                            *)

\* An element moves from the front of one sequence to the end of the one before.
LEMMA CatMoves ==
    ASSUME NEW V, NEW s \in Seq(V), NEW t \in Seq(V), t # <<>>
    PROVE  Cat(Append(s, Head(t)), Tail(t)) = Cat(s, t)
  <1> DEFINE h == Head(t)
             r == Tail(t)
  <1>1. h \in V /\ r \in Seq(V) /\ t = Cat(One(h), r)
    BY CatHead
  <1> HIDE DEF h, r
  <1>2. Append(s, h) = Cat(s, One(h)) /\ One(h) \in Seq(V)
    BY <1>1, CatAppend, OneType
  <1>3. Cat(Append(s, h), r) = Cat(s, t)
    BY <1>1, <1>2, CatAssoc
  <1> QED
    BY <1>3 DEF h, r

Transit == Cat(Received, OnTheWay)

LEMMA TransitType ==
    ASSUME TypeOK
    PROVE  /\ seen \in Seq(Reply) /\ stdout \in Seq(Reply) /\ down \in Seq(Reply)
           /\ Cat(seen, stdout) \in Seq(Reply)
           /\ Pend(data) \in Seq(Reply) /\ Pend(out) \in Seq(Reply)
           /\ Received \in Seq(Reply) /\ OnTheWay \in Seq(Reply)
           /\ Transit \in Seq(Reply)
  <1>1. /\ seen \in Seq(Reply) /\ stdout \in Seq(Reply) /\ down \in Seq(Reply)
        /\ data \in Reply /\ out \in Reply
    BY DEF TypeOK
  <1>2. Pend(data) \in Seq(Reply) /\ Pend(out) \in Seq(Reply)
    BY <1>1, PendType
  <1>3. Cat(seen, stdout) \in Seq(Reply) /\ Cat(down, Pend(out)) \in Seq(Reply)
    BY <1>1, <1>2, CatType
  <1>4. Cat(Cat(seen, stdout), Pend(data)) \in Seq(Reply)
    BY <1>2, <1>3, CatType
  <1>5. Received \in Seq(Reply) /\ OnTheWay \in Seq(Reply)
    BY <1>3, <1>4, ReceivedCat
  <1> QED
    BY <1>1, <1>2, <1>3, <1>5, CatType DEF Transit

\* A reply that is passed on stays in transit, in its place.
LEMMA PassedOn ==
    ASSUME TypeOK, Phases, ReadStdout \/ Recv \/ WriteStdout \/ HandlerWrite
    PROVE  Transit' = Transit
  <1>0. (Received = Cat(Cat(seen, stdout), Pend(data)))'
    BY ReceivedCat, PTL
  <1>00. (OnTheWay = Cat(down, Pend(out)))'
    BY ReceivedCat, PTL
  <1>1. CASE ReadStdout
    <2>1. Cat(seen', stdout') = Cat(seen, stdout)
      BY <1>1, TransitType, CatMoves DEF ReadStdout
    <2>2. Received' = Received /\ OnTheWay' = OnTheWay
      BY <1>0, <1>00, <1>1, <2>1, ReceivedCat DEF ReadStdout, mainVars, handlerVars
    <2> QED
      BY <2>2 DEF Transit
  <1>2. CASE Recv
    <2> DEFINE s == Cat(seen, stdout)
               h == Head(down)
               r == Tail(down)
               p == Pend(out)
    <2>1. h \in Reply \ {<<>>} /\ r \in Seq(Reply \ {<<>>})
      BY <1>2, SeqShrinks DEF Recv, Phases
    <2>2. /\ s \in Seq(Reply) /\ p \in Seq(Reply) /\ down \in Seq(Reply)
          /\ h \in Reply /\ r \in Seq(Reply)
      BY <1>2, <2>1, TransitType, SeqShrinks DEF Recv
    <2>3. Pend(data) = Nil /\ Pend(data') = One(h)
      BY <1>2, <2>1 DEF Recv, TypeOK, Pend
    <2>4. Received = s /\ OnTheWay = Cat(down, p)
      BY <2>2, <2>3, ReceivedCat, CatNil
    <2>5. Received' = Cat(s, One(h)) /\ OnTheWay' = Cat(r, p)
      BY <1>0, <1>00, <1>2, <2>3 DEF Recv, agentVars, handlerVars
    <2>6. down = Cat(One(h), r)
      BY <1>2, <2>2, CatHead DEF Recv
    <2> HIDE DEF s, h, r, p
    <2>7. One(h) \in Seq(Reply) /\ Cat(r, p) \in Seq(Reply)
      BY <2>2, OneType, CatType
    <2>8. Cat(Cat(s, One(h)), Cat(r, p)) = Cat(s, Cat(One(h), Cat(r, p)))
      BY <2>2, <2>7, CatAssoc
    <2>9. Cat(Cat(One(h), r), p) = Cat(One(h), Cat(r, p))
      BY <2>2, <2>7, CatAssoc
    <2> QED
      BY <2>4, <2>5, <2>6, <2>8, <2>9 DEF Transit
  <1>3. CASE WriteStdout
    <2>1. data \in Reply /\ data # <<>> /\ Pend(data) = One(data) /\ Pend(data') = Nil
      BY <1>3 DEF TypeOK, Phases, WriteStdout, Pend
    <2>2. stdout' = Cat(stdout, One(data)) /\ One(data) \in Seq(Reply)
      BY <1>3, <2>1, TransitType, CatAppend, OneType DEF WriteStdout
    <2>3. Cat(seen, Cat(stdout, One(data))) = Cat(Cat(seen, stdout), One(data))
      BY <2>2, TransitType, CatAssoc
    <2>4. Cat(Cat(seen, stdout), One(data)) \in Seq(Reply)
      BY <2>2, TransitType, CatType
    <2>5. Received' = Cat(Cat(seen, stdout), One(data))
      BY <1>0, <1>3, <2>1, <2>2, <2>3, <2>4, CatNil DEF WriteStdout, agentVars
    <2>6. Received' = Received /\ OnTheWay' = OnTheWay
      BY <1>00, <1>3, <2>1, <2>5, ReceivedCat DEF WriteStdout, handlerVars
    <2> QED
      BY <2>6 DEF Transit
  <1>4. CASE HandlerWrite
    <2>1. out \in Reply /\ out # <<>> /\ Pend(out) = One(out) /\ Pend(out') = Nil
      BY <1>4 DEF TypeOK, HandlerWrite, Pend
    <2>2. down' = Cat(down, One(out)) /\ One(out) \in Seq(Reply)
      BY <1>4, <2>1, TransitType, CatAppend, OneType DEF HandlerWrite
    <2>3. Cat(down, One(out)) \in Seq(Reply)
      BY <2>2, TransitType, CatType
    <2>4. OnTheWay' = OnTheWay
      BY <1>00, <2>1, <2>2, <2>3, ReceivedCat, CatNil
    <2>5. Received' = Received
      BY <1>0, <1>4, ReceivedCat DEF HandlerWrite, agentVars, mainVars
    <2> QED
      BY <2>4, <2>5 DEF Transit
  <1> QED
    BY <1>1, <1>2, <1>3, <1>4

\* The transit of a reply that is now to be written, and of one that is lost.
LEMMA Handed ==
    ASSUME TypeOK, out = <<>>, NEW r \in Reply,
           UNCHANGED <<seen, stdout, data, down>>, out' = r
    PROVE  Transit' = Cat(Transit, Pend(r))
  <1>1. Pend(out) = Nil /\ Pend(out') = Pend(r)
    BY DEF Pend
  <1>2. Received' = Received
    <2>1. (Received = Cat(Cat(seen, stdout), Pend(data)))'
      BY ReceivedCat, PTL
    <2> QED
      BY <2>1, ReceivedCat
  <1>3. (OnTheWay = Cat(down, Pend(out)))'
    BY ReceivedCat, PTL
  <1>4. OnTheWay = down
    BY <1>1, ReceivedCat, TransitType, CatNil
  <1>5. OnTheWay' = Cat(down, Pend(r))
    BY <1>1, <1>3
  <1>6. Pend(r) \in Seq(Reply)
    BY PendType
  <1>7. Cat(Received, Cat(down, Pend(r))) = Cat(Cat(Received, down), Pend(r))
    BY <1>6, TransitType, CatAssoc
  <1> QED
    BY <1>2, <1>4, <1>5, <1>7 DEF Transit

LEMMA Dropped ==
    ASSUME TypeOK, UNCHANGED <<seen, stdout, data, down>>, out' = <<>>
    PROVE  Transit = Cat(Transit', Pend(out))
  <1>1. Pend(out') = Nil
    BY DEF Pend
  <1>2. Received' = Received
    <2>1. (Received = Cat(Cat(seen, stdout), Pend(data)))'
      BY ReceivedCat, PTL
    <2> QED
      BY <2>1, ReceivedCat
  <1>3. (OnTheWay = Cat(down, Pend(out)))'
    BY ReceivedCat, PTL
  <1>4. OnTheWay' = down
    BY <1>1, <1>3, TransitType, CatNil
  <1>5. Cat(Received, Cat(down, Pend(out))) = Cat(Cat(Received, down), Pend(out))
    BY TransitType, CatAssoc
  <1> QED
    BY <1>2, <1>4, <1>5, ReceivedCat DEF Transit

LEMMA TransitKept ==
    UNCHANGED <<seen, stdout, data, down, out>> => Transit' = Transit
  <1> SUFFICES ASSUME UNCHANGED <<seen, stdout, data, down, out>>
               PROVE  Transit' = Transit
    OBVIOUS
  <1>1. (Received = Cat(Cat(seen, stdout), Pend(data)))'
    BY ReceivedCat, PTL
  <1>2. (OnTheWay = Cat(down, Pend(out)))'
    BY ReceivedCat, PTL
  <1> QED
    BY <1>1, <1>2, ReceivedCat DEF Transit

LEMMA DeliveredInit == Init => Delivered
  <1> SUFFICES ASSUME Init PROVE IsLost(Nil)
    BY DEF Delivered
  <1>1. Nil \in Seq(Reply) /\ seen = Nil /\ stdout = Nil /\ down = Nil
        /\ Pend(data) = Nil /\ Pend(out) = Nil
    BY NilType DEF Init, Nil, Pend
  <1>2. Received = Nil /\ OnTheWay = Nil
    BY <1>1, ReceivedCat, CatNil
  <1>3. Owes(written, failed, handled) = Nil
    <2>1. [i \in 1 .. 0 |-> ReplyTo(written, failed, i)] = <<>>
      OBVIOUS
    <2> QED
      BY <2>1, FlatNil DEF Init, Owes, Nil
  <1> QED
    BY <1>1, <1>2, <1>3, CatNil DEF IsLost

LEMMA DeliveredStep ==
    ASSUME TypeOK, Phases, Flow, Delivered, [Next]_vars PROVE Delivered'
  <1>0. /\ faults \in Nat /\ faults + 1 # 0 /\ handled \in Nat
        /\ written \in Seq(Part) /\ handled \in 0 .. Len(written)
        /\ Transit \in Seq(Reply)
    BY BoundsAssumption, LenProperties, TransitType DEF TypeOK
  <1>1. PICK lost : IsLost(lost)
    BY DEF Delivered
  <1>2. lost \in Seq(Reply) /\ Owes(written, failed, handled) = Cat(Transit, lost)
    BY <1>1 DEF IsLost, Transit
  <1>3. ASSUME Transit' = Transit, UNCHANGED <<written, failed, handled>>,
               handler' # "closed" \/ faults' = 0 => handler # "closed" \/ faults = 0
        PROVE  Delivered'
    <2>1. IsLost(lost)'
      BY <1>1, <1>2, <1>3 DEF IsLost, Transit
    <2> QED
      BY <2>1 DEF Delivered
  <1>4. ASSUME NEW l \in Lines, Write(l) PROVE Delivered'
    <2>1. l \in Seq(Part)
      BY LinesAssumption, LineIsSeq
    <2>2. written' = Cat(written, l)
      BY <1>4 DEF Write, Cat
    <2>a. \A i \in 1 .. Len(written) : Cat(written, l)[i] = written[i]
      BY <1>0, <2>1, CatIndex
    <2>b. \A i \in 1 .. handled : i \in 1 .. Len(written)
      BY <1>0, LenProperties
    <2>3. Agree(written, written', handled)
      BY <2>2, <2>a, <2>b DEF Agree
    <2>4. Owes(written', failed, handled) = Owes(written, failed, handled)
      BY <1>0, <2>3, OwesSame
    <2>5. Transit' = Transit
      BY <1>4, TransitKept DEF Write, mainVars, handlerVars
    <2>6. IsLost(lost)'
      BY <1>1, <1>2, <1>4, <2>4, <2>5 DEF IsLost, Transit, Write, handlerVars
    <2> QED
      BY <2>6 DEF Delivered
  <1>5. CASE HandlerDispatch
    <2>1. /\ Head(call) \in Part /\ handled + 1 \in 1 .. Len(written)
          /\ Head(call) = written[handled + 1]
      BY <1>5, TakenPart DEF HandlerDispatch
    <2>2. lost = Nil /\ failed = 0 /\ out = <<>>
      BY <1>1, <1>5 DEF IsLost, HandlerDispatch, Phases, TypeOK
    <2>3. Owes(written, 0, handled) = Transit
      BY <1>0, <1>2, <2>2, CatNil
    <2>4. UNCHANGED <<seen, stdout, data, down, written>> /\ handled' = handled + 1
      BY <1>5 DEF HandlerDispatch, agentVars, mainVars
    <2>5. handled < Len(written)
      BY <1>0, <2>1
    <2>6. CASE Fails(Head(call))
      <3>1. failed' = handled + 1 /\ out' = <<>> /\ <<>> \in Reply
        BY <1>5, <2>6, NothingIsSeq DEF HandlerDispatch, Reply
      <3>2. Owes(written, handled + 1, handled + 1)
              = Cat(Owes(written, handled + 1, handled), Nil)
        BY <1>0, <2>5, OwesStep DEF ReplyTo
      <3>3. Owes(written, handled + 1, handled) = Owes(written, 0, handled)
        <4>1. Agree(written, written, handled)
          BY DEF Agree
        <4>2. 0 \notin 1 .. handled /\ handled + 1 \notin 1 .. handled
          BY <1>0
        <4> QED
          BY <1>0, <4>1, <4>2, OwesSame
      <3>4. Transit' = Cat(Transit, Nil)
        BY <2>2, <2>4, <3>1, Handed DEF Pend
      <3>5. Transit' = Transit /\ Owes(written', failed', handled') = Cat(Transit', Nil)
        BY <1>0, <2>3, <2>4, <3>1, <3>2, <3>3, <3>4, CatNil
      <3>6. IsLost(Nil)'
        BY <3>5, NilType DEF IsLost, Transit
      <3> QED
        BY <3>6 DEF Delivered
    <2>7. CASE ~Fails(Head(call))
      <3> DEFINE r == OwedIds(Head(call), handled + 1)
      <3>1. Dispatch(Head(call), handled + 1) = r /\ r \in Reply
        BY <1>0, <2>1, <2>7, DispatchIsOwed, OwedType
      <3>2. out' = r /\ failed' = 0
        BY <1>5, <2>2, <2>7, <3>1 DEF HandlerDispatch
      <3>3. Transit' = Cat(Transit, Pend(r))
        BY <2>2, <2>4, <3>1, <3>2, Handed
      <3>4. ReplyTo(written, 0, handled + 1) = Pend(r)
        BY <1>0, <2>1 DEF ReplyTo
      <3>5. Owes(written, 0, handled + 1)
              = Cat(Owes(written, 0, handled), ReplyTo(written, 0, handled + 1))
        BY <1>0, <2>5, OwesStep
      <3> HIDE DEF r
      <3>6. Owes(written', failed', handled') = Transit'
        BY <2>3, <2>4, <3>2, <3>3, <3>4, <3>5
      <3>7. Pend(r) \in Seq(Reply) /\ Transit' \in Seq(Reply)
        BY <1>0, <3>1, <3>3, PendType, CatType
      <3>8. IsLost(Nil)'
        BY <3>6, <3>7, NilType, CatNil DEF IsLost, Transit
      <3> QED
        BY <3>8 DEF Delivered
    <2> QED
      BY <2>6, <2>7
  <1>6. CASE HandlerWriteFail \/ DaemonCrash
    <2>1. lost = Nil
      BY <1>1, <1>6 DEF IsLost, HandlerWriteFail, DaemonCrash
    <2>2. /\ UNCHANGED <<seen, stdout, data, down, written, handled, failed>>
          /\ out' = <<>> /\ handler' = "closed"
      BY <1>6 DEF HandlerWriteFail, DaemonCrash, agentVars, mainVars
    <2>3. faults' # 0
      BY <1>0, <1>6
         DEF HandlerWriteFail, DaemonCrash, Running, TypeOK, Phases
    <2>4. Transit = Cat(Transit', Pend(out))
      BY <2>2, Dropped
    <2>5. Cat(Transit, lost) = Transit
      BY <1>0, <2>1, CatNil
    <2>6. Pend(out) \in Seq(Reply)
      BY TransitType
    <2>7. PICK p : p = Pend(out)
      OBVIOUS
    <2>8. IsLost(p)'
      BY <1>2, <2>2, <2>3, <2>4, <2>5, <2>6, <2>7 DEF IsLost, Transit
    <2> QED
      BY <2>8 DEF Delivered
  <1>7. CASE ReadStdout \/ Recv \/ WriteStdout \/ HandlerWrite
    <2>1. Transit' = Transit
      BY <1>7, PassedOn
    <2>2. UNCHANGED <<written, failed, handled, faults>>
      BY <1>7 DEF ReadStdout, Recv, WriteStdout, HandlerWrite, agentVars, handlerVars
    <2>3. handler' = handler \/ handler = "write"
      BY <1>7 DEF ReadStdout, Recv, WriteStdout, HandlerWrite, handlerVars
    <2> QED
      BY <1>3, <2>1, <2>2, <2>3
  <1>8. CASE CloseStdin \/ Hangup
    BY <1>0, <1>3, <1>8, TransitKept DEF CloseStdin, Hangup, mainVars, handlerVars
  <1>9. CASE Pump
    BY <1>3, <1>9, TransitKept
       DEF Pump, PumpRead, PumpEnd, PumpSend, PumpSendFail, PumpShut, agentVars,
           mainVars, handlerVars
  <1>10. CASE Connect \/ Exit \/ Refused
    BY <1>0, <1>3, <1>10, TransitKept
       DEF Connect, Exit, Refused, agentVars, handlerVars, Phases
  <1>11. CASE HandlerEnd
    BY <1>3, <1>11, TransitKept DEF HandlerEnd, agentVars, mainVars
  <1>13. CASE HandlerRead \/ Unstick
    BY <1>3, <1>13, TransitKept DEF HandlerRead, Unstick, agentVars, mainVars
  <1>12. CASE UNCHANGED vars
    BY <1>3, <1>12, TransitKept DEF vars, agentVars, mainVars, handlerVars
  <1> QED
    BY <1>4, <1>5, <1>6, <1>7, <1>8, <1>9, <1>10, <1>11, <1>12, <1>13
       DEF Next, Agent, Main, Handler

-----------------------------------------------------------------------------
(* The theorems.                                                           *)

THEOREM InvHolds == Spec => []Inv
  <1>1. Init => Inv
    <2>1. Init => Complete
      BY DEF Init, Complete
    <2> QED
      BY <2>1, TypeInit, PhasesInit, FlowInit, DeliveredInit DEF Inv
  <1>2. Inv /\ [Next]_vars => Inv'
    BY TypeStep, PhasesStep, FlowStep, CompleteStep, DeliveredStep DEF Inv
  <1> QED
    BY <1>1, <1>2, PTL DEF Spec

\* Every part of the session keeps its type, and no pipe or buffer between the
\* agent, the bridge and the daemon holds more than Room (bridge_stdio,
\* _SocketHandler.handle).
THEOREM TypeOKHolds == Spec => []TypeOK
  <1>1. Inv => TypeOK
    BY DEF Inv
  <1> QED
    BY <1>1, InvHolds, PTL

LEMMA PrefixOfCat ==
    ASSUME NEW V, NEW s \in Seq(V), NEW t \in Seq(V)
    PROVE  IsPrefix(s, Cat(s, t))
  <1> DEFINE c == Cat(s, t)
  <1>1. /\ c \in Seq(V) /\ Len(c) = Len(s) + Len(t)
        /\ Len(s) \in Nat /\ Len(t) \in Nat
        /\ \A i \in 1 .. Len(s) : c[i] = s[i]
    BY CatType, CatIndex, LenProperties
  <1> HIDE DEF c
  <1>2. SubSeq(s, 1, Len(s)) = SubSeq(c, 1, Len(s))
    <2> DEFINE a == SubSeq(s, 1, Len(s))
               b == SubSeq(c, 1, Len(s))
    <2>0. \A i \in 1 .. Len(s) : s[i] \in V /\ c[i] \in V
      BY <1>1, ElementOfSeq
    <2>1. /\ a \in Seq(V) /\ Len(a) = Len(s)
          /\ \A i \in 1 .. Len(s) : a[i] = s[i]
      BY <1>1, SubSeqFull
    <2>2. /\ b \in Seq(V) /\ Len(b) = Len(s)
          /\ \A i \in 1 .. Len(s) : b[i] = c[i]
      BY <1>1, <2>0, SubSeqProperties
    <2> HIDE DEF a, b
    <2>3. a = b
      BY <1>1, <2>1, <2>2, SeqEqual
    <2> QED
      BY <2>3 DEF a, b
  <1> QED
    BY <1>1, <1>2 DEF IsPrefix, c

\* What the agent has read, and what waits for it, are the replies that it is
\* owed, in the order of the parts it wrote and each once; while nothing dies,
\* the rest of them is on the way (_dispatch_line, handle, bridge_stdio).
THEOREM RepliesInOrderHolds == Spec => []RepliesInOrder
  <1>1. Inv => RepliesInOrder
    <2> SUFFICES ASSUME Inv PROVE RepliesInOrder
      OBVIOUS
    <2>1. /\ TypeOK /\ handled \in Nat
          /\ Received \in Seq(Reply) /\ OnTheWay \in Seq(Reply)
          /\ Cat(Received, OnTheWay) \in Seq(Reply)
      BY TransitType, LenProperties DEF Inv, TypeOK, Transit
    <2>2. PICK lost : IsLost(lost)
      BY DEF Inv, Delivered
    <2>3. Replies(handled) = Cat(Cat(Received, OnTheWay), lost)
      BY <2>1, <2>2, RepliesAreOwes DEF IsLost
    <2>4. lost \in Seq(Reply) /\ Cat(OnTheWay, lost) \in Seq(Reply)
      BY <2>1, <2>2, CatType DEF IsLost
    <2>5. Replies(handled) = Cat(Received, Cat(OnTheWay, lost))
      BY <2>1, <2>3, <2>4, CatAssoc
    <2>6. IsPrefix(Received, Replies(handled))
      BY <2>1, <2>4, <2>5, PrefixOfCat
    <2>7. ASSUME faults = 0 PROVE Received \o OnTheWay = Replies(handled)
      <3>1. lost = Nil
        BY <2>2, <2>7 DEF IsLost
      <3> QED
        BY <2>1, <2>3, <3>1, CatNil DEF Cat
    <2> QED
      BY <2>6, <2>7 DEF RepliesInOrder
  <1> QED
    BY <1>1, InvHolds, PTL

\* When the bridge exits and nothing has died, the agent has read, or can still
\* read, every reply to what the daemon took, and unless a message could not be
\* dispatched that is all it wrote (pump_up shuts down one half only).
THEOREM EndIsCompleteHolds == Spec => []EndIsComplete
  <1>1. Inv => EndIsComplete
    <2> SUFFICES ASSUME Inv, main = "exited", faults = 0
                 PROVE  /\ seen \o stdout = Replies(handled)
                        /\ failed = 0 => handled = Len(written)
      BY DEF EndIsComplete
    <2>1. handler = "closed" /\ down = <<>> /\ data = <<>>
      BY DEF Inv, Phases
    <2>2. TypeOK /\ handled \in Nat /\ out = <<>>
      BY <2>1, LenProperties DEF Inv, TypeOK
    <2>3. PICK lost : IsLost(lost)
      BY DEF Inv, Delivered
    <2>4. lost = Nil /\ down = Nil /\ Pend(data) = Nil /\ Pend(out) = Nil
      BY <2>1, <2>2, <2>3 DEF IsLost, Pend, Nil
    <2>5. Cat(seen, stdout) \in Seq(Reply) /\ Nil \in Seq(Reply)
      BY <2>2, TransitType, NilType
    <2>6. Received = Cat(seen, stdout) /\ OnTheWay = Nil
      BY <2>4, <2>5, ReceivedCat, CatNil
    <2>7. Owes(written, failed, handled) = Cat(seen, stdout)
      BY <2>3, <2>4, <2>5, <2>6, CatNil DEF IsLost
    <2>8. seen \o stdout = Replies(handled)
      BY <2>2, <2>7, RepliesAreOwes DEF Cat
    <2>9. failed = 0 => handled = Len(written)
      BY <2>1 DEF Inv, Complete
    <2> QED
      BY <2>8, <2>9
  <1> QED
    BY <1>1, InvHolds, PTL

=============================================================================
