--------------------------- MODULE SequenceLemmas ---------------------------
(* Facts about sequences that the models rest on: a sequence used as a stack,  *)
(* sequences of texts put together, and the places counted in a sequence.      *)
EXTENDS Naturals, SequencesExt, FiniteSetTheorems, SequenceTheorems, WellFoundedInduction, TLAPS

-----------------------------------------------------------------------------
(* Stacks.                                                                   *)

\* Dropping the last element of a non-empty sequence.
LEMMA FrontProperties ==
  ASSUME NEW S, NEW s \in Seq(S), s # <<>>
  PROVE  /\ Front(s) \in Seq(S)
         /\ Len(s) \in Nat \ {0}
         /\ Len(Front(s)) = Len(s) - 1
         /\ \A i \in 1..(Len(s) - 1) : Front(s)[i] = s[i]
         /\ Last(s) \in S
<1>1. Len(s) \in Nat \ {0} /\ \A i \in 1..Len(s) : s[i] \in S
  BY EmptySeq, LenProperties, ElementOfSeq
<1>2. \A i \in 1..(Len(s) - 1) : s[i] \in S
  BY <1>1
<1> DEFINE n == Len(s) - 1
<1>3. n \in Int /\ 1 \in Int /\ \A i \in 1..n : s[i] \in S
  BY <1>1, <1>2
<1> HIDE DEF n
<1>4. /\ SubSeq(s, 1, n) \in Seq(S)
      /\ Len(SubSeq(s, 1, n)) = IF 1 <= n THEN n - 1 + 1 ELSE 0
      /\ \A i \in 1..(n - 1 + 1) : SubSeq(s, 1, n)[i] = s[1 + i - 1]
  BY <1>3, SubSeqProperties
<1>5. n - 1 + 1 = n /\ \A i \in 1..n : 1 + i - 1 = i
  BY <1>3
<1>6. n \in Nat /\ n = Len(s) - 1
  BY <1>1 DEF n
<1>7. \A i \in 1..n : SubSeq(s, 1, n)[i] = s[i]
  BY <1>4, <1>5
<1>8. Front(s) = SubSeq(s, 1, n)
  BY DEF Front, n
<1>9. Last(s) \in S
  BY <1>1 DEF Last
<1> QED
  BY <1>1, <1>4, <1>5, <1>6, <1>7, <1>8, <1>9

\* Pushing onto a stack, and what is then below and on top.
LEMMA PushProperties ==
  ASSUME NEW S, NEW s \in Seq(S), NEW e \in S
  PROVE  /\ Append(s, e) \in Seq(S) /\ Append(s, e) # <<>>
         /\ Len(Append(s, e)) = Len(s) + 1
         /\ Front(Append(s, e)) = s /\ Last(Append(s, e)) = e
         /\ \A i \in 1..Len(s) : Append(s, e)[i] = s[i]
         /\ Append(s, e)[Len(s) + 1] = e
<1>1. /\ Append(s, e) \in Seq(S) /\ Len(Append(s, e)) = Len(s) + 1 /\ Len(s) \in Nat
      /\ \A i \in 1..Len(s) : Append(s, e)[i] = s[i]
      /\ Append(s, e)[Len(s) + 1] = e
  BY AppendProperties, LenProperties
<1>2. Append(s, e) # <<>>
  BY <1>1, EmptySeq
<1>3. Last(Append(s, e)) = e
  BY <1>1 DEF Last
<1>4. /\ Front(Append(s, e)) \in Seq(S)
      /\ Len(Front(Append(s, e))) = Len(Append(s, e)) - 1
      /\ \A i \in 1..(Len(Append(s, e)) - 1) : Front(Append(s, e))[i] = Append(s, e)[i]
  BY <1>1, <1>2, FrontProperties
<1>5. Len(Front(Append(s, e))) = Len(s)
      /\ \A i \in 1..Len(s) : Front(Append(s, e))[i] = s[i]
  BY <1>1, <1>4
<1>6. Front(Append(s, e)) = s
  BY <1>4, <1>5, SeqEqual
<1> QED
  BY <1>1, <1>2, <1>3, <1>6

-----------------------------------------------------------------------------
(* Induction, over a set of numbers.                                         *)

\* A set that has 0, and with a number the next one, has them all.
LEMMA SetInduction ==
  ASSUME NEW T, 0 \in T, \A n \in Nat : n \in T => n + 1 \in T
  PROVE  \A n \in Nat : n \in T
<1> DEFINE B == Nat \ T
<1> SUFFICES ASSUME B # {} PROVE FALSE
  OBVIOUS
<1>1. PICK x \in B : \A y \in B : ~ (<<y, x>> \in OpToRel(<, Nat))
  <2>1. B \subseteq Nat
    OBVIOUS
  <2> HIDE DEF B
  <2> QED BY <2>1, NatLessThanWellFounded, WFMin
<1>2. x # 0 /\ x - 1 \in Nat
  OBVIOUS
<1>3. x - 1 \in T
  <2>1. CASE x - 1 \in B
    <3>1. <<x - 1, x>> \in OpToRel(<, Nat)
      BY <1>2 DEF OpToRel
    <3> QED BY <1>1, <2>1, <3>1
  <2> QED BY <1>2, <2>1
<1>4. x \in T
  BY <1>2, <1>3
<1> QED BY <1>4

\* A set of numbers that is not empty has a least one.
LEMMA LeastOf ==
  ASSUME NEW T, T \subseteq Nat, T # {}
  PROVE  \E x \in T : \A y \in T : x <= y
<1>1. PICK x \in T : \A y \in T : ~ (<<y, x>> \in OpToRel(<, Nat))
  BY NatLessThanWellFounded, WFMin
<1>2. ASSUME NEW y \in T PROVE x <= y
  <2>0. x \in Nat /\ y \in Nat
    OBVIOUS
  <2>1. y < x => <<y, x>> \in OpToRel(<, Nat)
    BY DEF OpToRel
  <2>2. ~ (y < x)
    BY <1>1, <2>1
  <2> QED BY <2>0, <2>2
<1> QED BY <1>2

-----------------------------------------------------------------------------
(* FlattenSeq.                                                               *)

\* The function that FlattenSeq chooses.
Flattens(ss, f) ==
  f = [i \in 1..Len(ss) |-> IF i = 1 THEN ss[i] ELSE f[i - 1] \o ss[i]]

\* There is one for every sequence of sequences.
LEMMA FlattenExists ==
  ASSUME NEW S, NEW ss \in Seq(Seq(S))
  PROVE  \E f \in [1..Len(ss) -> Seq(S)] : Flattens(ss, f)
<1> DEFINE Steps(n, f) == \A i \in 1..n : f[i] = IF i = 1 THEN ss[i] ELSE f[i - 1] \o ss[i]
           P(n) == n <= Len(ss) => \E f \in [1..n -> Seq(S)] : Steps(n, f)
           T == {n \in Nat : P(n)}
<1>1. Len(ss) \in Nat /\ \A i \in 1..Len(ss) : ss[i] \in Seq(S)
  BY LenProperties, ElementOfSeq
<1>2. P(0)
  <2>1. [i \in 1..0 |-> <<>>] \in [1..0 -> Seq(S)]
    OBVIOUS
  <2>2. Steps(0, [i \in 1..0 |-> <<>>])
    OBVIOUS
  <2> QED BY <2>1, <2>2
<1>3. ASSUME NEW n \in Nat, P(n) PROVE P(n + 1)
  <2> SUFFICES ASSUME n + 1 <= Len(ss)
               PROVE  \E f \in [1..(n + 1) -> Seq(S)] : Steps(n + 1, f)
    OBVIOUS
  <2>0. n <= Len(ss)
    BY <1>1
  <2>1. PICK f \in [1..n -> Seq(S)] : Steps(n, f)
    BY <1>3, <2>0
  <2> DEFINE e == IF n = 0 THEN ss[1] ELSE f[n] \o ss[n + 1]
             g == [i \in 1..(n + 1) |-> IF i = n + 1 THEN e ELSE f[i]]
  <2>2. e \in Seq(S)
    <3>1. CASE n = 0
      BY <1>1, <3>1
    <3>2. CASE n # 0
      <4>1. f[n] \in Seq(S) /\ ss[n + 1] \in Seq(S)
        BY <1>1, <3>2
      <4> QED BY <3>2, <4>1, ConcatProperties
    <3> QED BY <3>1, <3>2
  <2>3. g \in [1..(n + 1) -> Seq(S)]
    BY <2>2
  <2>4. ASSUME NEW i \in 1..(n + 1)
        PROVE  g[i] = IF i = 1 THEN ss[i] ELSE g[i - 1] \o ss[i]
    <3>1. CASE i = n + 1
      BY <3>1
    <3>2. CASE i # n + 1
      <4>1. i \in 1..n /\ g[i] = f[i] /\ (i # 1 => g[i - 1] = f[i - 1])
        BY <3>2
      <4> QED BY <2>1, <4>1
    <3> QED BY <3>1, <3>2
  <2> HIDE DEF g
  <2> QED BY <2>3, <2>4
<1>4. \A n \in Nat : P(n)
  <2> HIDE DEF P
  <2>1. 0 \in T /\ \A n \in Nat : n \in T => n + 1 \in T
    BY <1>2, <1>3
  <2> HIDE DEF T
  <2>2. \A n \in Nat : n \in T
    BY <2>1, SetInduction
  <2> QED BY <2>2 DEF T
<1>5. PICK f \in [1..Len(ss) -> Seq(S)] : Steps(Len(ss), f)
  <2>1. Len(ss) <= Len(ss)
    BY <1>1
  <2> QED BY <1>1, <1>4, <2>1
<1>6. f = [i \in 1..Len(ss) |-> f[i]]
  OBVIOUS
<1>7. Flattens(ss, f)
  BY <1>5, <1>6 DEF Flattens
<1> QED BY <1>7

\* There is only one, so FlattenSeq is its last value.
LEMMA FlattenIs ==
  ASSUME NEW S, NEW ss \in Seq(Seq(S)), Len(ss) # 0,
         NEW f \in [1..Len(ss) -> Seq(S)], Flattens(ss, f)
  PROVE  FlattenSeq(ss) = f[Len(ss)]
<1> DEFINE c == CHOOSE g : Flattens(ss, g)
           T == {n \in Nat : n \in 1..Len(ss) => c[n] = f[n]}
<1>1. Flattens(ss, c)
  OBVIOUS
<1>2. FlattenSeq(ss) = c[Len(ss)]
  BY DEF FlattenSeq, Flattens
<1>3. Len(ss) \in Nat
  BY LenProperties
<1> HIDE DEF c
<1>4. ASSUME NEW n \in Nat, n \in T PROVE n + 1 \in T
  <2> SUFFICES ASSUME n + 1 \in 1..Len(ss) PROVE c[n + 1] = f[n + 1]
    OBVIOUS
  <2>1. CASE n = 0
    BY <1>1, <2>1 DEF Flattens
  <2>2. CASE n # 0
    <3>1. c[n] = f[n]
      BY <1>3, <1>4, <2>2
    <3>2. n + 1 # 1 /\ (n + 1) - 1 = n
      BY <2>2
    <3>3. c[n + 1] = c[(n + 1) - 1] \o ss[n + 1]
      BY <1>1, <3>2 DEF Flattens
    <3>4. f[n + 1] = f[(n + 1) - 1] \o ss[n + 1]
      BY <3>2 DEF Flattens
    <3> QED BY <3>1, <3>2, <3>3, <3>4
  <2> QED BY <2>1, <2>2
<1>5. 0 \in T
  BY <1>3
<1> HIDE DEF T
<1>6. \A n \in Nat : n \in T
  BY <1>4, <1>5, SetInduction
<1> QED BY <1>2, <1>3, <1>6 DEF T

\* One text more at the end.
LEMMA FlattenAppend ==
  ASSUME NEW S, NEW ss \in Seq(Seq(S)), NEW s \in Seq(S)
  PROVE  /\ FlattenSeq(ss) \in Seq(S)
         /\ FlattenSeq(Append(ss, s)) = FlattenSeq(ss) \o s
<1> DEFINE n == Len(ss)
           tt == Append(ss, s)
<1>1. /\ tt \in Seq(Seq(S)) /\ Len(tt) = n + 1 /\ n \in Nat
      /\ \A i \in 1..n : tt[i] = ss[i]
      /\ tt[n + 1] = s
  BY AppendProperties, LenProperties
<1>2. PICK f \in [1..n -> Seq(S)] : Flattens(ss, f)
  BY FlattenExists
<1>3. FlattenSeq(ss) = IF n = 0 THEN <<>> ELSE f[n]
  <2>1. CASE n = 0
    <3>1. ss = <<>>
      BY <2>1, EmptySeq
    <3> QED BY <2>1, <3>1 DEF FlattenSeq
  <2>2. CASE n # 0
    BY <1>2, <2>2, FlattenIs
  <2> QED BY <2>1, <2>2
<1>4. FlattenSeq(ss) \in Seq(S)
  <2>1. CASE n = 0
    BY <1>3, <2>1
  <2>2. CASE n # 0
    <3>1. n \in 1..n
      BY <1>1, <2>2
    <3>2. f[n] \in Seq(S)
      BY <1>2, <3>1
    <3> QED BY <1>3, <2>2, <3>2
  <2> QED BY <2>1, <2>2
<1> DEFINE e == FlattenSeq(ss) \o s
           g == [i \in 1..(n + 1) |-> IF i = n + 1 THEN e ELSE f[i]]
<1>5. e \in Seq(S)
  BY <1>4, ConcatProperties
<1> HIDE DEF tt
<1>6. g \in [1..Len(tt) -> Seq(S)]
  BY <1>1, <1>2, <1>5
<1>7. Flattens(tt, g)
  <2> SUFFICES ASSUME NEW i \in 1..(n + 1)
               PROVE  g[i] = IF i = 1 THEN tt[i] ELSE g[i - 1] \o tt[i]
    BY <1>1 DEF Flattens
  <2>1. CASE i = n + 1
    <3>1. CASE n = 0
      <4>1. e = s
        BY <1>3, <3>1, ConcatEmptySeq
      <4> QED BY <1>1, <2>1, <3>1, <4>1
    <3>2. CASE n # 0
      <4>1. i # 1 /\ i - 1 = n /\ n \in 1..(n + 1) /\ n # n + 1
        BY <1>1, <2>1, <3>2
      <4>2. g[i - 1] = f[n] /\ g[i] = e /\ tt[i] = s
        BY <1>1, <2>1, <4>1
      <4> QED BY <1>3, <3>2, <4>1, <4>2
    <3> QED BY <3>1, <3>2
  <2>2. CASE i # n + 1
    <3>1. i \in 1..n /\ g[i] = f[i] /\ tt[i] = ss[i] /\ (i # 1 => g[i - 1] = f[i - 1])
      BY <1>1, <2>2
    <3>2. f[i] = IF i = 1 THEN ss[i] ELSE f[i - 1] \o ss[i]
      BY <1>2, <3>1 DEF Flattens
    <3> QED BY <3>1, <3>2
  <2> QED BY <2>1, <2>2
<1>8. g[n + 1] = e
  BY <1>1
<1> HIDE DEF g
<1>9. FlattenSeq(tt) = e
  <2>1. Len(tt) # 0
    BY <1>1
  <2>2. FlattenSeq(tt) = g[Len(tt)]
    BY <1>1, <1>6, <1>7, <2>1, FlattenIs
  <2> QED BY <1>1, <1>8, <2>2
<1> QED BY <1>4, <1>9 DEF tt

\* ConcatAssociative, in a form the provers instantiate among sequences of
\* sequences.
LEMMA Regroup ==
  \A S, a, b, c : a \in Seq(S) /\ b \in Seq(S) /\ c \in Seq(S) =>
                   (a \o b) \o c = a \o (b \o c)
BY ConcatAssociative

\* More texts at the end.
LEMMA FlattenConcat ==
  ASSUME NEW S, NEW ss \in Seq(Seq(S)), NEW uu \in Seq(Seq(S))
  PROVE  FlattenSeq(ss \o uu) = FlattenSeq(ss) \o FlattenSeq(uu)
<1> DEFINE P(n) == \A tt \in Seq(Seq(S)) :
                     Len(tt) = n => FlattenSeq(ss \o tt) = FlattenSeq(ss) \o FlattenSeq(tt)
           T == {n \in Nat : P(n)}
<1>0. FlattenSeq(ss) \in Seq(S)
  BY FlattenAppend, EmptySeq
<1>1. P(0)
  <2> SUFFICES ASSUME NEW tt \in Seq(Seq(S)), Len(tt) = 0
               PROVE  FlattenSeq(ss \o tt) = FlattenSeq(ss) \o FlattenSeq(tt)
    OBVIOUS
  <2>1. tt = <<>>
    BY EmptySeq
  <2>2. FlattenSeq(<<>>) = <<>>
    BY EmptySeq DEF FlattenSeq
  <2> QED BY <1>0, <2>1, <2>2, ConcatEmptySeq
<1>2. ASSUME NEW n \in Nat, P(n) PROVE P(n + 1)
  <2> SUFFICES ASSUME NEW tt \in Seq(Seq(S)), Len(tt) = n + 1
               PROVE  FlattenSeq(ss \o tt) = FlattenSeq(ss) \o FlattenSeq(tt)
    OBVIOUS
  <2>1. tt # <<>>
    BY EmptySeq
  <2>2. PICK vv \in Seq(Seq(S)), s \in Seq(S) : tt = Append(vv, s)
    BY <2>1, SequenceEmptyOrAppend
  <2>3. Len(vv) = n
    BY <2>2, AppendProperties, LenProperties
  <2>4. ss \o tt = Append(ss \o vv, s) /\ ss \o vv \in Seq(Seq(S))
    <3>1. tt = vv \o <<s>> /\ <<s>> \in Seq(Seq(S)) /\ ss \o vv \in Seq(Seq(S))
      BY <2>2, AppendIsConcat, ConcatProperties
    <3>2. ss \o (vv \o <<s>>) = (ss \o vv) \o <<s>>
      BY <3>1, ConcatAssociative
    <3> QED BY <3>1, <3>2, AppendIsConcat
  <2>5. FlattenSeq(ss \o tt) = FlattenSeq(ss \o vv) \o s
    BY <2>4, FlattenAppend
  <2>6. FlattenSeq(tt) = FlattenSeq(vv) \o s /\ FlattenSeq(vv) \in Seq(S)
    BY <2>2, FlattenAppend
  <2>7. FlattenSeq(ss \o vv) = FlattenSeq(ss) \o FlattenSeq(vv)
    BY <1>2, <2>3
  <2>8. (FlattenSeq(ss) \o FlattenSeq(vv)) \o s = FlattenSeq(ss) \o (FlattenSeq(vv) \o s)
    BY <1>0, <2>6, Regroup, SMTT(60)
  <2> QED BY <2>5, <2>6, <2>7, <2>8
<1>3. \A n \in Nat : P(n)
  <2> HIDE DEF P
  <2>1. 0 \in T /\ \A n \in Nat : n \in T => n + 1 \in T
    BY <1>1, <1>2
  <2> HIDE DEF T
  <2>2. \A n \in Nat : n \in T
    BY <2>1, SetInduction
  <2> QED BY <2>2 DEF T
<1>4. Len(uu) \in Nat
  BY LenProperties
<1> QED BY <1>3, <1>4

\* The first n values of a function.
Upto(p, n) == [i \in 1..n |-> p[i]]

\* The next text comes after those before it.
LEMMA FlattenNext ==
  ASSUME NEW S, NEW p, NEW n \in Nat, \A i \in 1..(n + 1) : p[i] \in Seq(S)
  PROVE  /\ FlattenSeq(Upto(p, n)) \in Seq(S)
         /\ FlattenSeq(Upto(p, n + 1)) = FlattenSeq(Upto(p, n)) \o p[n + 1]
<1> DEFINE ss == Upto(p, n)
           tt == Upto(p, n + 1)
<1>1. \A i \in 1..(n + 1) : p[i] \in Seq(S)
  OBVIOUS
<1>2. /\ ss \in Seq(Seq(S)) /\ Len(ss) = n /\ \A i \in 1..n : ss[i] = p[i]
      /\ tt \in Seq(Seq(S)) /\ Len(tt) = n + 1 /\ \A i \in 1..(n + 1) : tt[i] = p[i]
  BY <1>1 DEF Upto
<1> HIDE DEF ss, tt
<1>3. p[n + 1] \in Seq(S)
  BY <1>1
<1>4. /\ Append(ss, p[n + 1]) \in Seq(Seq(S)) /\ Len(Append(ss, p[n + 1])) = n + 1
      /\ \A i \in 1..n : Append(ss, p[n + 1])[i] = ss[i]
      /\ Append(ss, p[n + 1])[n + 1] = p[n + 1]
  BY <1>2, <1>3, AppendProperties
<1>5. ASSUME NEW i \in 1..(n + 1) PROVE tt[i] = Append(ss, p[n + 1])[i]
  <2>1. CASE i = n + 1
    BY <1>2, <1>4, <2>1
  <2>2. CASE i # n + 1
    <3>1. i \in 1..n
      BY <2>2
    <3> QED BY <1>2, <1>4, <3>1
  <2> QED BY <2>1, <2>2
<1>6. tt = Append(ss, p[n + 1])
  BY <1>2, <1>4, <1>5, SeqEqual
<1>7. FlattenSeq(ss) \in Seq(S) /\ FlattenSeq(tt) = FlattenSeq(ss) \o p[n + 1]
  BY <1>2, <1>3, <1>6, FlattenAppend
<1> QED BY <1>7 DEF ss, tt

\* None of the texts put together are nothing.
LEMMA FlattenFirst ==
  ASSUME NEW p
  PROVE  FlattenSeq(Upto(p, 0)) = <<>>
<1>1. Upto(p, 0) = <<>>
  BY DEF Upto
<1> QED BY <1>1, EmptySeq DEF FlattenSeq

\* All of them are sequences.
LEMMA FlattenType ==
  ASSUME NEW S, NEW p, NEW n \in Nat, \A i \in 1..n : p[i] \in Seq(S)
  PROVE  FlattenSeq(Upto(p, n)) \in Seq(S)
<1>1. CASE n = 0
  BY <1>1, FlattenFirst, EmptySeq
<1>2. CASE n # 0
  <2>1. PICK l \in Nat : n = l + 1
    <3>1. n - 1 \in Nat /\ n = (n - 1) + 1
      BY <1>2
    <3> QED BY <3>1
  <2>2. /\ FlattenSeq(Upto(p, l)) \in Seq(S)
        /\ FlattenSeq(Upto(p, l + 1)) = FlattenSeq(Upto(p, l)) \o p[l + 1]
    BY <2>1, FlattenNext
  <2>3. p[l + 1] \in Seq(S)
    BY <2>1
  <2>4. FlattenSeq(Upto(p, l)) \o p[l + 1] \in Seq(S)
    BY <2>2, <2>3, ConcatProperties
  <2> QED BY <2>1, <2>2, <2>4
<1> QED BY <1>1, <1>2

\* The values of a function after the first a, up to the b-th.
Between(c, a, b) == [k \in 1..(b - a) |-> c[a + k]]

\* They are texts, and those after the first a, up to the b-th, of one character
\* each.
Spells(S, p, c, a, b) == /\ a \in Nat /\ b \in Nat /\ a <= b
                         /\ \A i \in 1..b : p[i] \in Seq(S)
                         /\ \A i \in (a + 1)..b : p[i] = <<c[i]>> /\ c[i] \in S

\* Texts of one character each are that many characters.
LEMMA FlattenCells ==
  ASSUME NEW S, NEW p, NEW c, NEW a, NEW b, Spells(S, p, c, a, b)
  PROVE  /\ FlattenSeq(Upto(p, a)) \in Seq(S)
         /\ FlattenSeq(Upto(p, b)) = FlattenSeq(Upto(p, a)) \o Between(c, a, b)
<1> DEFINE F == FlattenSeq(Upto(p, a))
           g(d) == [k \in 1..d |-> c[a + k]]
           R(d) == FlattenSeq(Upto(p, a + d)) = F \o g(d)
           T == {d \in Nat : a + d <= b => R(d)}
<1>s. /\ a \in Nat /\ b \in Nat /\ a <= b
      /\ \A i \in 1..b : p[i] \in Seq(S)
      /\ \A i \in (a + 1)..b : p[i] = <<c[i]>> /\ c[i] \in S
  BY DEF Spells
<1>0. F \in Seq(S)
  <2>1. \A i \in 1..a : p[i] \in Seq(S)
    BY <1>s
  <2> QED BY <1>s, <2>1, FlattenType
<1>g. ASSUME NEW d \in Nat, a + d <= b PROVE g(d) \in Seq(S)
  BY <1>g, <1>s
<1>1. 0 \in T
  <2>1. g(0) = <<>> /\ a + 0 = a
    BY <1>s
  <2>2. F \o <<>> = F
    BY <1>0, ConcatEmptySeq
  <2>3. R(0)
    BY <2>1, <2>2
  <2> QED BY <2>3
<1>2. ASSUME NEW d \in Nat, d \in T PROVE d + 1 \in T
  <2> SUFFICES ASSUME a + (d + 1) <= b PROVE R(d + 1)
    <3> HIDE DEF R
    <3> QED OBVIOUS
  <2>0. /\ a + d <= b /\ a + d \in Nat
        /\ \A i \in 1..((a + d) + 1) : p[i] \in Seq(S)
    BY <1>s
  <2>1. R(d)
    <3> HIDE DEF R
    <3> QED BY <1>2, <2>0
  <2> DEFINE e == c[a + d + 1]
  <2>2. FlattenSeq(Upto(p, (a + d) + 1)) = FlattenSeq(Upto(p, a + d)) \o p[(a + d) + 1]
    BY <2>0, FlattenNext
  <2>3. (a + d) + 1 = a + (d + 1) /\ a + d + 1 \in (a + 1)..b
    BY <1>s
  <2>4. p[(a + d) + 1] = <<e>> /\ e \in S
    BY <1>s, <2>3
  <2>5. g(d) \in Seq(S) /\ Len(g(d)) = d /\ g(d + 1) \in Seq(S) /\ Len(g(d + 1)) = d + 1
    BY <1>g, <1>s
  <2>6. g(d + 1) = Append(g(d), e)
    <3>1. /\ Append(g(d), e) \in Seq(S) /\ Len(Append(g(d), e)) = d + 1
          /\ \A i \in 1..d : Append(g(d), e)[i] = g(d)[i]
          /\ Append(g(d), e)[d + 1] = e
      BY <2>4, <2>5, AppendProperties
    <3>2. ASSUME NEW i \in 1..(d + 1) PROVE g(d + 1)[i] = Append(g(d), e)[i]
      <4>1. CASE i = d + 1
        BY <1>s, <3>1, <4>1
      <4>2. CASE i # d + 1
        <5>1. i \in 1..d
          BY <4>2
        <5> QED BY <3>1, <5>1
      <4> QED BY <4>1, <4>2
    <3> HIDE DEF g, e
    <3> QED BY <2>5, <3>1, <3>2, SeqEqual
  <2> HIDE DEF g, e, F
  <2>7. g(d + 1) = g(d) \o <<e>>
    BY <2>4, <2>5, <2>6, AppendIsConcat
  <2>a. <<e>> \in Seq(S)
    BY <2>4
  <2>8. (F \o g(d)) \o <<e>> = F \o (g(d) \o <<e>>)
    BY <1>0, <2>5, <2>a, Regroup, SMTT(60)
  <2> QED BY <2>1, <2>2, <2>3, <2>4, <2>7, <2>8
<1> HIDE DEF T
<1>3. \A d \in Nat : d \in T
  BY <1>1, <1>2, SetInduction
<1>4. b - a \in Nat /\ a + (b - a) = b /\ b <= b
  BY <1>s
<1>5. R(b - a)
  <2> HIDE DEF R
  <2> QED BY <1>3, <1>4 DEF T
<1> QED BY <1>0, <1>4, <1>5 DEF Between

\* Empty texts add nothing.
LEMMA FlattenNothing ==
  ASSUME NEW S, NEW p, NEW a \in Nat, NEW b \in Nat, a <= b,
         \A i \in 1..b : p[i] \in Seq(S), \A i \in (a + 1)..b : p[i] = <<>>
  PROVE  /\ FlattenSeq(Upto(p, a)) \in Seq(S)
         /\ FlattenSeq(Upto(p, b)) = FlattenSeq(Upto(p, a))
<1> DEFINE F == FlattenSeq(Upto(p, a))
           T == {d \in Nat : a + d <= b => FlattenSeq(Upto(p, a + d)) = F}
<1>0. F \in Seq(S)
  BY FlattenType
<1>1. 0 \in T
  OBVIOUS
<1>2. ASSUME NEW d \in Nat, d \in T PROVE d + 1 \in T
  <2> SUFFICES ASSUME a + (d + 1) <= b PROVE FlattenSeq(Upto(p, a + (d + 1))) = F
    OBVIOUS
  <2>0. /\ a + d <= b /\ a + d \in Nat
        /\ \A i \in 1..((a + d) + 1) : p[i] \in Seq(S)
    OBVIOUS
  <2>1. FlattenSeq(Upto(p, a + d)) = F
    BY <1>2, <2>0
  <2>2. FlattenSeq(Upto(p, (a + d) + 1)) = FlattenSeq(Upto(p, a + d)) \o p[(a + d) + 1]
    BY <2>0, FlattenNext
  <2>3. (a + d) + 1 = a + (d + 1) /\ a + d + 1 \in (a + 1)..b
    OBVIOUS
  <2>4. p[(a + d) + 1] = <<>>
    BY <2>3
  <2> HIDE DEF F
  <2>5. F \o <<>> = F
    BY <1>0, ConcatEmptySeq
  <2> QED BY <2>1, <2>2, <2>3, <2>4, <2>5
<1> HIDE DEF T
<1>3. \A d \in Nat : d \in T
  BY <1>1, <1>2, SetInduction
<1>4. b - a \in Nat /\ a + (b - a) = b /\ b <= b
  OBVIOUS
<1>5. a + (b - a) <= b => FlattenSeq(Upto(p, a + (b - a))) = F
  BY <1>3, <1>4 DEF T
<1> QED BY <1>0, <1>4, <1>5

-----------------------------------------------------------------------------
(* Counting.                                                                 *)

\* How many of the first n numbers are in A.
LEMMA CountNext ==
  ASSUME NEW A, NEW n \in Nat
  PROVE  /\ Cardinality((1..n) \cap A) \in Nat
         /\ Cardinality((1..(n + 1)) \cap A) =
              Cardinality((1..n) \cap A) + (IF n + 1 \in A THEN 1 ELSE 0)
<1> DEFINE B == (1..n) \cap A
<1>1. IsFiniteSet(1..n)
  BY FS_Interval
<1>2. IsFiniteSet(B) /\ Cardinality(B) \in Nat
  BY <1>1, FS_Subset, FS_CardinalityType
<1>3. CASE n + 1 \in A
  <2>1. (1..(n + 1)) \cap A = B \cup {n + 1} /\ n + 1 \notin B
    BY <1>3
  <2> QED BY <1>2, <1>3, <2>1, FS_AddElement
<1>4. CASE n + 1 \notin A
  <2>1. (1..(n + 1)) \cap A = B
    BY <1>4
  <2> QED BY <1>2, <1>4, <2>1
<1> QED BY <1>2, <1>3, <1>4

\* There are none among no numbers.
LEMMA CountNone ==
  ASSUME NEW A
  PROVE  Cardinality((1..0) \cap A) = 0
<1>1. (1..0) \cap A = {}
  OBVIOUS
<1> QED BY <1>1, FS_EmptySet

=============================================================================
