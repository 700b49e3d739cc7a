--------------------------- MODULE SequenceLemmas ---------------------------
(***************************************************************************)
(* Facts about sequences that the proofs about byte streams and rows need: *)
(* induction over sequences, prefixes, and FlattenSeq, the concatenation   *)
(* of a sequence of sequences.                                             *)
(*                                                                         *)
(* The induction principles take a set where others take a predicate, so   *)
(* that they are first-order; they rest on the well-foundedness of < over  *)
(* the natural numbers.                                                    *)
(***************************************************************************)
EXTENDS SequencesExt, SequenceTheorems, NaturalsInduction, WellFoundedInduction, TLAPS

-----------------------------------------------------------------------------
(* Concatenation, stated so that a prover need not look into it. *)

\* The three are joined alike from the left and from the right.
Regroups(s, t, u) == (s \o t) \o u = s \o (t \o u)

LEMMA RegroupsAlways ==
    ASSUME NEW S, NEW s \in Seq(S), NEW t \in Seq(S), NEW u \in Seq(S)
    PROVE  Regroups(s, t, u)
BY ConcatAssociative DEF Regroups

LEMMA JoinType ==
    ASSUME NEW S, NEW s \in Seq(S), NEW t \in Seq(S)
    PROVE  s \o t \in Seq(S)
BY ConcatProperties

-----------------------------------------------------------------------------
(* Induction. *)

LEMMA Smallest ==
    ASSUME NEW T \in SUBSET Nat, T # {}
    PROVE  \E x \in T : \A y \in T : x <= y
<1> DEFINE R == OpToRel(<, Nat)
<1>1. \A x, y \in Nat : <<y, x>> \in R <=> y < x
  BY DEF OpToRel
<1>2. IsWellFoundedOn(R, Nat)
  BY NatLessThanWellFounded
<1> HIDE DEF R
<1>3. \E x \in T : \A y \in T : ~(<<y, x>> \in R)
  BY <1>2, WFMin
<1>4. \A x, y \in Nat : ~(<<y, x>> \in R) => x <= y
  BY <1>1
<1> QED BY <1>3, <1>4

LEMMA InductionOverNat ==
    ASSUME NEW P, 0 \in P, \A n \in Nat : n \in P => n + 1 \in P
    PROVE  Nat \subseteq P
<1> SUFFICES ASSUME Nat \ P # {} PROVE FALSE
  OBVIOUS
<1>1. PICK x \in Nat \ P : \A y \in Nat \ P : x <= y
  BY Smallest
<1>2. x # 0 /\ x - 1 \in Nat /\ x - 1 \in P
  BY <1>1
<1> QED BY <1>1, <1>2

LEMMA InductionOverSeq ==
    ASSUME NEW S, NEW P, <<>> \in P,
           \A s \in Seq(S), e \in S : s \in P => Append(s, e) \in P
    PROVE  Seq(S) \subseteq P
<1> DEFINE N == {n \in Nat : \A s \in Seq(S) : Len(s) = n => s \in P}
<1>1. 0 \in N
  BY EmptySeq
<1>2. ASSUME NEW n \in Nat, n \in N PROVE n + 1 \in N
  <2> SUFFICES ASSUME NEW s \in Seq(S), Len(s) = n + 1 PROVE s \in P
    OBVIOUS
  <2>1. s # <<>>
    BY EmptySeq
  <2>2. PICK t \in Seq(S), e \in S : s = Append(t, e)
    BY <2>1, SequenceEmptyOrAppend
  <2>3. Len(t) = n
    BY <2>2, AppendProperties, LenProperties
  <2> QED BY <1>2, <2>2, <2>3
<1> HIDE DEF N
<1>3. Nat \subseteq N
  BY <1>1, <1>2, InductionOverNat
<1> QED BY <1>3, LenProperties DEF N

-----------------------------------------------------------------------------
(* FlattenSeq. *)

\* g is the function FlattenSeq defines by recursion over the first n elements.
Flattens(g, ss, n) == g = [i \in 1..n |-> IF i = 1 THEN ss[i] ELSE g[i - 1] \o ss[i]]

LEMMA FlatteningExists ==
    ASSUME NEW ss, NEW n \in Nat
    PROVE  \E g : Flattens(g, ss, n)
<1> DEFINE N == {k \in Nat : \E g : Flattens(g, ss, k)}
<1>1. 0 \in N
  <2>1. Flattens([i \in 1..0 |-> 0], ss, 0)
    BY DEF Flattens
  <2> QED BY <2>1
<1>2. ASSUME NEW k \in Nat, k \in N PROVE k + 1 \in N
  <2>1. PICK g : Flattens(g, ss, k)
    BY <1>2
  <2> DEFINE last == IF k = 0 THEN ss[1] ELSE g[k] \o ss[k + 1]
             h == [i \in 1..(k + 1) |-> IF i = k + 1 THEN last ELSE g[i]]
  <2>2. \A i \in 1..k : g[i] = IF i = 1 THEN ss[i] ELSE g[i - 1] \o ss[i]
    BY <2>1 DEF Flattens
  <2>3. ASSUME NEW i \in 1..(k + 1)
        PROVE  h[i] = IF i = 1 THEN ss[i] ELSE h[i - 1] \o ss[i]
    <3>1. CASE i = k + 1
      BY <3>1
    <3>2. CASE i # k + 1
      <4>1. i \in 1..k /\ h[i] = g[i] /\ (i # 1 => h[i - 1] = g[i - 1])
        BY <3>2
      <4> QED BY <2>2, <4>1
    <3> QED BY <3>1, <3>2
  <2>4. Flattens(h, ss, k + 1)
    <3>1. h = [i \in 1..(k + 1) |-> h[i]]
      OBVIOUS
    <3> HIDE DEF h
    <3> QED BY <2>3, <3>1 DEF Flattens
  <2> QED BY <2>4
<1> HIDE DEF N
<1>3. Nat \subseteq N
  BY <1>1, <1>2, InductionOverNat
<1> QED BY <1>3 DEF N

\* One more element at the end leaves it as it is.
LEMMA FlatteningsAgree ==
    ASSUME NEW ss, NEW tt, NEW g, NEW h, NEW n \in Nat,
           Flattens(g, ss, n), Flattens(h, tt, n + 1),
           \A i \in 1..n : ss[i] = tt[i]
    PROVE  \A i \in 1..n : g[i] = h[i]
<1> DEFINE N == {i \in Nat : i \in 1..n => g[i] = h[i]}
<1>1. /\ \A i \in 1..n : g[i] = IF i = 1 THEN ss[i] ELSE g[i - 1] \o ss[i]
      /\ \A i \in 1..(n + 1) : h[i] = IF i = 1 THEN tt[i] ELSE h[i - 1] \o tt[i]
  BY DEF Flattens
<1>2. 0 \in N
  OBVIOUS
<1>3. ASSUME NEW j \in Nat, j \in N PROVE j + 1 \in N
  <2> SUFFICES ASSUME j + 1 \in 1..n PROVE g[j + 1] = h[j + 1]
    OBVIOUS
  <2>1. CASE j = 0
    BY <1>1, <2>1
  <2>2. CASE j # 0
    <3>1. g[j] = h[j] /\ ss[j + 1] = tt[j + 1]
      BY <1>3, <2>2
    <3> QED BY <1>1, <2>2, <3>1
  <2> QED BY <2>1, <2>2
<1> HIDE DEF N
<1>4. Nat \subseteq N
  BY <1>2, <1>3, InductionOverNat
<1> QED BY <1>4 DEF N

\* What FlattenSeq is.
LEMMA FlattenIs ==
    ASSUME NEW ss, Len(ss) \in Nat
    PROVE  /\ Len(ss) = 0 => FlattenSeq(ss) = ss
           /\ Len(ss) # 0 => \E g : Flattens(g, ss, Len(ss)) /\ FlattenSeq(ss) = g[Len(ss)]
<1>1. \E g : Flattens(g, ss, Len(ss))
  BY FlatteningExists
<1> QED BY <1>1 DEF FlattenSeq, Flattens

LEMMA FlattenEmpty == FlattenSeq(<<>>) = <<>>
<1>1. Len(<<>>) = 0
  BY EmptySeq
<1> QED BY <1>1 DEF FlattenSeq

LEMMA FlattenAppend ==
    ASSUME NEW S, NEW ss \in Seq(Seq(S)), NEW s \in Seq(S)
    PROVE  FlattenSeq(Append(ss, s)) = IF ss = <<>> THEN s ELSE FlattenSeq(ss) \o s
<1> DEFINE n == Len(ss)
           tt == Append(ss, s)
<1>1. /\ n \in Nat /\ Len(tt) = n + 1 /\ tt[n + 1] = s
      /\ \A i \in 1..n : tt[i] = ss[i]
      /\ ss = <<>> <=> n = 0
  BY AppendProperties, LenProperties, EmptySeq
<1> HIDE DEF tt
<1>2. PICK h : Flattens(h, tt, n + 1) /\ FlattenSeq(tt) = h[n + 1]
  BY <1>1, FlattenIs
<1>3. \A i \in 1..(n + 1) : h[i] = IF i = 1 THEN tt[i] ELSE h[i - 1] \o tt[i]
  BY <1>2 DEF Flattens
<1>4. CASE n = 0
  BY <1>1, <1>2, <1>3, <1>4 DEF tt
<1>5. CASE n # 0
  <2>1. PICK g : Flattens(g, ss, n) /\ FlattenSeq(ss) = g[n]
    BY <1>1, <1>5, FlattenIs
  <2>2. g[n] = h[n]
    <3>1. n \in Nat /\ \A i \in 1..n : ss[i] = tt[i]
      BY <1>1
    <3>2. Flattens(g, ss, n) /\ Flattens(h, tt, n + 1)
      BY <1>2, <2>1
    <3>3. \A i \in 1..n : g[i] = h[i]
      <4> HIDE DEF n
      <4> QED BY ONLY <3>1, <3>2, FlatteningsAgree
    <3> QED BY <1>1, <1>5, <3>3
  <2>3. h[n + 1] = h[n] \o s
    <3>1. n \in Nat /\ n # 0 /\ tt[n + 1] = s
      BY <1>1, <1>5
    <3> HIDE DEF n
    <3>2. n + 1 \in 1..(n + 1) /\ n + 1 # 1 /\ (n + 1) - 1 = n
      BY <3>1
    <3>3. h[n + 1] = h[(n + 1) - 1] \o tt[n + 1]
      BY <1>3, <3>2
    <3> QED BY <3>1, <3>2, <3>3
  <2> QED BY <1>1, <1>2, <1>5, <2>1, <2>2, <2>3 DEF tt
<1> QED BY <1>4, <1>5

LEMMA FlattenType == ASSUME NEW S, NEW ss \in Seq(Seq(S)) PROVE FlattenSeq(ss) \in Seq(S)
<1> DEFINE P == {tt \in Seq(Seq(S)) : FlattenSeq(tt) \in Seq(S)}
<1>1. <<>> \in P
  BY FlattenEmpty, EmptySeq
<1>2. ASSUME NEW tt \in Seq(Seq(S)), NEW s \in Seq(S), tt \in P PROVE Append(tt, s) \in P
  <2>1. Append(tt, s) \in Seq(Seq(S))
    BY AppendProperties
  <2>2. FlattenSeq(Append(tt, s)) \in Seq(S)
    BY <1>2, FlattenAppend, ConcatProperties
  <2> QED BY <2>1, <2>2
<1> HIDE DEF P
<1>3. Seq(Seq(S)) \subseteq P
  BY <1>1, <1>2, InductionOverSeq
<1> QED BY <1>3 DEF P

\* The last sequence comes last,
LEMMA FlattenLast ==
    ASSUME NEW S, NEW ss \in Seq(Seq(S)), NEW s \in Seq(S)
    PROVE  FlattenSeq(Append(ss, s)) = FlattenSeq(ss) \o s
BY FlattenAppend, FlattenEmpty, FlattenType, ConcatEmptySeq

\* the first comes first,
LEMMA FlattenFirst ==
    ASSUME NEW S, NEW ss \in Seq(Seq(S)), NEW s \in Seq(S)
    PROVE  FlattenSeq(<<s>> \o ss) = s \o FlattenSeq(ss)
<1> DEFINE P == {tt \in Seq(Seq(S)) : FlattenSeq(<<s>> \o tt) = s \o FlattenSeq(tt)}
<1>0. <<>> \in Seq(Seq(S)) /\ <<s>> \in Seq(Seq(S)) /\ <<s>> = Append(<<>>, s)
  BY EmptySeq
<1>1. <<>> \in P
  <2> DEFINE one == <<s>>
  <2>1. FlattenSeq(Append(<<>>, s)) = s
    BY <1>0, FlattenAppend
  <2>2. one \o <<>> = one
    <3>1. one \in Seq(Seq(S))
      BY <1>0
    <3> HIDE DEF one
    <3> QED BY <3>1, ConcatEmptySeq
  <2>3. s \o <<>> = s
    BY ConcatEmptySeq
  <2>4. FlattenSeq(one \o <<>>) = s \o FlattenSeq(<<>>)
    BY <1>0, <2>1, <2>2, <2>3, FlattenEmpty
  <2> QED BY <1>0, <2>4
<1>2. ASSUME NEW tt \in Seq(Seq(S)), NEW t \in Seq(S), tt \in P PROVE Append(tt, t) \in P
  <2>1. <<s>> \o tt \in Seq(Seq(S)) /\ <<t>> \in Seq(Seq(S))
    BY <1>0, ConcatProperties, EmptySeq
  <2>2. <<s>> \o Append(tt, t) = Append(<<s>> \o tt, t)
    <3> DEFINE a == <<s>>
               b == <<t>>
    <3>1. Append(tt, t) = tt \o b /\ Append(a \o tt, t) = (a \o tt) \o b
      BY <1>0, <2>1, AppendIsConcat
    <3>2. a \in Seq(Seq(S)) /\ b \in Seq(Seq(S))
      BY <1>0, <2>1
    <3> HIDE DEF a, b
    <3>3. Regroups(a, tt, b)
      BY ONLY <3>2, tt \in Seq(Seq(S)), RegroupsAlways
    <3> QED BY <3>1, <3>3 DEF Regroups, a, b
  <2>3. FlattenSeq(<<s>> \o Append(tt, t)) = (s \o FlattenSeq(tt)) \o t
    BY <1>2, <2>1, <2>2, FlattenLast
  <2>4. (s \o FlattenSeq(tt)) \o t = s \o (FlattenSeq(tt) \o t)
    BY FlattenType, ConcatAssociative
  <2>5. FlattenSeq(tt) \o t = FlattenSeq(Append(tt, t)) /\ Append(tt, t) \in Seq(Seq(S))
    BY FlattenLast, AppendProperties
  <2> QED BY <2>3, <2>4, <2>5
<1> HIDE DEF P
<1>3. Seq(Seq(S)) \subseteq P
  BY <1>1, <1>2, InductionOverSeq
<1> QED BY <1>3 DEF P

\* Each element of each of the sequences is there.
Keeps(ss) ==
    \A i \in 1..Len(ss) : \A k \in 1..Len(ss[i]) :
        \E j \in 1..Len(FlattenSeq(ss)) : FlattenSeq(ss)[j] = ss[i][k]

LEMMA FlattenKeeps == ASSUME NEW S, NEW ss \in Seq(Seq(S)) PROVE Keeps(ss)
<1> DEFINE P == {tt \in Seq(Seq(S)) : Keeps(tt)}
<1>1. <<>> \in P
  BY EmptySeq DEF Keeps
<1>2. ASSUME NEW tt \in Seq(Seq(S)), NEW t \in Seq(S), tt \in P PROVE Append(tt, t) \in P
  <2> DEFINE uu == Append(tt, t)
             a == FlattenSeq(tt)
             b == FlattenSeq(uu)
  <2>1. /\ uu \in Seq(Seq(S)) /\ Len(uu) = Len(tt) + 1 /\ Len(tt) \in Nat
        /\ \A i \in 1..Len(tt) : uu[i] = tt[i]
        /\ uu[Len(tt) + 1] = t
    BY AppendProperties, LenProperties
  <2>2. a \in Seq(S) /\ b = a \o t
    BY FlattenType, FlattenLast
  <2> HIDE DEF uu, a, b
  <2>3. /\ Len(b) = Len(a) + Len(t) /\ Len(a) \in Nat /\ Len(t) \in Nat
        /\ \A j \in 1..Len(a) : b[j] = a[j]
        /\ \A k \in 1..Len(t) : b[Len(a) + k] = t[k]
    BY <2>2, ConcatProperties, LenProperties
  <2>4. ASSUME NEW i \in 1..Len(uu), NEW k \in 1..Len(uu[i])
        PROVE  \E j \in 1..Len(b) : b[j] = uu[i][k]
    <3>1. CASE i = Len(tt) + 1
      <4>1. k \in 1..Len(t) /\ Len(a) + k \in 1..Len(b) /\ b[Len(a) + k] = uu[i][k]
        BY <2>1, <2>3, <3>1
      <4> QED BY <4>1
    <3>2. CASE i # Len(tt) + 1
      <4>1. i \in 1..Len(tt) /\ uu[i] = tt[i] /\ k \in 1..Len(tt[i])
        <5>1. i \in 1..Len(tt)
          BY <2>1, <3>2
        <5>2. uu[i] = tt[i]
          BY <2>1, <5>1
        <5> QED BY <5>1, <5>2
      <4>2. PICK j \in 1..Len(a) : a[j] = tt[i][k]
        BY <1>2, <4>1 DEF Keeps, a
      <4>3. j \in 1..Len(b) /\ b[j] = a[j]
        BY <2>3
      <4> QED BY <4>1, <4>2, <4>3
    <3> QED BY <3>1, <3>2
  <2> QED BY <2>1, <2>4 DEF Keeps, uu, b
<1> HIDE DEF P
<1>3. Seq(Seq(S)) \subseteq P
  BY <1>1, <1>2, InductionOverSeq
<1> QED BY <1>3 DEF P

-----------------------------------------------------------------------------
(* Parts and prefixes. *)

LEMMA FunctionIsSeq ==
    ASSUME NEW S, NEW n \in Nat, NEW f \in [1..n -> S]
    PROVE  f \in Seq(S) /\ Len(f) = n /\ DOMAIN f = 1..n
<1>1. f \in Seq(S)
  BY SeqDef
<1>2. DOMAIN f = 1..n /\ DOMAIN f = 1..Len(f) /\ Len(f) \in Nat
  BY <1>1, LenProperties
<1> QED BY <1>1, <1>2


\* A prefix is what something can be put behind.
LEMMA PrefixIs ==
    ASSUME NEW S, NEW s \in Seq(S), NEW t \in Seq(S)
    PROVE  IsPrefix(s, t) <=> \E u \in Seq(S) : t = s \o u
<1>0. Len(s) \in Nat /\ Len(t) \in Nat /\ SubSeq(s, 1, Len(s)) = s
  BY LenProperties, SubSeqFull
<1>1. ASSUME IsPrefix(s, t) PROVE \E u \in Seq(S) : t = s \o u
  <2>1. Len(s) <= Len(t) /\ SubSeq(t, 1, Len(s)) = s
    BY <1>0, <1>1 DEF IsPrefix
  <2>2. SubSeq(t, 1, Len(s)) \o SubSeq(t, Len(s) + 1, Len(t)) = SubSeq(t, 1, Len(t))
    <3>1. 1 \in 1..(Len(t) + 1) /\ Len(s) \in (1 - 1)..Len(t) /\ Len(t) \in Len(s)..Len(t)
      BY <1>0, <2>1
    <3> QED BY <3>1, ConcatAdjacentSubSeq
  <2>3. SubSeq(t, Len(s) + 1, Len(t)) \in Seq(S)
    BY <1>0, SubSeqProperties, ElementOfSeq
  <2> QED BY <2>1, <2>2, <2>3, SubSeqFull
<1>2. ASSUME NEW u \in Seq(S), t = s \o u PROVE IsPrefix(s, t)
  <2>1. /\ Len(t) = Len(s) + Len(u) /\ Len(u) \in Nat
        /\ \A i \in 1..Len(s) : t[i] = s[i]
    BY <1>0, <1>2, ConcatProperties, LenProperties
  <2>2. \A i \in 1..Len(s) : t[i] \in S
    BY <2>1, ElementOfSeq
  <2>3. /\ SubSeq(t, 1, Len(s)) \in Seq(S) /\ Len(SubSeq(t, 1, Len(s))) = Len(s)
        /\ \A i \in 1..Len(s) : SubSeq(t, 1, Len(s))[i] = t[i]
    BY <1>0, <2>2, SubSeqProperties
  <2>4. SubSeq(t, 1, Len(s)) = s
    BY <2>1, <2>3, SeqEqual
  <2> QED BY <1>0, <2>1, <2>4 DEF IsPrefix
<1> QED BY <1>1, <1>2

\* Cutting a sequence in two.
LEMMA CutSeq ==
    ASSUME NEW S, NEW s \in Seq(S), NEW k \in 0..Len(s)
    PROVE  /\ SubSeq(s, 1, k) \in Seq(S) /\ Len(SubSeq(s, 1, k)) = k
           /\ SubSeq(s, k + 1, Len(s)) \in Seq(S) /\ Len(SubSeq(s, k + 1, Len(s))) = Len(s) - k
           /\ s = SubSeq(s, 1, k) \o SubSeq(s, k + 1, Len(s))
           /\ \A i \in 1..k : SubSeq(s, 1, k)[i] = s[i]
           /\ \A i \in 1..(Len(s) - k) : SubSeq(s, k + 1, Len(s))[i] = s[k + i]
<1>1. Len(s) \in Nat /\ \A i \in 1..Len(s) : s[i] \in S
  BY LenProperties, ElementOfSeq
<1>2. /\ SubSeq(s, 1, k) \in Seq(S) /\ Len(SubSeq(s, 1, k)) = k
      /\ \A i \in 1..k : SubSeq(s, 1, k)[i] = s[i]
  BY <1>1, SubSeqProperties
<1>3. /\ SubSeq(s, k + 1, Len(s)) \in Seq(S) /\ Len(SubSeq(s, k + 1, Len(s))) = Len(s) - k
      /\ \A i \in 1..(Len(s) - k) : SubSeq(s, k + 1, Len(s))[i] = s[k + i]
  <2>1. /\ SubSeq(s, k + 1, Len(s)) \in Seq(S)
        /\ Len(SubSeq(s, k + 1, Len(s))) = IF k + 1 <= Len(s) THEN Len(s) - (k + 1) + 1 ELSE 0
        /\ \A i \in 1..(Len(s) - (k + 1) + 1) : SubSeq(s, k + 1, Len(s))[i] = s[k + 1 + i - 1]
    BY <1>1, SubSeqProperties
  <2> QED BY <1>1, <2>1
<1>4. SubSeq(s, 1, k) \o SubSeq(s, k + 1, Len(s)) = SubSeq(s, 1, Len(s))
  <2>1. 1 \in 1..(Len(s) + 1) /\ k \in (1 - 1)..Len(s) /\ Len(s) \in k..Len(s)
    BY <1>1
  <2> QED BY <2>1, ConcatAdjacentSubSeq
<1> QED BY <1>2, <1>3, <1>4, SubSeqFull

\* The same for a sequence that is not looked into.
FirstCut(S, s, k) ==
    /\ SubSeq(s, 1, k) \in Seq(S) /\ Len(SubSeq(s, 1, k)) = k
    /\ \A i \in 1..k : SubSeq(s, 1, k)[i] = s[i]

SecondCut(S, s, k) ==
    /\ SubSeq(s, k + 1, Len(s)) \in Seq(S)
    /\ s = SubSeq(s, 1, k) \o SubSeq(s, k + 1, Len(s))

LEMMA CutAlways ==
    ASSUME NEW S, NEW s \in Seq(S), NEW k \in 0..Len(s)
    PROVE  FirstCut(S, s, k) /\ SecondCut(S, s, k)
<1>1. FirstCut(S, s, k)
  BY CutSeq DEF FirstCut
<1>2. SecondCut(S, s, k)
  BY CutSeq DEF SecondCut
<1> QED BY <1>1, <1>2

\* The rest without its first element.
LEMMA TailOfRest ==
    ASSUME NEW S, NEW s \in Seq(S), NEW k \in 0..(Len(s) - 1)
    PROVE  /\ SubSeq(s, k + 1, Len(s)) # <<>> /\ Head(SubSeq(s, k + 1, Len(s))) = s[k + 1]
           /\ Tail(SubSeq(s, k + 1, Len(s))) = SubSeq(s, (k + 1) + 1, Len(s))
<1> DEFINE n == Len(s)
           t == SubSeq(s, k + 1, n)
           u == SubSeq(s, (k + 1) + 1, n)
<1>1. n \in Nat /\ k \in 0..n /\ k + 1 \in 0..n
  BY LenProperties
<1>2. t \in Seq(S) /\ Len(t) = n - k /\ \A i \in 1..(n - k) : t[i] = s[k + i]
  BY <1>1, CutSeq
<1>3. /\ u \in Seq(S) /\ Len(u) = n - (k + 1)
      /\ \A i \in 1..(n - (k + 1)) : u[i] = s[(k + 1) + i]
  BY <1>1, CutSeq
<1> HIDE DEF t, u, n
<1>4. t # <<>> /\ Head(t) = s[k + 1]
  BY <1>1, <1>2, EmptySeq DEF n
<1>5. /\ Tail(t) \in Seq(S) /\ Len(Tail(t)) = Len(t) - 1
      /\ \A i \in 1..Len(Tail(t)) : Tail(t)[i] = t[i + 1]
  BY <1>2, <1>4, HeadTailProperties
<1>6. Len(Tail(t)) = Len(u)
  BY <1>1, <1>2, <1>3, <1>5
<1>7. ASSUME NEW i \in 1..Len(u) PROVE Tail(t)[i] = u[i]
  <2>1. i + 1 \in 1..(n - k) /\ i \in 1..(n - (k + 1)) /\ k + (i + 1) = (k + 1) + i
    BY <1>1, <1>3
  <2>2. Tail(t)[i] = t[i + 1]
    BY <1>5, <1>6
  <2> QED BY <1>2, <1>3, <2>1, <2>2
<1>8. Tail(t) = u
  BY <1>3, <1>5, <1>6, <1>7, SeqEqual
<1> QED BY <1>4, <1>8 DEF t, u, n

\* A part of the rest behind the k-th element is a part of the whole.
LEMMA PartOfRest ==
    ASSUME NEW S, NEW s \in Seq(S), NEW k \in 0..Len(s), NEW a \in Nat, NEW b \in Nat,
           a <= b, k + b <= Len(s)
    PROVE  SubSeq(SubSeq(s, k + 1, Len(s)), a + 1, b) = SubSeq(s, k + a + 1, k + b)
<1> DEFINE t == SubSeq(s, k + 1, Len(s))
           u == SubSeq(t, a + 1, b)
           v == SubSeq(s, k + a + 1, k + b)
<1>1. Len(s) \in Nat /\ k \in Nat
  BY LenProperties
<1>2. /\ t \in Seq(S) /\ Len(t) = Len(s) - k
      /\ \A i \in 1..(Len(s) - k) : t[i] = s[k + i]
  BY CutSeq
<1> HIDE DEF t
<1>3. /\ u \in Seq(S) /\ Len(u) = b - a
      /\ \A i \in 1..(b - a) : u[i] = t[a + i]
  <2>1. \A i \in (a + 1)..b : t[i] \in S
    BY <1>1, <1>2, ElementOfSeq
  <2>2. /\ u \in Seq(S) /\ Len(u) = IF a + 1 <= b THEN b - (a + 1) + 1 ELSE 0
        /\ \A i \in 1..(b - (a + 1) + 1) : u[i] = t[a + 1 + i - 1]
    BY <2>1, SubSeqProperties
  <2> QED BY <1>1, <2>2
<1>4. /\ v \in Seq(S) /\ Len(v) = b - a
      /\ \A i \in 1..(b - a) : v[i] = s[k + a + i]
  <2>1. \A i \in (k + a + 1)..(k + b) : s[i] \in S
    BY <1>1, ElementOfSeq
  <2>2. /\ v \in Seq(S) /\ Len(v) = IF k + a + 1 <= k + b THEN k + b - (k + a + 1) + 1 ELSE 0
        /\ \A i \in 1..(k + b - (k + a + 1) + 1) : v[i] = s[k + a + 1 + i - 1]
    BY <1>1, <2>1, SubSeqProperties
  <2> QED BY <1>1, <2>2
<1> HIDE DEF u, v
<1>5. \A i \in 1..(b - a) : u[i] = v[i]
  <2> SUFFICES ASSUME NEW i \in 1..(b - a) PROVE u[i] = v[i]
    OBVIOUS
  <2>1. a + i \in 1..(Len(s) - k) /\ k + (a + i) = k + a + i
    BY <1>1
  <2> QED BY <1>2, <1>3, <1>4, <2>1
<1>6. u = v
  BY <1>3, <1>4, <1>5, SeqEqual
<1> QED BY <1>6 DEF t, u, v

\* Of two ways to cut a sequence in two, the longer first part begins with the shorter.
LEMMA SameSeqCutTwice ==
    ASSUME NEW S, NEW s \in Seq(S), NEW t \in Seq(S), NEW u \in Seq(S), NEW v \in Seq(S),
           s \o t = u \o v, Len(s) <= Len(u)
    PROVE  /\ \A i \in 1..Len(s) : u[i] = s[i]
           /\ SubSeq(u, 1, Len(s)) = s
           /\ t = SubSeq(u, Len(s) + 1, Len(u)) \o v
<1>1. Len(s) \in Nat /\ Len(u) \in Nat /\ Len(v) \in Nat
  BY LenProperties
<1>2. \A i \in 1..Len(s) : u[i] = s[i]
  <2> SUFFICES ASSUME NEW i \in 1..Len(s) PROVE u[i] = s[i]
    OBVIOUS
  <2>1. (s \o t)[i] = s[i] /\ (u \o v)[i] = u[i]
    BY <1>1, ConcatProperties, LenProperties
  <2> QED BY <2>1
<1> DEFINE w == SubSeq(u, Len(s) + 1, Len(u))
<1>3. /\ SubSeq(u, 1, Len(s)) \in Seq(S) /\ Len(SubSeq(u, 1, Len(s))) = Len(s)
      /\ w \in Seq(S) /\ u = SubSeq(u, 1, Len(s)) \o w
      /\ \A i \in 1..Len(s) : SubSeq(u, 1, Len(s))[i] = u[i]
  <2>1. PICK k \in 0..Len(u) : k = Len(s)
    BY <1>1
  <2>2. /\ SubSeq(u, 1, k) \in Seq(S) /\ Len(SubSeq(u, 1, k)) = k
        /\ SubSeq(u, k + 1, Len(u)) \in Seq(S)
        /\ u = SubSeq(u, 1, k) \o SubSeq(u, k + 1, Len(u))
        /\ \A i \in 1..k : SubSeq(u, 1, k)[i] = u[i]
    <3>1. FirstCut(S, u, k) /\ SecondCut(S, u, k)
      BY ONLY u \in Seq(S), k \in 0..Len(u), CutAlways
    <3> QED BY ONLY <3>1 DEF FirstCut, SecondCut
  <2> QED BY <2>1, <2>2
<1> HIDE DEF w
<1>4. SubSeq(u, 1, Len(s)) = s
  BY <1>2, <1>3, SeqEqual
<1>5. s \o t = s \o (w \o v)
  <2>1. u = s \o w
    BY <1>3, <1>4
  <2>2. w \in Seq(S)
    BY <1>3
  <2>3. (s \o w) \o v = s \o (w \o v)
    <3>1. Regroups(s, w, v)
      BY ONLY s \in Seq(S), <2>2, v \in Seq(S), RegroupsAlways
    <3> QED BY <3>1 DEF Regroups
  <2> QED BY <2>1, <2>3
<1>6. t = w \o v
  BY ZenonT(60), <1>3, <1>5, ConcatProperties, ConcatSimplifications
<1> QED BY <1>2, <1>4, <1>6 DEF w
=============================================================================
