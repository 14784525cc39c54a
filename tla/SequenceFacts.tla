---------------------------- MODULE SequenceFacts ----------------------------
(***************************************************************************)
(* Lemmas about sequences for the proofs about the parsing pipeline: what   *)
(* Filter, FlattenSeq, Append, Front, Tail and the path helpers of Routes   *)
(* return for sequences of any length.                                     *)
(*                                                                         *)
(* The induction theorems of the library take an operator as a parameter   *)
(* and cannot be used here; NatInduct states induction over a set of       *)
(* numbers instead, and Recursion what follows from it for functions       *)
(* defined by recursion.                                                   *)
(***************************************************************************)
EXTENDS Routes, FiniteSetTheorems, TLAPS

\* A set of numbers has a least one.
LEMMA LeastNumber ==
  ASSUME NEW S \in SUBSET Nat, S # {}
  PROVE  \E n \in S : \A m \in S : n <= m
<1> DEFINE R == OpToRel(<, Nat)
<1>1. \A m, n \in Nat : m < n => <<m, n>> \in R
  <2>1. R = {ss \in Nat \X Nat : ss[1] < ss[2]}
    BY DEF OpToRel
  <2> QED
    BY <2>1
<1>2. IsWellFoundedOn(R, Nat)
  BY NatLessThanWellFounded
<1> HIDE DEF R
<1>3. PICK n \in S : \A m \in S : ~(<<m, n>> \in R)
  BY <1>2, WFMin
<1>4. \A m \in S : n \in Nat /\ m \in Nat /\ ~(m < n)
  BY <1>1, <1>3
<1> QED
  BY <1>4

\* Induction: a set with 0 and every successor of a member has every number.
LEMMA NatInduct ==
  ASSUME NEW S, 0 \in S, \A n \in Nat : n \in S => n + 1 \in S
  PROVE  Nat \subseteq S
<1> SUFFICES ASSUME ~(Nat \subseteq S) PROVE FALSE
  OBVIOUS
<1> DEFINE Out == {n \in Nat : n \notin S}
<1>1. Out \in SUBSET Nat /\ Out # {}
  OBVIOUS
<1>2. PICK n \in Out : \A m \in Out : n <= m
  BY <1>1, LeastNumber
<1>3. n - 1 \in Nat /\ n - 1 \notin Out
  BY <1>2
<1> QED
  BY <1>3

\* f is the function defined by recursion from b by the steps.
Fits(f, b, n, step) == f[0] = b /\ \A i \in 1..n : f[i] = step[i][f[i - 1]]

\* A function defined by recursion over 1..n exists, if its steps stay in a set.
LEMMA Recursion ==
  ASSUME NEW A, NEW b \in A, NEW n \in Nat, NEW step \in [1..n -> [A -> A]]
  PROVE  \E f \in [0..n -> A] : Fits(f, b, n, step)
<1> USE DEF Fits
<1> DEFINE Have == {m \in Nat : m <= n => \E f \in [0..m -> A] : Fits(f, b, m, step)}
<1>1. 0 \in Have
  <2>1. [i \in 0..0 |-> b] \in [0..0 -> A] /\ Fits([i \in 0..0 |-> b], b, 0, step)
    OBVIOUS
  <2> QED
    BY <2>1
<1>2. ASSUME NEW m \in Nat, m \in Have
      PROVE  m + 1 \in Have
  <2> SUFFICES ASSUME m + 1 <= n
               PROVE  \E f \in [0..(m + 1) -> A] : Fits(f, b, m + 1, step)
    OBVIOUS
  <2>1. PICK f \in [0..m -> A] : Fits(f, b, m, step)
    BY <1>2
  <2> DEFINE g == [i \in 0..(m + 1) |-> IF i = m + 1 THEN step[m + 1][f[m]] ELSE f[i]]
  <2>2. g \in [0..(m + 1) -> A]
    OBVIOUS
  <2>3. ASSUME NEW i \in 1..(m + 1) PROVE g[i] = step[i][g[i - 1]]
    <3>1. CASE i = m + 1
      BY <3>1
    <3>2. CASE i # m + 1
      <4>1. i \in 1..m /\ i - 1 \in 0..m
        BY <3>2
      <4> QED
        BY <4>1, <2>1
    <3> QED
      BY <3>1, <3>2
  <2>4. g[0] = b
    BY <2>1
  <2> QED
    BY <2>2, <2>3, <2>4
<1> HIDE DEF Have
<1>3. n \in Have
  BY <1>1, <1>2, NatInduct
<1> QED
  BY <1>3 DEF Have

\* f satisfies the recursion in the definition of Picked.
Picks(f, s, I) ==
    /\ f[0] = <<>>
    /\ \A i \in 1..Len(s) : f[i] = IF i \in I THEN Append(f[i - 1], s[i]) ELSE f[i - 1]

\* The recursion that defines Picked has one solution at most,
LEMMA PicksUnique ==
  ASSUME NEW s, Len(s) \in Nat, NEW I, NEW f, NEW g, Picks(f, s, I), Picks(g, s, I)
  PROVE  \A i \in 0..Len(s) : f[i] = g[i]
<1> DEFINE Same == {i \in Nat : i <= Len(s) => f[i] = g[i]}
<1>1. 0 \in Same
  BY DEF Picks
<1>2. ASSUME NEW i \in Nat, i \in Same PROVE i + 1 \in Same
  <2> SUFFICES ASSUME i + 1 <= Len(s) PROVE f[i + 1] = g[i + 1]
    OBVIOUS
  <2>1. f[i] = g[i] /\ i + 1 \in 1..Len(s) /\ (i + 1) - 1 = i
    BY <1>2
  <2> QED
    BY <2>1 DEF Picks
<1>3. Nat \subseteq Same
  <2> HIDE DEF Same
  <2> QED
    BY <1>1, <1>2, NatInduct
<1> QED
  BY <1>3

\* it has one,
LEMMA PicksExist ==
  ASSUME NEW S, NEW s \in Seq(S), NEW I
  PROVE  \E f \in [0..Len(s) -> Seq(S)] : Picks(f, s, I)
<1> DEFINE n == Len(s)
           A == Seq(S)
           b == <<>>
           step == [i \in 1..n |-> [q \in A |-> IF i \in I THEN Append(q, s[i]) ELSE q]]
<1>1. b \in A /\ n \in Nat /\ step \in [1..n -> [A -> A]]
  OBVIOUS
<1>2. PICK f \in [0..n -> A] : Fits(f, b, n, step)
  <2> HIDE DEF n, A, b, step
  <2> QED
    BY <1>1, Recursion
<1>3. \A i \in 1..n : f[i] = IF i \in I THEN Append(f[i - 1], s[i]) ELSE f[i - 1]
  <2> SUFFICES ASSUME NEW i \in 1..n
               PROVE  f[i] = IF i \in I THEN Append(f[i - 1], s[i]) ELSE f[i - 1]
    OBVIOUS
  <2>1. i - 1 \in 0..n
    BY <1>1
  <2> HIDE DEF n, A
  <2>2. f[i] = step[i][f[i - 1]] /\ f[i - 1] \in A
    BY <1>2, <2>1 DEF Fits
  <2> QED
    BY <2>2
<1> QED
  BY <1>2, <1>3 DEF Fits, Picks

\* which Picked is the value of.
LEMMA PickedValue ==
  ASSUME NEW S, NEW s \in Seq(S), NEW I, NEW f \in [0..Len(s) -> Seq(S)], Picks(f, s, I)
  PROVE  Picked(s, I) = f[Len(s)]
<1> DEFINE G(h) == [i \in 0..Len(s) |->
             IF i = 0 THEN <<>> ELSE IF i \in I THEN Append(h[i - 1], s[i]) ELSE h[i - 1]]
           F == CHOOSE g : g = G(g)
<1>1. f = G(f)
  <2>1. ASSUME NEW i \in 0..Len(s) PROVE f[i] = G(f)[i]
    <3> HIDE DEF F
    <3>1. CASE i = 0
      BY <3>1 DEF Picks
    <3>2. CASE i \in 1..Len(s)
      <4>1. G(f)[i] = IF i \in I THEN Append(f[i - 1], s[i]) ELSE f[i - 1]
        BY <3>2
      <4> QED
        BY <3>2, <4>1 DEF Picks
    <3> QED
      BY <3>1, <3>2
  <2> QED
    BY <2>1
<1>2. Picked(s, I) = F[Len(s)]
  BY DEF Picked
<1>3. F = G(F)
  <2> HIDE DEF G
  <2> QED
    BY <1>1
<1> HIDE DEF F
<1>4. Picks(F, s, I)
  <2> DEFINE H == G(F)
  <2>1. H[0] = <<>> /\ \A i \in 1..Len(s) : H[i] = IF i \in I THEN Append(F[i - 1], s[i]) ELSE F[i - 1]
    OBVIOUS
  <2> HIDE DEF H
  <2> QED
    BY <1>3, <2>1 DEF H, Picks
<1>5. \A i \in 0..Len(s) : F[i] = f[i]
  BY <1>4, PicksUnique
<1> QED
  BY <1>2, <1>5

\* What Picked returns: elements of the sequence at the places named, no more than it had.
LEMMA PickedFacts ==
  ASSUME NEW S, NEW s \in Seq(S), NEW I \in SUBSET DOMAIN s
  PROVE  /\ Picked(s, I) \in Seq(S)
         /\ Len(Picked(s, I)) <= Len(s)
         /\ ToSet(Picked(s, I)) = {s[i] : i \in I}
<1>1. PICK f \in [0..Len(s) -> Seq(S)] : Picks(f, s, I)
  BY PicksExist
<1>2. Picked(s, I) = f[Len(s)]
  BY <1>1, PickedValue
<1> DEFINE Good(m) == /\ Len(f[m]) <= m
                      /\ \A j \in 1..Len(f[m]) : \E i \in I : f[m][j] = s[i]
                      /\ \A i \in I : i <= m => \E j \in 1..Len(f[m]) : f[m][j] = s[i]
           Have == {m \in Nat : m <= Len(s) => Good(m)}
<1>3. 0 \in Have
  BY <1>1 DEF Picks
<1>4. ASSUME NEW m \in Nat, m \in Have PROVE m + 1 \in Have
  <2> SUFFICES ASSUME m + 1 <= Len(s) PROVE Good(m + 1)
    OBVIOUS
  <2>1. Good(m) /\ m \in 0..Len(s) /\ m + 1 \in 1..Len(s) /\ f[m] \in Seq(S) /\ s[m + 1] \in S
    BY <1>4
  <2>2. CASE m + 1 \in I
    <3>1. f[m + 1] = Append(f[m], s[m + 1])
      <4>1. (m + 1) - 1 = m
        OBVIOUS
      <4> QED
        BY <1>1, <2>1, <2>2, <4>1 DEF Picks
    <3>2. /\ Len(f[m + 1]) = Len(f[m]) + 1
          /\ f[m + 1][Len(f[m]) + 1] = s[m + 1]
          /\ \A j \in 1..Len(f[m]) : f[m + 1][j] = f[m][j]
      BY <2>1, <3>1
    <3>3. Len(f[m]) \in Nat
      BY <2>1
    <3>4. Len(f[m + 1]) <= m + 1
      BY <2>1, <3>2, <3>3
    <3>5. ASSUME NEW j \in 1..Len(f[m + 1]) PROVE \E i \in I : f[m + 1][j] = s[i]
      <4>1. CASE j = Len(f[m]) + 1
        BY <4>1, <3>2, <2>2, <2>1
      <4>2. CASE j \in 1..Len(f[m])
        BY <4>2, <3>2, <2>1
      <4> QED
        BY <4>1, <4>2, <3>2, <3>3
    <3>6. ASSUME NEW i \in I, i <= m + 1 PROVE \E j \in 1..Len(f[m + 1]) : f[m + 1][j] = s[i]
      <4>1. CASE i = m + 1
        <5>1. Len(f[m]) + 1 \in 1..Len(f[m + 1])
          BY <3>2, <3>3
        <5> QED
          BY <4>1, <3>2, <5>1
      <4>2. CASE i <= m
        <5>1. PICK j \in 1..Len(f[m]) : f[m][j] = s[i]
          BY <4>2, <2>1
        <5>2. j \in 1..Len(f[m + 1])
          BY <3>2, <3>3
        <5> QED
          BY <5>1, <5>2, <3>2
      <4> QED
        BY <3>6, <4>1, <4>2
    <3> QED
      BY <3>4, <3>5, <3>6
  <2>3. CASE m + 1 \notin I
    <3>1. f[m + 1] = f[m]
      BY <1>1, <2>1, <2>3 DEF Picks
    <3>2. \A i \in I : i <= m + 1 => i <= m
      BY <2>3
    <3>3. Len(f[m]) \in Nat
      BY <2>1
    <3> QED
      BY <3>1, <3>2, <3>3, <2>1
  <2> QED
    BY <2>2, <2>3
<1>5. Good(Len(s))
  <2>1. Len(s) \in Have
    <3> HIDE DEF Have
    <3>1. Len(s) \in Nat
      OBVIOUS
    <3> QED
      BY <1>3, <1>4, <3>1, NatInduct
  <2> QED
    BY <2>1
<1>6. f[Len(s)] \in Seq(S)
  OBVIOUS
<1>7. ToSet(f[Len(s)]) = {s[i] : i \in I}
  <2>1. DOMAIN f[Len(s)] = 1..Len(f[Len(s)])
    BY <1>6
  <2>2. \A i \in I : i <= Len(s)
    OBVIOUS
  <2> DEFINE q == f[Len(s)]
  <2>3. \A j \in DOMAIN q : \E i \in I : q[j] = s[i]
    BY <1>5, <2>1
  <2>4. \A i \in I : \E j \in DOMAIN q : q[j] = s[i]
    BY <1>5, <2>1, <2>2
  <2> HIDE DEF q
  <2>5. ToSet(q) = {s[i] : i \in I}
    BY <2>3, <2>4 DEF ToSet
  <2> QED
    BY <2>5 DEF q
<1> QED
  BY <1>2, <1>5, <1>6, <1>7

\* f satisfies the recursion in the definition of FlattenSeq.
Flattens(f, ss) ==
    /\ f[0] = <<>>
    /\ \A i \in 1..Len(ss) : f[i] = f[i - 1] \o ss[i]

\* The recursion that defines FlattenSeq has a solution,
LEMMA FlattensExist ==
  ASSUME NEW S, NEW ss \in Seq(Seq(S))
  PROVE  \E f \in [0..Len(ss) -> Seq(S)] : Flattens(f, ss)
<1> DEFINE n == Len(ss)
           A == Seq(S)
           b == <<>>
           step == [i \in 1..n |-> [q \in A |-> q \o ss[i]]]
<1>1. b \in A /\ n \in Nat /\ step \in [1..n -> [A -> A]]
  OBVIOUS
<1>2. PICK f \in [0..n -> A] : Fits(f, b, n, step)
  <2> HIDE DEF n, A, b, step
  <2> QED
    BY <1>1, Recursion
<1>3. \A i \in 1..n : f[i] = f[i - 1] \o ss[i]
  <2> SUFFICES ASSUME NEW i \in 1..n PROVE f[i] = f[i - 1] \o ss[i]
    OBVIOUS
  <2>1. i - 1 \in 0..n
    BY <1>1
  <2> HIDE DEF n, A
  <2>2. f[i] = step[i][f[i - 1]] /\ f[i - 1] \in A
    BY <1>2, <2>1 DEF Fits
  <2> QED
    BY <2>2
<1> QED
  BY <1>2, <1>3 DEF Fits, Flattens

\* only one,
LEMMA FlattensUnique ==
  ASSUME NEW ss, Len(ss) \in Nat, NEW f, NEW g, Flattens(f, ss), Flattens(g, ss)
  PROVE  \A i \in 0..Len(ss) : f[i] = g[i]
<1> DEFINE Same == {i \in Nat : i <= Len(ss) => f[i] = g[i]}
<1>1. 0 \in Same
  BY DEF Flattens
<1>2. ASSUME NEW i \in Nat, i \in Same PROVE i + 1 \in Same
  <2> SUFFICES ASSUME i + 1 <= Len(ss) PROVE f[i + 1] = g[i + 1]
    OBVIOUS
  <2>1. f[i] = g[i] /\ i + 1 \in 1..Len(ss) /\ (i + 1) - 1 = i
    BY <1>2
  <2> QED
    BY <2>1 DEF Flattens
<1>3. Nat \subseteq Same
  <2> HIDE DEF Same
  <2> QED
    BY <1>1, <1>2, NatInduct
<1> QED
  BY <1>3

\* which FlattenSeq is the value of.
LEMMA FlattenValue ==
  ASSUME NEW S, NEW ss \in Seq(Seq(S)), NEW f \in [0..Len(ss) -> Seq(S)], Flattens(f, ss)
  PROVE  FlattenSeq(ss) = f[Len(ss)]
<1>1. CASE Len(ss) = 0
  <2>1. ss = <<>> /\ f[Len(ss)] = <<>>
    BY <1>1 DEF Flattens
  <2> QED
    BY <1>1, <2>1 DEF FlattenSeq
<1>2. CASE Len(ss) # 0
  <2> DEFINE G(h) == [i \in 1..Len(ss) |-> IF i = 1 THEN ss[i] ELSE h[i - 1] \o ss[i]]
             F == CHOOSE g : g = G(g)
             e == [i \in 1..Len(ss) |-> f[i]]
  <2> HIDE DEF F
  <2>1. Len(ss) \in Nat /\ Len(ss) >= 1 /\ ss[1] \in Seq(S) /\ 1 \in 1..Len(ss)
    BY <1>2
  <2>2. f[1] = ss[1]
    <3>1. f[1] = f[0] \o ss[1] /\ f[0] = <<>>
      <4>1. 1 - 1 = 0
        OBVIOUS
      <4> QED
        BY <2>1, <4>1 DEF Flattens
    <3>2. <<>> \o ss[1] = ss[1]
      BY <2>1
    <3> QED
      BY <3>1, <3>2
  <2>3. e = G(e)
    <3>1. ASSUME NEW i \in 1..Len(ss) PROVE e[i] = G(e)[i]
      <4>1. CASE i = 1
        BY <4>1, <2>2
      <4>2. CASE i # 1
        <5>1. i - 1 \in 1..Len(ss)
          BY <4>2
        <5>2. G(e)[i] = e[i - 1] \o ss[i]
          BY <4>2
        <5>3. e[i - 1] = f[i - 1] /\ e[i] = f[i]
          BY <5>1
        <5>4. f[i] = f[i - 1] \o ss[i]
          BY DEF Flattens
        <5> QED
          BY <5>2, <5>3, <5>4
      <4> QED
        BY <4>1, <4>2
    <3> QED
      BY <3>1
  <2>4. FlattenSeq(ss) = F[Len(ss)]
    BY <1>2 DEF FlattenSeq, F
  <2>5. F = G(F)
    <3> HIDE DEF G, e
    <3> QED
      BY <2>3 DEF F
  <2>6. \A i \in 1..Len(ss) : F[i] = IF i = 1 THEN ss[i] ELSE F[i - 1] \o ss[i]
    <3> DEFINE H == G(F)
    <3>1. \A i \in 1..Len(ss) : H[i] = IF i = 1 THEN ss[i] ELSE F[i - 1] \o ss[i]
      OBVIOUS
    <3> HIDE DEF H
    <3> QED
      BY <2>5, <3>1 DEF H
  <2> DEFINE K == [i \in 0..Len(ss) |-> IF i = 0 THEN <<>> ELSE F[i]]
  <2>7. Flattens(K, ss)
    <3>1. K[0] = <<>>
      BY <2>1
    <3>2. ASSUME NEW i \in 1..Len(ss) PROVE K[i] = K[i - 1] \o ss[i]
      <4>1. K[i] = F[i] /\ ss[i] \in Seq(S)
        OBVIOUS
      <4>2. CASE i = 1
        <5>1. K[i - 1] = <<>> /\ F[i] = ss[i]
          BY <4>2, <2>6, <2>1
        <5>2. <<>> \o ss[i] = ss[i]
          BY <4>1
        <5> HIDE DEF K
        <5> QED
          BY <4>1, <5>1, <5>2
      <4>3. CASE i # 1
        <5>1. K[i - 1] = F[i - 1]
          BY <4>3
        <5> QED
          BY <4>1, <4>3, <5>1, <2>6
      <4> QED
        BY <4>2, <4>3
    <3> QED
      BY <3>1, <3>2 DEF Flattens
  <2>8. K[Len(ss)] = f[Len(ss)]
    <3> HIDE DEF K
    <3>1. \A i \in 0..Len(ss) : K[i] = f[i]
      BY <2>1, <2>7, FlattensUnique
    <3> QED
      BY <2>1, <3>1
  <2>9. K[Len(ss)] = F[Len(ss)]
    BY <2>1
  <2> QED
    BY <2>4, <2>8, <2>9
<1> QED
  BY <1>1, <1>2

\* FlattenSeq returns a sequence of what the sequences hold.
LEMMA FlattenIsSeq ==
  ASSUME NEW S, NEW ss \in Seq(Seq(S))
  PROVE  FlattenSeq(ss) \in Seq(S)
<1>1. PICK f \in [0..Len(ss) -> Seq(S)] : Flattens(f, ss)
  BY FlattensExist
<1>2. f[Len(ss)] \in Seq(S)
  OBVIOUS
<1> QED
  BY <1>1, <1>2, FlattenValue

\* What IsSeq says of a sequence.
LEMMA SeqFacts ==
  ASSUME NEW s, IsSeq(s)
  PROVE  /\ Len(s) \in Nat
         /\ DOMAIN s = 1..Len(s)
         /\ s = [i \in 1..Len(s) |-> s[i]]
         /\ \A i \in DOMAIN s : s[i] \in ToSet(s)
         /\ \A x \in ToSet(s) : \E i \in DOMAIN s : x = s[i]
BY DEF IsSeq, ToSet

\* A sequence of members of any set is one.
LEMMA IsSeqIntro ==
  ASSUME NEW S, NEW s \in Seq(S)
  PROVE  IsSeq(s)
BY DEF IsSeq, ToSet

\* A function over 1..n is a sequence of length n.
LEMMA MapIsSeq ==
  ASSUME NEW n \in Nat, NEW u, DOMAIN u = 1..n, u = [i \in 1..n |-> u[i]]
  PROVE  IsSeq(u) /\ Len(u) = n
<1>1. u \in [1..n -> ToSet(u)]
  BY DEF ToSet
<1>2. u \in Seq(ToSet(u))
  BY <1>1
<1> QED
  BY <1>2 DEF IsSeq

\* Two sequences one after the other hold what both held.
LEMMA ConcatIsSeq ==
  ASSUME NEW s, IsSeq(s), NEW t, IsSeq(t)
  PROVE  IsSeq(s \o t) /\ ToSet(s \o t) = ToSet(s) \cup ToSet(t)
<1> DEFINE S == ToSet(s) \cup ToSet(t)
           st == s \o t
<1>1. s \in Seq(S) /\ t \in Seq(S)
  BY DEF IsSeq
<1>2. st \in Seq(S)
  <2> HIDE DEF S
  <2> QED
    BY <1>1
<1>3. /\ DOMAIN st = 1..(Len(s) + Len(t)) /\ Len(s) \in Nat /\ Len(t) \in Nat
      /\ DOMAIN s = 1..Len(s) /\ DOMAIN t = 1..Len(t)
      /\ \A i \in 1..Len(s) : st[i] = s[i]
      /\ \A i \in 1..Len(t) : st[Len(s) + i] = t[i]
  <2> HIDE DEF S
  <2> QED
    BY <1>1
<1> HIDE DEF st, S
<1>4. ToSet(st) \subseteq S
  BY <1>2 DEF ToSet
<1>5. ASSUME NEW x \in ToSet(s) PROVE x \in ToSet(st)
  <2>1. PICK i \in 1..Len(s) : x = s[i]
    BY <1>3 DEF ToSet
  <2>2. i \in DOMAIN st /\ st[i] = x
    BY <1>3, <2>1
  <2> QED
    BY <2>2 DEF ToSet
<1>6. ASSUME NEW x \in ToSet(t) PROVE x \in ToSet(st)
  <2>1. PICK i \in 1..Len(t) : x = t[i]
    BY <1>3 DEF ToSet
  <2>2. Len(s) + i \in DOMAIN st /\ st[Len(s) + i] = x
    BY <1>3, <2>1
  <2> QED
    BY <2>2 DEF ToSet
<1>7. IsSeq(st)
  BY <1>2, IsSeqIntro
<1> QED
  BY <1>4, <1>5, <1>6, <1>7 DEF S, st

\* Where the elements of two sequences are when one follows the other.
LEMMA ConcatPlaces ==
  ASSUME NEW s, IsSeq(s), NEW t, IsSeq(t)
  PROVE  /\ Len(s) \in Nat /\ Len(t) \in Nat
         /\ DOMAIN s = 1..Len(s) /\ DOMAIN t = 1..Len(t)
         /\ DOMAIN (s \o t) = 1..(Len(s) + Len(t)) /\ Len(s \o t) = Len(s) + Len(t)
         /\ s \o t = [i \in 1..(Len(s) + Len(t)) |-> (s \o t)[i]]
         /\ \A i \in 1..Len(s) : (s \o t)[i] = s[i]
         /\ \A i \in 1..Len(t) : (s \o t)[Len(s) + i] = t[i]
<1> DEFINE S == ToSet(s) \cup ToSet(t)
           st == s \o t
<1>1. s \in Seq(S) /\ t \in Seq(S)
  BY DEF IsSeq
<1> HIDE DEF S
<1>2. /\ DOMAIN st = 1..(Len(s) + Len(t)) /\ Len(s) \in Nat /\ Len(t) \in Nat
      /\ DOMAIN s = 1..Len(s) /\ DOMAIN t = 1..Len(t)
      /\ \A i \in 1..Len(s) : st[i] = s[i]
      /\ \A i \in 1..Len(t) : st[Len(s) + i] = t[i]
  BY <1>1
<1>3. st \in Seq(S) /\ Len(st) = Len(s) + Len(t)
  BY <1>1
<1> HIDE DEF st
<1>4. st = [i \in 1..Len(st) |-> st[i]]
  BY <1>3
<1> QED
  BY <1>2, <1>3, <1>4 DEF st

\* PickedFacts for a sequence of whatever it holds.
LEMMA PickedIsSeq ==
  ASSUME NEW s, IsSeq(s), NEW I \in SUBSET DOMAIN s
  PROVE  /\ IsSeq(Picked(s, I))
         /\ Len(Picked(s, I)) <= Len(s)
         /\ ToSet(Picked(s, I)) = {s[i] : i \in I}
<1>1. s \in Seq(ToSet(s))
  BY DEF IsSeq
<1> QED
  BY <1>1, PickedFacts, IsSeqIntro

\* The elements picked keep their order: each comes from a place of its own.
LEMMA PickedPlaces ==
  ASSUME NEW s, IsSeq(s), NEW I \in SUBSET DOMAIN s
  PROVE  \E q \in [DOMAIN Picked(s, I) -> I] :
           /\ \A a, b \in DOMAIN q : a < b => q[a] < q[b]
           /\ \A a \in DOMAIN q : Picked(s, I)[a] = s[q[a]]
<1> DEFINE S == ToSet(s)
<1>1. s \in Seq(S) /\ Len(s) \in Nat /\ DOMAIN s = 1..Len(s)
  BY SeqFacts DEF IsSeq
<1> HIDE DEF S
<1>2. PICK f \in [0..Len(s) -> Seq(S)] : Picks(f, s, I)
  BY <1>1, PicksExist
<1>3. Picked(s, I) = f[Len(s)]
  BY <1>1, <1>2, PickedValue
<1> DEFINE Places(q, m) == /\ q \in [1..Len(f[m]) -> {i \in I : i <= m}]
                           /\ \A a, b \in 1..Len(f[m]) : a < b => q[a] < q[b]
                           /\ \A a \in 1..Len(f[m]) : f[m][a] = s[q[a]]
           Have == {m \in Nat : m <= Len(s) => \E q : Places(q, m)}
<1>4. 0 \in Have
  <2>1. f[0] = <<>>
    BY <1>2 DEF Picks
  <2>2. Places([a \in {} |-> 0], 0)
    BY <2>1
  <2> HIDE DEF Places
  <2> QED
    BY <2>2
<1>5. ASSUME NEW m \in Nat, m \in Have PROVE m + 1 \in Have
  <2> SUFFICES ASSUME m + 1 <= Len(s) PROVE \E q : Places(q, m + 1)
    OBVIOUS
  <2>1. PICK q : Places(q, m)
    <3>1. m <= Len(s)
      BY <1>1
    <3> HIDE DEF Places
    <3> QED
      BY <1>5, <3>1
  <2>2. m \in 0..Len(s) /\ m + 1 \in 1..Len(s) /\ (m + 1) - 1 = m /\ f[m] \in Seq(S) /\ s[m + 1] \in S
    BY <1>1
  <2>3. CASE m + 1 \in I
    <3> DEFINE n == Len(f[m])
               r == [a \in 1..(n + 1) |-> IF a = n + 1 THEN m + 1 ELSE q[a]]
    <3>1. f[m + 1] = Append(f[m], s[m + 1])
      BY <1>2, <2>2, <2>3 DEF Picks
    <3>2. /\ n \in Nat /\ Len(f[m + 1]) = n + 1 /\ f[m + 1][n + 1] = s[m + 1]
          /\ \A a \in 1..n : f[m + 1][a] = f[m][a]
      BY <2>2, <3>1
    <3> HIDE DEF n
    <3>3. /\ \A a \in 1..n : q[a] \in I /\ q[a] <= m /\ f[m][a] = s[q[a]]
          /\ \A a, b \in 1..n : a < b => q[a] < q[b]
      BY <2>1 DEF n
    <3>4. /\ r[n + 1] = m + 1 /\ DOMAIN r = 1..(n + 1) /\ r = [a \in 1..(n + 1) |-> r[a]]
          /\ \A a \in 1..n : r[a] = q[a]
      BY <3>2
    <3> HIDE DEF r
    <3>5. \A a \in 1..(n + 1) : a = n + 1 \/ a \in 1..n
      BY <3>2
    <3>6. \A a \in 1..(n + 1) : r[a] \in I /\ r[a] <= m + 1 /\ f[m + 1][a] = s[r[a]]
      <4>1. r[n + 1] \in I /\ r[n + 1] <= m + 1 /\ f[m + 1][n + 1] = s[r[n + 1]]
        BY <2>3, <3>2, <3>4
      <4>2. ASSUME NEW a \in 1..n PROVE r[a] \in I /\ r[a] <= m + 1 /\ f[m + 1][a] = s[r[a]]
        <5>1. q[a] \in Int /\ q[a] <= m
          BY <1>1, <3>3
        <5>2. q[a] <= m + 1
          BY <5>1
        <5> QED
          BY <3>2, <3>3, <3>4, <5>2
      <4> QED
        BY <3>5, <4>1, <4>2
    <3>7. ASSUME NEW a \in 1..(n + 1), NEW b \in 1..(n + 1), a < b PROVE r[a] < r[b]
      <4>1. a \in 1..n
        BY <3>2, <3>7
      <4>2. \A i \in I : i \in Int
        BY <1>1
      <4>3. r[a] = q[a] /\ q[a] \in Int /\ q[a] <= m
        BY <3>3, <3>4, <4>1, <4>2
      <4>4. CASE b = n + 1
        BY <3>4, <4>3, <4>4
      <4>5. CASE b \in 1..n
        BY <3>3, <3>4, <3>7, <4>1, <4>5
      <4> QED
        BY <3>5, <4>4, <4>5
    <3>8. r \in [1..(n + 1) -> {i \in I : i <= m + 1}]
      BY <3>4, <3>6
    <3>9. Places(r, m + 1)
      BY <3>2, <3>6, <3>7, <3>8
    <3> HIDE DEF Places
    <3> QED
      BY <3>9
  <2>4. CASE m + 1 \notin I
    <3>1. f[m + 1] = f[m]
      BY <1>2, <2>2, <2>4 DEF Picks
    <3>2. {i \in I : i <= m} \subseteq {i \in I : i <= m + 1}
      BY <1>1
    <3>3. Places(q, m + 1)
      BY <2>1, <3>1, <3>2
    <3> HIDE DEF Places
    <3> QED
      BY <3>3
  <2> QED
    BY <2>3, <2>4
<1>6. Len(s) \in Have
  <2> HIDE DEF Have
  <2> QED
    BY <1>1, <1>4, <1>5, NatInduct
<1>7. PICK q : Places(q, Len(s))
  BY <1>1, <1>6
<1>8. DOMAIN Picked(s, I) = 1..Len(f[Len(s)])
  BY <1>1, <1>2, <1>3
<1>9. q \in [DOMAIN Picked(s, I) -> I] /\ DOMAIN q = 1..Len(f[Len(s)])
  BY <1>7, <1>8
<1> QED
  BY <1>3, <1>7, <1>9

\* FlattenSeq holds what the sequences hold, nothing else and nothing less,
LEMMA FlattenFacts ==
  ASSUME NEW S, NEW ss \in Seq(Seq(S))
  PROVE  ToSet(FlattenSeq(ss)) = UNION {ToSet(ss[i]) : i \in DOMAIN ss}
<1>1. PICK f \in [0..Len(ss) -> Seq(S)] : Flattens(f, ss)
  BY FlattensExist
<1> DEFINE U(m) == UNION {ToSet(ss[i]) : i \in 1..m}
           Have == {m \in Nat : m <= Len(ss) => ToSet(f[m]) = U(m)}
<1>2. 0 \in Have
  BY <1>1 DEF Flattens, ToSet
<1>3. ASSUME NEW m \in Nat, m \in Have PROVE m + 1 \in Have
  <2> SUFFICES ASSUME m + 1 <= Len(ss) PROVE ToSet(f[m + 1]) = U(m + 1)
    OBVIOUS
  <2>1. ToSet(f[m]) = U(m)
    BY <1>3
  <2>2. m \in 0..Len(ss) /\ m + 1 \in 1..Len(ss) /\ (m + 1) - 1 = m
    OBVIOUS
  <2>3. f[m + 1] = f[m] \o ss[m + 1]
    BY <1>1, <2>2 DEF Flattens
  <2>4. IsSeq(f[m]) /\ IsSeq(ss[m + 1])
    <3> HIDE DEF Have, U
    <3>1. \A i \in 1..Len(ss) : ss[i] \in Seq(S)
      OBVIOUS
    <3>2. f[m] \in Seq(S) /\ ss[m + 1] \in Seq(S)
      BY <2>2, <3>1
    <3> QED
      BY <3>2, IsSeqIntro
  <2>5. ToSet(f[m + 1]) = ToSet(f[m]) \cup ToSet(ss[m + 1])
    BY <2>3, <2>4, ConcatIsSeq
  <2>6. 1..(m + 1) = (1..m) \cup {m + 1}
    OBVIOUS
  <2>7. U(m + 1) = U(m) \cup ToSet(ss[m + 1])
    BY <2>6
  <2> QED
    BY <2>1, <2>5, <2>7
<1>4. Len(ss) \in Have
  <2> HIDE DEF Have
  <2>1. Len(ss) \in Nat
    OBVIOUS
  <2> QED
    BY <1>2, <1>3, <2>1, NatInduct
<1>5. DOMAIN ss = 1..Len(ss) /\ Len(ss) \in Nat
  OBVIOUS
<1>6. ToSet(f[Len(ss)]) = U(Len(ss))
  BY <1>4, <1>5
<1>7. FlattenSeq(ss) = f[Len(ss)]
  BY <1>1, FlattenValue
<1> QED
  BY <1>5, <1>6, <1>7

\* also for sequences of whatever they hold.
LEMMA FlattenIsSeqOf ==
  ASSUME NEW ss, IsSeq(ss), \A i \in DOMAIN ss : IsSeq(ss[i])
  PROVE  /\ IsSeq(FlattenSeq(ss))
         /\ ToSet(FlattenSeq(ss)) = UNION {ToSet(ss[i]) : i \in DOMAIN ss}
<1> DEFINE S == UNION {ToSet(ss[i]) : i \in DOMAIN ss}
<1>1. ss = [i \in 1..Len(ss) |-> ss[i]] /\ Len(ss) \in Nat /\ DOMAIN ss = 1..Len(ss)
  BY SeqFacts
<1>2. ASSUME NEW i \in 1..Len(ss) PROVE ss[i] \in Seq(S)
  <2>1. ss[i] \in Seq(ToSet(ss[i])) /\ ToSet(ss[i]) \subseteq S
    BY <1>1 DEF IsSeq
  <2> HIDE DEF S
  <2> QED
    BY <2>1
<1>3. ss \in Seq(Seq(S))
  <2> HIDE DEF S
  <2> QED
    BY <1>1, <1>2
<1> QED
  BY <1>3, FlattenIsSeq, FlattenFacts, IsSeqIntro

\* FlattenSeq begins with the first of the sequences.
LEMMA FlattenFirst ==
  ASSUME NEW ss, IsSeq(ss), \A i \in DOMAIN ss : IsSeq(ss[i]), ss # <<>>
  PROVE  /\ Len(ss[1]) <= Len(FlattenSeq(ss))
         /\ \A k \in 1..Len(ss[1]) : FlattenSeq(ss)[k] = ss[1][k]
<1> DEFINE S == UNION {ToSet(ss[i]) : i \in DOMAIN ss}
<1>1. ss = [i \in 1..Len(ss) |-> ss[i]] /\ Len(ss) \in Nat /\ DOMAIN ss = 1..Len(ss)
  BY SeqFacts
<1>2. \A i \in 1..Len(ss) : ss[i] \in Seq(S)
  <2> SUFFICES ASSUME NEW i \in 1..Len(ss) PROVE ss[i] \in Seq(S)
    OBVIOUS
  <2>1. ss[i] \in Seq(ToSet(ss[i])) /\ ToSet(ss[i]) \subseteq S
    BY <1>1 DEF IsSeq
  <2> HIDE DEF S
  <2> QED
    BY <2>1
<1> HIDE DEF S
<1>3. ss \in Seq(Seq(S))
  BY <1>1, <1>2
<1>4. PICK f \in [0..Len(ss) -> Seq(S)] : Flattens(f, ss)
  BY <1>3, FlattensExist
<1>5. FlattenSeq(ss) = f[Len(ss)]
  BY <1>3, <1>4, FlattenValue
<1>6. Len(ss) - 1 \in Nat /\ 1 \in 1..Len(ss)
  BY <1>3
<1> DEFINE Begins(q) == Len(ss[1]) <= Len(q) /\ \A k \in 1..Len(ss[1]) : q[k] = ss[1][k]
           Have == {m \in Nat : m + 1 <= Len(ss) => Begins(f[m + 1])}
<1>7. 0 \in Have
  <2>1. f[1] = f[0] \o ss[1] /\ f[0] = <<>>
    <3>1. 1 - 1 = 0
      OBVIOUS
    <3> QED
      BY <1>4, <1>6, <3>1 DEF Flattens
  <2>2. f[1] = ss[1]
    BY <1>2, <1>6, <2>1
  <2>3. Begins(ss[1])
    BY <1>2, <1>6
  <2>4. Begins(f[0 + 1])
    BY <2>2, <2>3
  <2> HIDE DEF Begins
  <2> QED
    BY <2>4
<1>8. ASSUME NEW m \in Nat, m \in Have PROVE m + 1 \in Have
  <2> HIDE DEF Begins
  <2> SUFFICES ASSUME m + 2 <= Len(ss) PROVE Begins(f[m + 2])
    <3>1. (m + 1) + 1 = m + 2
      OBVIOUS
    <3> QED
      BY <3>1
  <2>1. Begins(f[m + 1])
    BY <1>1, <1>8
  <2>2. m + 2 \in 1..Len(ss) /\ (m + 2) - 1 = m + 1 /\ m + 1 \in 0..Len(ss)
    BY <1>1
  <2>3. f[m + 2] = f[m + 1] \o ss[m + 2]
    BY <1>4, <2>2 DEF Flattens
  <2>4. IsSeq(f[m + 1]) /\ IsSeq(ss[m + 2])
    <3>1. f[m + 1] \in Seq(S) /\ ss[m + 2] \in Seq(S)
      BY <1>2, <2>2
    <3> QED
      BY <3>1, IsSeqIntro
  <2> DEFINE p == f[m + 1]
             r == ss[m + 2]
             q == p \o r
  <2>5. IsSeq(p) /\ IsSeq(r) /\ Begins(p) /\ f[m + 2] = q
    BY <2>1, <2>3, <2>4
  <2> HIDE DEF p, r, q
  <2>6. Len(p) \in Nat /\ Len(r) \in Nat /\ Len(q) = Len(p) + Len(r) /\ \A k \in 1..Len(p) : q[k] = p[k]
    BY <2>5, ConcatPlaces DEF q
  <2>7. Len(ss[1]) \in Nat
    <3>1. ss[1] \in Seq(S)
      BY <1>2, <1>6
    <3> QED
      BY <3>1
  <2>8. Begins(q)
    BY <2>5, <2>6, <2>7 DEF Begins
  <2> QED
    BY <2>5, <2>8
<1>9. Len(ss) - 1 \in Have
  <2> HIDE DEF Have
  <2> QED
    BY <1>6, <1>7, <1>8, NatInduct
<1> HIDE DEF Begins
<1>10. Begins(f[Len(ss)])
  <2>1. (Len(ss) - 1) + 1 = Len(ss) /\ Len(ss) <= Len(ss)
    BY <1>1
  <2> QED
    BY <1>9, <2>1
<1> QED
  BY <1>5, <1>10 DEF Begins

\* Min and Max of a set of places are its least and its greatest member.
LEMMA MinMax ==
  ASSUME NEW n \in Nat, NEW I \in SUBSET (1..n), I # {}
  PROVE  /\ Min(I) \in I /\ \A i \in I : Min(I) <= i
         /\ Max(I) \in I /\ \A i \in I : i <= Max(I)
<1>1. \E i \in I : \A j \in I : i <= j
  BY LeastNumber
<1>2. \E i \in I : \A j \in I : i >= j
  <2> DEFINE D == {n - i : i \in I}
  <2>1. D \in SUBSET Nat /\ D # {}
    <3>1. \A i \in I : n - i \in Nat
      OBVIOUS
    <3>2. PICK i \in I : TRUE
      OBVIOUS
    <3>3. n - i \in D
      OBVIOUS
    <3> QED
      BY <3>1, <3>3
  <2>2. PICK d \in D : \A e \in D : d <= e
    <3> HIDE DEF D
    <3> QED
      BY <2>1, LeastNumber
  <2>3. PICK i \in I : d = n - i
    OBVIOUS
  <2>4. \A j \in I : n - i <= n - j
    BY <2>2, <2>3
  <2> QED
    BY <2>4
<1> QED
  BY <1>1, <1>2 DEF Min, Max

\* The place SelectInSeq and SelectLastInSeq return is 0 or one of the sequence.
LEMMA FoundPlace ==
  ASSUME NEW n \in Nat, NEW I \in SUBSET (1..n)
  PROVE  /\ (IF I # {} THEN Min(I) ELSE 0) \in 0..n
         /\ (IF I # {} THEN Max(I) ELSE 0) \in 0..n
<1>1. CASE I = {}
  BY <1>1
<1>2. CASE I # {}
  <2>1. Min(I) \in 1..n /\ Max(I) \in 1..n
    BY <1>2, MinMax
  <2> QED
    BY <1>2, <2>1
<1> QED
  BY <1>1, <1>2

\* Append keeps what was there and adds one element at the end.
LEMMA AppendIsSeq ==
  ASSUME NEW s, IsSeq(s), NEW x
  PROVE  /\ IsSeq(Append(s, x)) /\ Len(Append(s, x)) = Len(s) + 1
         /\ \A i \in 1..Len(s) : Append(s, x)[i] = s[i]
         /\ Append(s, x)[Len(s) + 1] = x
         /\ ToSet(Append(s, x)) = ToSet(s) \cup {x}
<1> DEFINE S == ToSet(s) \cup {x}
           a == Append(s, x)
<1>1. s \in Seq(S) /\ x \in S
  BY DEF IsSeq
<1> HIDE DEF S
<1>2. /\ a \in Seq(S) /\ Len(a) = Len(s) + 1 /\ Len(s) \in Nat /\ a[Len(s) + 1] = x
      /\ \A i \in 1..Len(s) : a[i] = s[i]
  BY <1>1
<1>3. IsSeq(a)
  <2> HIDE DEF a
  <2> QED
    BY <1>2, IsSeqIntro
<1>4. ToSet(a) = ToSet(s) \cup {x}
  <2>1. DOMAIN a = 1..(Len(s) + 1) /\ DOMAIN s = 1..Len(s)
    BY <1>1, <1>2
  <2>2. \A i \in DOMAIN a : a[i] \in ToSet(s) \cup {x}
    <3> HIDE DEF a
    <3> QED
      BY <1>2, <2>1 DEF ToSet
  <2>3. x \in ToSet(a) /\ \A i \in DOMAIN s : s[i] \in ToSet(a)
    <3> HIDE DEF a
    <3>1. Len(s) + 1 \in DOMAIN a /\ \A i \in DOMAIN s : i \in DOMAIN a
      BY <1>2, <2>1
    <3> QED
      BY <1>2, <2>1, <3>1 DEF ToSet
  <2> HIDE DEF a
  <2> QED
    BY <2>2, <2>3 DEF ToSet
<1> QED
  BY <1>2, <1>3, <1>4

\* Front keeps all but the last element.
LEMMA FrontIsSeq ==
  ASSUME NEW s, IsSeq(s), s # <<>>
  PROVE  /\ Len(s) \in Nat \ {0} /\ Last(s) = s[Len(s)]
         /\ IsSeq(Front(s)) /\ Len(Front(s)) = Len(s) - 1
         /\ \A i \in 1..(Len(s) - 1) : Front(s)[i] = s[i]
<1>1. s \in Seq(ToSet(s))
  BY DEF IsSeq
<1>2. Len(s) \in Nat \ {0}
  BY <1>1
<1> DEFINE S == ToSet(s)
           n == Len(s) - 1
           f == SubSeq(s, 1, n)
<1>3. Front(s) = f
  BY DEF Front
<1>4. f \in Seq(S) /\ Len(f) = n /\ \A i \in 1..n : f[i] = s[i]
  <2>1. s \in Seq(S) /\ n \in Nat /\ n <= Len(s)
    BY <1>1, <1>2
  <2> HIDE DEF S, n
  <2>2. Len(f) = n
    BY <2>1
  <2>3. \A i \in 1..n : f[i] = s[i]
    BY <2>1
  <2>4. f \in Seq(S)
    BY <2>1
  <2> QED
    BY <2>2, <2>3, <2>4
<1> HIDE DEF f
<1> QED
  BY <1>2, <1>3, <1>4, IsSeqIntro DEF Last

\* Tail keeps all but the first element.
LEMMA TailIsSeq ==
  ASSUME NEW s, IsSeq(s), s # <<>>
  PROVE  /\ Len(s) \in Nat \ {0} /\ IsSeq(Tail(s)) /\ Len(Tail(s)) = Len(s) - 1
         /\ Head(s) = s[1] /\ \A i \in 1..(Len(s) - 1) : Tail(s)[i] = s[i + 1]
         /\ ToSet(s) = {Head(s)} \cup ToSet(Tail(s))
<1>1. s \in Seq(ToSet(s))
  BY DEF IsSeq
<1>2. Len(s) \in Nat \ {0} /\ DOMAIN s = 1..Len(s)
  BY <1>1
<1>3. /\ Tail(s) \in Seq(ToSet(s)) /\ Len(Tail(s)) = Len(s) - 1 /\ Head(s) = s[1]
      /\ \A i \in 1..(Len(s) - 1) : Tail(s)[i] = s[i + 1]
  BY <1>1, <1>2
<1>4. DOMAIN Tail(s) = 1..(Len(s) - 1)
  BY <1>3
<1>5. ToSet(s) = {Head(s)} \cup ToSet(Tail(s))
  <2>1. ASSUME NEW i \in DOMAIN s PROVE s[i] \in {Head(s)} \cup ToSet(Tail(s))
    <3>1. CASE i = 1
      BY <3>1, <1>3
    <3>2. CASE i # 1
      <4>1. i - 1 \in DOMAIN Tail(s) /\ Tail(s)[i - 1] = s[i]
        BY <3>2, <1>2, <1>3, <1>4
      <4> QED
        BY <4>1 DEF ToSet
    <3> QED
      BY <3>1, <3>2
  <2>2. ASSUME NEW i \in DOMAIN Tail(s) PROVE Tail(s)[i] \in ToSet(s)
    <3>1. i + 1 \in DOMAIN s /\ Tail(s)[i] = s[i + 1]
      BY <1>2, <1>3, <1>4
    <3> QED
      BY <3>1 DEF ToSet
  <2>3. Head(s) \in ToSet(s)
    BY <1>2, <1>3 DEF ToSet
  <2> QED
    BY <2>1, <2>2, <2>3 DEF ToSet
<1> QED
  BY <1>2, <1>3, <1>5, IsSeqIntro

\* The empty sequence holds nothing.
LEMMA EmptyIsSeq == IsSeq(<<>>) /\ ToSet(<<>>) = {} /\ Len(<<>>) = 0
BY DEF IsSeq, ToSet

\* A sequence of one element holds that one.
LEMMA SingletonIsSeq ==
  ASSUME NEW x
  PROVE  IsSeq(<<x>>) /\ ToSet(<<x>>) = {x} /\ Len(<<x>>) = 1 /\ <<x>>[1] = x
BY DEF IsSeq, ToSet

\* A sequence of two elements holds those two.
LEMMA PairIsSeq ==
  ASSUME NEW x, NEW y
  PROVE  IsSeq(<<x, y>>) /\ ToSet(<<x, y>>) = {x, y}
<1> DEFINE s == <<x, y>>
<1>1. s \in Seq({x, y}) /\ DOMAIN s = 1..2 /\ s[1] = x /\ s[2] = y
  OBVIOUS
<1> HIDE DEF s
<1>2. ToSet(s) = {x, y}
  BY <1>1 DEF ToSet
<1> QED
  BY <1>1, <1>2 DEF s, IsSeq

\* A part of a sequence holds nothing the sequence did not hold.
LEMMA SubSeqIsSeq ==
  ASSUME NEW s, IsSeq(s), NEW m \in Nat \ {0}, NEW n \in 0..Len(s)
  PROVE  IsSeq(SubSeq(s, m, n)) /\ ToSet(SubSeq(s, m, n)) \subseteq ToSet(s)
<1> DEFINE S == ToSet(s)
           f == SubSeq(s, m, n)
<1>1. s \in Seq(S)
  BY DEF IsSeq
<1>2. f \in Seq(S)
  <2> HIDE DEF S
  <2> QED
    BY <1>1
<1> HIDE DEF S, f
<1>3. ToSet(f) \subseteq S
  BY <1>2 DEF ToSet
<1> QED
  BY <1>2, <1>3, IsSeqIntro DEF f, S

\* A path without the slashes at its end is a path,
LEMMA RStripIsSeq ==
  ASSUME NEW p, IsSeq(p)
  PROVE  IsSeq(RStrip(p))
<1> DEFINE I == {i \in 1..Len(p) : p[i] # Empty}
           last == SelectLastInSeq(p, LAMBDA s : s # Empty)
<1>1. last = IF I # {} THEN Max(I) ELSE 0
  BY DEF SelectLastInSeq
<1>2. I \in SUBSET (1..Len(p)) /\ Len(p) \in Nat
  BY SeqFacts
<1>3. RStrip(p) = SubSeq(p, 1, last)
  BY DEF RStrip
<1> HIDE DEF last, I
<1>4. last \in 0..Len(p)
  BY <1>1, <1>2, FoundPlace
<1> QED
  BY <1>3, <1>4, SubSeqIsSeq

\* and so is one without those at its start.
LEMMA StripIsSeq ==
  ASSUME NEW p, IsSeq(p)
  PROVE  IsSeq(Strip(p))
<1> DEFINE I == {i \in 1..Len(p) : p[i] # Empty}
           first == SelectInSeq(p, LAMBDA s : s # Empty)
           q == RStrip(p)
<1>1. first = IF I # {} THEN Min(I) ELSE 0
  BY DEF SelectInSeq
<1>2. I \in SUBSET (1..Len(p)) /\ Len(p) \in Nat
  BY SeqFacts
<1>3. Strip(p) = IF first = 0 THEN <<>> ELSE SubSeq(q, first, Len(q))
  BY DEF Strip
<1>4. IsSeq(q) /\ Len(q) \in Nat
  BY RStripIsSeq, SeqFacts
<1> HIDE DEF first, q, I
<1>7. first \in Nat
  <2>1. first \in 0..Len(p)
    BY <1>1, <1>2, FoundPlace
  <2> QED
    BY <2>1, <1>2
<1>5. CASE first = 0
  BY <1>3, <1>5, EmptyIsSeq
<1>6. CASE first # 0
  <2>1. Len(q) \in 0..Len(q)
    BY <1>4
  <2> QED
    BY <1>3, <1>4, <1>6, <1>7, <2>1, SubSeqIsSeq
<1> QED
  BY <1>5, <1>6

\* Two sequences one after the other are empty only if both are.
LEMMA ConcatNotEmpty ==
  ASSUME NEW s, IsSeq(s), NEW t, IsSeq(t), s # <<>> \/ t # <<>>
  PROVE  s \o t # <<>>
<1> DEFINE S == ToSet(s) \cup ToSet(t)
<1>1. s \in Seq(S) /\ t \in Seq(S)
  BY DEF IsSeq
<1> HIDE DEF S
<1>2. Len(s \o t) = Len(s) + Len(t) /\ Len(s) \in Nat /\ Len(t) \in Nat
  BY <1>1
<1>3. Len(s) # 0 \/ Len(t) # 0
  BY <1>1
<1>4. Len(s \o t) # 0
  BY <1>2, <1>3
<1> QED
  BY <1>4

\* A path keeps a last segment however many slashes are collapsed.
LEMMA CollapseIsSeq ==
  ASSUME NEW p, IsSeq(p), p # <<>>
  PROVE  IsSeq(Collapse(p)) /\ Collapse(p) # <<>>
<1> DEFINE fr == Front(p)
           I == {i \in DOMAIN fr : fr[i] # Empty}
           kept == Picked(fr, I)
           tail == <<Last(p)>>
<1>1. Collapse(p) = kept \o tail
  BY DEF Collapse, Filter
<1>2. IsSeq(fr)
  BY FrontIsSeq
<1>3. IsSeq(tail) /\ tail # <<>>
  BY SingletonIsSeq
<1> HIDE DEF fr, tail
<1>4. IsSeq(kept)
  BY <1>2, PickedIsSeq
<1> HIDE DEF kept
<1> QED
  BY <1>1, <1>3, <1>4, ConcatIsSeq, ConcatNotEmpty

\* The places up to i are the place i and those up to i - 1.
LEMMA Interval ==
  ASSUME NEW i \in Nat \ {0}
  PROVE  Max(1..i) = i /\ (1..i) \ {i} = 1..(i - 1) /\ 1..i # {}
<1>1. i \in 1..i
  OBVIOUS
<1>2. Max(1..i) \in 1..i /\ i <= Max(1..i)
  BY <1>1, MinMax
<1> QED
  BY <1>2

\* Folding over the places 1..(m + 1) is folding over 1..m but for the last.
LEMMA LastPlace ==
  ASSUME NEW m \in Nat, NEW t \in SUBSET (1..(m + 1)), t # {}
  PROVE  /\ Max(t) \in t /\ t \ {Max(t)} \in SUBSET (1..m)
         /\ m + 1 \in t => Max(t) = m + 1
         /\ m + 1 \notin t => t \in SUBSET (1..m)
<1> DEFINE n == m + 1
           x == Max(t)
<1>1. n \in Nat /\ t \in SUBSET (1..n)
  OBVIOUS
<1>2. x \in t /\ \A i \in t : i <= x
  <2> HIDE DEF n
  <2> QED
    BY <1>1, MinMax
<1> HIDE DEF x
<1>3. \A i \in t : i \in Nat /\ 1 <= i /\ i <= m + 1
  OBVIOUS
<1>4. m + 1 \in t => x = m + 1
  BY <1>2, <1>3
<1>5. ASSUME NEW i \in t, i # x PROVE i \in 1..m
  BY <1>2, <1>3, <1>5
<1>6. m + 1 \notin t => t \in SUBSET (1..m)
  BY <1>3
<1> QED
  BY <1>2, <1>4, <1>5, <1>6 DEF x

\* An injection q of 1..m into 1..n.
Injects(q, m, n) ==
    (\A k \in 1..m : q[k] \in 1..n) /\ \A k, l \in 1..m : q[k] = q[l] => k = l

\* m different numbers up to n are at most n.
LEMMA Pigeons ==
  ASSUME NEW n \in Nat, NEW m \in Nat, NEW q, Injects(q, m, n)
  PROVE  m <= n
<1> DEFINE Have == {u \in Nat : \A v \in Nat : \A h \in [1..v -> 1..u] : Injects(h, v, u) => v <= u}
<1>1. 0 \in Have
  BY DEF Injects
<1>2. ASSUME NEW u \in Nat, u \in Have PROVE u + 1 \in Have
  <2> SUFFICES ASSUME NEW v \in Nat, NEW h \in [1..v -> 1..(u + 1)], Injects(h, v, u + 1)
               PROVE  v <= u + 1
    BY DEF Injects
  <2>1. CASE v = 0
    BY <2>1
  <2>2. CASE v # 0
    <3> DEFINE g == [k \in 1..(v - 1) |-> IF h[k] = u + 1 THEN h[v] ELSE h[k]]
    <3>1. v - 1 \in Nat /\ v \in 1..v /\ \A k \in 1..(v - 1) : k \in 1..v /\ k # v
      BY <2>2
    <3>2. \A k \in 1..(v - 1) : h[k] \in 1..(u + 1) /\ h[v] \in 1..(u + 1) /\ h[k] # h[v]
      BY <3>1 DEF Injects
    <3>3. \A k \in 1..(v - 1) : g[k] \in 1..u
      BY <3>2
    <3>4. ASSUME NEW k \in 1..(v - 1), NEW l \in 1..(v - 1), g[k] = g[l] PROVE k = l
      <4>1. h[k] = h[l]
        BY <3>2, <3>4
      <4> QED
        BY <3>1, <4>1 DEF Injects
    <3>5. g \in [1..(v - 1) -> 1..u]
      BY <3>3
    <3> HIDE DEF g
    <3>6. v - 1 <= u
      BY <1>2, <3>1, <3>3, <3>4, <3>5 DEF Injects
    <3> QED
      BY <3>6
  <2> QED
    BY <2>1, <2>2
<1>3. n \in Have
  <2> HIDE DEF Have
  <2> QED
    BY <1>1, <1>2, NatInduct
<1> DEFINE p == [k \in 1..m |-> q[k]]
<1>4. p \in [1..m -> 1..n] /\ Injects(p, m, n)
  BY DEF Injects
<1> HIDE DEF p
<1> QED
  BY <1>3, <1>4

\* Of several lists one after the other there are as many elements as places in
\* the lists: different places, each given by a list and a place in it, are at most as many.
LEMMA PlacesCounted ==
  ASSUME NEW ss, IsSeq(ss), \A i \in DOMAIN ss : IsSeq(ss[i]), NEW h, IsSeq(h),
         \A k, l \in DOMAIN h : h[k] = h[l] => k = l,
         \A k \in DOMAIN h : \E f \in DOMAIN ss : \E i \in DOMAIN ss[f] : h[k] = <<f, i>>
  PROVE  Len(FlattenSeq(ss)) \in Nat /\ Len(h) <= Len(FlattenSeq(ss))
<1> DEFINE S == UNION {ToSet(ss[i]) : i \in DOMAIN ss}
           n == Len(ss)
<1>1. ss = [i \in 1..n |-> ss[i]] /\ n \in Nat /\ DOMAIN ss = 1..n
  BY SeqFacts
<1>2. \A i \in DOMAIN ss : ss[i] \in Seq(S) /\ Len(ss[i]) \in Nat /\ DOMAIN ss[i] = 1..Len(ss[i])
  <2> SUFFICES ASSUME NEW i \in 1..n
               PROVE  ss[i] \in Seq(S) /\ Len(ss[i]) \in Nat /\ DOMAIN ss[i] = 1..Len(ss[i])
    BY <1>1
  <2>1. ss[i] \in Seq(ToSet(ss[i])) /\ ToSet(ss[i]) \subseteq S
    BY <1>1 DEF IsSeq
  <2> HIDE DEF S
  <2>2. ss[i] \in Seq(S)
    BY <2>1
  <2> QED
    BY <2>2
<1>3. ss \in Seq(Seq(S))
  <2> HIDE DEF S
  <2> QED
    BY <1>1, <1>2
<1> HIDE DEF S
<1>4. PICK fl \in [0..n -> Seq(S)] : Flattens(fl, ss)
  BY <1>3, FlattensExist
<1>5. FlattenSeq(ss) = fl[n]
  BY <1>3, <1>4, FlattenValue
<1> DEFINE off == [m \in 0..n |-> Len(fl[m])]
<1>6. /\ \A m \in 0..n : off[m] \in Nat
      /\ \A m \in 1..n : off[m] = off[m - 1] + Len(ss[m])
      /\ off[n] = Len(FlattenSeq(ss))
  <2>1. \A m \in 0..n : fl[m] \in Seq(S)
    BY <1>4
  <2>2. ASSUME NEW m \in 1..n PROVE off[m] = off[m - 1] + Len(ss[m])
    <3>1. m - 1 \in 0..n /\ m \in 0..n /\ fl[m] = fl[m - 1] \o ss[m]
      BY <1>1, <1>4 DEF Flattens
    <3>2. fl[m - 1] \in Seq(S) /\ ss[m] \in Seq(S)
      BY <1>1, <1>2, <2>1, <3>1
    <3>3. Len(fl[m]) = Len(fl[m - 1]) + Len(ss[m])
      BY <3>1, <3>2
    <3> QED
      BY <3>1, <3>3
  <2>3. ASSUME NEW m \in 0..n PROVE off[m] \in Nat
    <3>1. off[m] = Len(fl[m]) /\ fl[m] \in Seq(S)
      BY <2>1
    <3> QED
      BY <3>1
  <2>4. off[n] = Len(FlattenSeq(ss))
    <3>1. n \in 0..n
      BY <1>1
    <3> QED
      BY <1>5, <3>1
  <2> HIDE DEF off, n
  <2> QED
    BY <2>2, <2>3, <2>4
<1> HIDE DEF off, n
<1>7. \A a \in 0..n, b \in 0..n : a <= b => off[a] <= off[b]
  <2> DEFINE Have == {b \in Nat : b <= n => \A a \in 0..b : off[a] <= off[b]}
  <2>1. 0 \in Have
    BY <1>1, <1>6
  <2>2. ASSUME NEW b \in Nat, b \in Have PROVE b + 1 \in Have
    <3> SUFFICES ASSUME b + 1 <= n, NEW a \in 0..(b + 1) PROVE off[a] <= off[b + 1]
      OBVIOUS
    <3>1. b + 1 \in 1..n /\ (b + 1) - 1 = b /\ b \in 0..n
      BY <1>1
    <3>2. off[b + 1] = off[b] + Len(ss[b + 1]) /\ Len(ss[b + 1]) \in Nat /\ off[b] \in Nat
      BY <1>1, <1>2, <1>6, <3>1
    <3>3. CASE a = b + 1
      BY <3>2, <3>3
    <3>4. CASE a \in 0..b
      <4>1. off[a] <= off[b] /\ off[a] \in Nat
        BY <1>1, <1>6, <2>2, <3>1, <3>4
      <4> QED
        BY <3>2, <4>1
    <3> QED
      BY <3>3, <3>4
  <2>3. Nat \subseteq Have
    <3> HIDE DEF Have
    <3> QED
      BY <2>1, <2>2, NatInduct
  <2> QED
    BY <1>1, <2>3
<1> DEFINE q == [k \in 1..Len(h) |-> off[h[k][1] - 1] + h[k][2]]
<1>8. Len(h) \in Nat /\ DOMAIN h = 1..Len(h)
  BY SeqFacts
<1>9. ASSUME NEW f \in 1..n, NEW i \in DOMAIN ss[f]
      PROVE  /\ f - 1 \in 0..n /\ f \in 0..n /\ i \in Nat
             /\ off[f - 1] + i \in 1..off[n] /\ off[f - 1] < off[f - 1] + i /\ off[f - 1] + i <= off[f]
  <2> HIDE DEF q
  <2>1. i \in 1..Len(ss[f]) /\ Len(ss[f]) \in Nat
    BY <1>1, <1>2
  <2>2. f - 1 \in 0..n /\ f \in 0..n /\ n \in 0..n /\ f <= n
    BY <1>1
  <2>3. PICK a \in Nat, b \in Nat, z \in Nat : a = off[f - 1] /\ b = off[f] /\ z = off[n]
    BY <1>6, <2>2
  <2>4. b <= z
    BY <1>7, <2>2, <2>3
  <2>5. b = a + Len(ss[f])
    BY <1>6, <2>3
  <2>6. i \in Nat /\ a + i \in 1..z /\ a < a + i /\ a + i <= b
    BY <2>1, <2>4, <2>5
  <2> QED
    BY <2>2, <2>3, <2>6
<1>10. ASSUME NEW k \in 1..Len(h), NEW l \in 1..Len(h), q[k] = q[l] PROVE k = l
  <2>1. PICK f \in 1..n : \E i \in DOMAIN ss[f] : h[k] = <<f, i>>
    BY <1>1, <1>8
  <2>2. PICK i \in DOMAIN ss[f] : h[k] = <<f, i>>
    BY <2>1
  <2>3. PICK g \in 1..n : \E j \in DOMAIN ss[g] : h[l] = <<g, j>>
    BY <1>1, <1>8
  <2>4. PICK j \in DOMAIN ss[g] : h[l] = <<g, j>>
    BY <2>3
  <2>5. q[k] = off[f - 1] + i /\ q[l] = off[g - 1] + j
    BY <2>2, <2>4
  <2> HIDE DEF q
  <2>6. /\ f - 1 \in 0..n /\ f \in 0..n /\ off[f - 1] < off[f - 1] + i /\ off[f - 1] + i <= off[f]
        /\ i \in Nat
    BY <1>9
  <2>7. /\ g - 1 \in 0..n /\ g \in 0..n /\ off[g - 1] < off[g - 1] + j /\ off[g - 1] + j <= off[g]
        /\ j \in Nat
    BY <1>9
  <2>8. PICK a \in Nat, b \in Nat : a = off[f - 1] /\ b = off[f]
    BY <1>6, <2>6
  <2>9. PICK c \in Nat, d \in Nat : c = off[g - 1] /\ d = off[g]
    BY <1>6, <2>7
  <2>10. a + i = c + j /\ a < a + i /\ a + i <= b /\ c < c + j /\ c + j <= d
    BY <1>10, <2>5, <2>6, <2>7, <2>8, <2>9
  <2>11. ~(f < g)
    <3> SUFFICES ASSUME f < g PROVE FALSE
      OBVIOUS
    <3>1. f <= g - 1
      BY <1>1
    <3>2. b <= c
      BY <1>7, <2>6, <2>7, <2>8, <2>9, <3>1
    <3>3. i \in Nat /\ j \in Nat
      BY <2>6, <2>7
    <3> QED
      BY <2>10, <3>2, <3>3
  <2>12. ~(g < f)
    <3> SUFFICES ASSUME g < f PROVE FALSE
      OBVIOUS
    <3>1. g <= f - 1
      BY <1>1
    <3>2. d <= a
      BY <1>7, <2>6, <2>7, <2>8, <2>9, <3>1
    <3>3. i \in Nat /\ j \in Nat
      BY <2>6, <2>7
    <3> QED
      BY <2>10, <3>2, <3>3
  <2>13. f = g
    BY <1>1, <2>11, <2>12
  <2>14. i = j
    <3>1. a = c
      BY <2>8, <2>9, <2>13
    <3>2. i \in Nat /\ j \in Nat
      BY <2>6, <2>7
    <3>3. a + i = c + j
      BY <2>10
    <3> QED
      BY <3>1, <3>2, <3>3
  <2> QED
    BY <1>8, <2>2, <2>4, <2>13, <2>14
<1>11. \A k \in 1..Len(h) : q[k] \in 1..off[n]
  <2> SUFFICES ASSUME NEW k \in 1..Len(h) PROVE q[k] \in 1..off[n]
    OBVIOUS
  <2>1. PICK f \in 1..n : \E i \in DOMAIN ss[f] : h[k] = <<f, i>>
    BY <1>1, <1>8
  <2>2. PICK i \in DOMAIN ss[f] : h[k] = <<f, i>>
    BY <2>1
  <2>3. q[k] = off[f - 1] + i
    BY <2>2
  <2> QED
    BY <1>9, <2>3
<1> HIDE DEF q
<1>12. off[n] \in Nat
  <2>1. n \in 0..n
    BY <1>1
  <2> QED
    BY <1>6, <2>1
<1>13. Injects(q, Len(h), off[n])
  BY <1>10, <1>11 DEF Injects
<1>14. Len(h) <= off[n]
  BY <1>8, <1>12, <1>13, Pigeons
<1> QED
  BY <1>6, <1>12, <1>14

\* Of two sequences in a row, each place is one of the first or of the second.
LEMMA ConcatCases ==
  ASSUME NEW s, IsSeq(s), NEW t, IsSeq(t), NEW i \in DOMAIN (s \o t)
  PROVE  \/ i \in DOMAIN s /\ (s \o t)[i] = s[i]
         \/ \E j \in DOMAIN t : i = Len(s) + j /\ (s \o t)[i] = t[j]
<1> DEFINE st == s \o t
<1>1. /\ Len(s) \in Nat /\ Len(t) \in Nat
      /\ DOMAIN s = 1..Len(s) /\ DOMAIN t = 1..Len(t)
      /\ DOMAIN st = 1..(Len(s) + Len(t))
      /\ \A j \in 1..Len(s) : st[j] = s[j]
      /\ \A j \in 1..Len(t) : st[Len(s) + j] = t[j]
  BY ConcatPlaces
<1>2. i \in DOMAIN st
  OBVIOUS
<1> HIDE DEF st
<1>3. CASE i <= Len(s)
  <2>1. i \in DOMAIN s /\ st[i] = s[i]
    BY <1>1, <1>2, <1>3
  <2> QED
    BY <2>1 DEF st
<1>4. CASE ~(i <= Len(s))
  <2>1. i - Len(s) \in DOMAIN t /\ i = Len(s) + (i - Len(s))
    BY <1>1, <1>2, <1>4
  <2>2. st[Len(s) + (i - Len(s))] = t[i - Len(s)]
    BY <1>1, <2>1
  <2>3. \E j \in DOMAIN t : i = Len(s) + j /\ st[i] = t[j]
    BY <2>1, <2>2
  <2> QED
    BY <2>3 DEF st
<1> QED
  BY <1>3, <1>4

\* Two sequences that hold nothing twice and share nothing hold nothing twice in
\* a row, be it names or the names of parameters.
LEMMA InjectiveConcat ==
  ASSUME NEW s, IsSeq(s), NEW t, IsSeq(t), IsInjective(s), IsInjective(t),
         \A a \in DOMAIN s : \A b \in DOMAIN t : s[a] # t[b]
  PROVE  IsInjective(s \o t)
<1> DEFINE st == s \o t
<1>1. ASSUME NEW i \in DOMAIN st, NEW j \in DOMAIN st, st[i] = st[j] PROVE i = j
  <2>1. \/ i \in DOMAIN s /\ st[i] = s[i]
        \/ \E a \in DOMAIN t : i = Len(s) + a /\ st[i] = t[a]
    BY ConcatCases
  <2>2. \/ j \in DOMAIN s /\ st[j] = s[j]
        \/ \E a \in DOMAIN t : j = Len(s) + a /\ st[j] = t[a]
    BY ConcatCases
  <2> HIDE DEF st
  <2> QED
    BY <1>1, <2>1, <2>2 DEF IsInjective
<1> QED
  BY <1>1 DEF IsInjective

-----------------------------------------------------------------------------
(* Paths without empty segments.                                           *)

\* What does not end in a slash is not stripped.
LEMMA RStripPlain ==
  ASSUME NEW p, IsSeq(p), p # <<>> => Last(p) # Empty
  PROVE  RStrip(p) = p
<1> DEFINE n == Len(p)
           I == {i \in 1..n : p[i] # Empty}
           k == IF I # {} THEN Max(I) ELSE 0
<1>1. n \in Nat /\ DOMAIN p = 1..n /\ p = [i \in 1..n |-> p[i]]
  BY SeqFacts
<1>2. RStrip(p) = SubSeq(p, 1, k)
  BY DEF RStrip, SelectLastInSeq
<1>3. k = n
  <2>1. CASE n = 0
    <3>1. I = {}
      BY <2>1
    <3> QED
      BY <2>1, <3>1
  <2>2. CASE n # 0
    <3>1. p # <<>>
      BY <2>2, EmptyIsSeq
    <3>2. n \in I /\ I \in SUBSET (1..n)
      BY <1>1, <2>2, <3>1 DEF Last
    <3> HIDE DEF I, n
    <3>3. Max(I) \in I /\ \A i \in I : i <= Max(I)
      BY <1>1, <3>2, MinMax
    <3>4. Max(I) \in 1..n /\ n <= Max(I)
      BY <3>2, <3>3
    <3>5. Max(I) = n
      BY <1>1, <3>4
    <3> QED
      BY <3>2, <3>5
  <2> QED
    BY <2>1, <2>2
<1> HIDE DEF k, I
<1>4. SubSeq(p, 1, n) = p
  <2>1. PICK S : p \in Seq(S)
    BY DEF IsSeq
  <2> QED
    BY <2>1
<1> QED
  BY <1>2, <1>3, <1>4

\* Sequences with the same elements at the same places are the same.
LEMMA SameSeq ==
  ASSUME NEW s, IsSeq(s), NEW t, IsSeq(t), Len(s) = Len(t), \A i \in 1..Len(s) : s[i] = t[i]
  PROVE  s = t
<1>1. s = [i \in 1..Len(s) |-> s[i]] /\ t = [i \in 1..Len(t) |-> t[i]]
  BY SeqFacts
<1> QED
  BY <1>1

\* Picking every place changes nothing.
LEMMA PickedAll ==
  ASSUME NEW s, IsSeq(s)
  PROVE  Picked(s, DOMAIN s) = s
<1>1. PICK S : s \in Seq(S)
  BY DEF IsSeq
<1> DEFINE f == [i \in 0..Len(s) |-> SubSeq(s, 1, i)]
<1>2. Len(s) \in Nat /\ DOMAIN s = 1..Len(s)
  BY <1>1
<1>3. \A i \in 0..Len(s) : f[i] \in Seq(S)
  BY <1>1, <1>2
<1>4. f \in [0..Len(s) -> Seq(S)]
  BY <1>3
<1>5. f[0] = <<>>
  BY <1>1, <1>2
<1>6. ASSUME NEW i \in 1..Len(s) PROVE f[i] = Append(f[i - 1], s[i])
  <2> DEFINE a == SubSeq(s, 1, i - 1)
             b == SubSeq(s, 1, i)
  <2>1. i - 1 \in 0..Len(s) /\ i \in 0..Len(s)
    BY <1>2
  <2>2. a \in Seq(S) /\ Len(a) = i - 1 /\ \A j \in 1..(i - 1) : a[j] = s[j]
    BY <1>1, <1>2, <2>1
  <2>3. b \in Seq(S) /\ Len(b) = i /\ \A j \in 1..i : b[j] = s[j]
    BY <1>1, <1>2, <2>1
  <2>4. f[i] = b /\ f[i - 1] = a
    BY <2>1
  <2> HIDE DEF a, b, f
  <2>5. IsSeq(a) /\ IsSeq(b)
    BY <2>2, <2>3, IsSeqIntro
  <2> DEFINE c == Append(a, s[i])
  <2>6. IsSeq(c) /\ Len(c) = Len(a) + 1 /\ c[Len(a) + 1] = s[i] /\ \A j \in 1..Len(a) : c[j] = a[j]
    BY <2>5, AppendIsSeq
  <2> HIDE DEF c
  <2>7. \A j \in 1..Len(b) : b[j] = c[j]
    BY <1>2, <2>2, <2>3, <2>6
  <2>8. b = c
    BY <1>2, <2>2, <2>3, <2>5, <2>6, <2>7, SameSeq
  <2> QED
    BY <2>4, <2>8 DEF c
<1>7. Picks(f, s, DOMAIN s)
  BY <1>2, <1>5, <1>6 DEF Picks
<1>8. f[Len(s)] = s
  BY <1>1, <1>2
<1> HIDE DEF f
<1>9. DOMAIN s \in SUBSET DOMAIN s
  OBVIOUS
<1> QED
  BY <1>1, <1>4, <1>7, <1>8, <1>9, PickedValue

\* A path without empty segments, and one that has none but at its end.
Plain(p) == IsSeq(p) /\ \A i \in 1..Len(p) : p[i] # Empty
PlainToEnd(p)  == IsSeq(p) /\ p # <<>> /\ \A i \in 1..(Len(p) - 1) : p[i] # Empty
Bare(p)  == IF Last(p) = Empty THEN Front(p) ELSE p

\* All but the last and the last are all.
LEMMA FrontLast ==
  ASSUME NEW p, IsSeq(p), p # <<>>
  PROVE  Front(p) \o <<Last(p)>> = p
<1>1. /\ Len(p) \in Nat \ {0} /\ Last(p) = p[Len(p)] /\ IsSeq(Front(p)) /\ Len(Front(p)) = Len(p) - 1
      /\ \A i \in 1..(Len(p) - 1) : Front(p)[i] = p[i]
  BY FrontIsSeq
<1> DEFINE fr == Front(p)
           la == <<Last(p)>>
           q == fr \o la
<1>2. IsSeq(la) /\ Len(la) = 1 /\ la[1] = Last(p)
  BY SingletonIsSeq
<1> HIDE DEF fr, la
<1>3. IsSeq(q)
  BY <1>1, <1>2, ConcatIsSeq DEF fr
<1>4. /\ Len(q) = Len(fr) + Len(la)
      /\ \A i \in 1..Len(fr) : q[i] = fr[i]
      /\ \A i \in 1..Len(la) : q[Len(fr) + i] = la[i]
  BY <1>1, <1>2, ConcatPlaces DEF fr
<1> HIDE DEF q
<1>5. Len(q) = Len(p)
  BY <1>1, <1>2, <1>4 DEF fr
<1>6. ASSUME NEW i \in 1..Len(q) PROVE q[i] = p[i]
  <2>1. CASE i = Len(p)
    <3>1. q[Len(fr) + 1] = la[1]
      BY <1>2, <1>4
    <3> QED
      BY <1>1, <1>2, <2>1, <3>1 DEF fr
  <2>2. CASE i # Len(p)
    <3>1. i \in 1..(Len(p) - 1)
      BY <1>1, <1>5, <2>2
    <3> QED
      BY <1>1, <1>4, <3>1 DEF fr
  <2> QED
    BY <2>1, <2>2
<1>7. q = p
  BY <1>3, <1>5, <1>6, SameSeq
<1> QED
  BY <1>7 DEF q, fr, la

\* What BareFacts says of such a path: stripped it is bare, and collapsed as it is.
LEMMA BareFacts ==
  ASSUME NEW p, PlainToEnd(p)
  PROVE  /\ Plain(Bare(p)) /\ RStrip(p) = Bare(p)
         /\ p = IF Last(p) = Empty THEN Bare(p) \o Root ELSE Bare(p)
<1>1. /\ Len(p) \in Nat \ {0} /\ Last(p) = p[Len(p)] /\ IsSeq(Front(p)) /\ Len(Front(p)) = Len(p) - 1
      /\ \A i \in 1..(Len(p) - 1) : Front(p)[i] = p[i]
  BY FrontIsSeq DEF PlainToEnd
<1>2. CASE Last(p) # Empty
  <2>1. Plain(p)
    BY <1>1, <1>2 DEF Plain, PlainToEnd
  <2>2. RStrip(p) = p
    BY <1>2, RStripPlain DEF PlainToEnd
  <2> QED
    BY <1>2, <2>1, <2>2 DEF Bare
<1>3. CASE Last(p) = Empty
  <2>1. Plain(Front(p))
    BY <1>1 DEF Plain, PlainToEnd
  <2> DEFINE n == Len(p)
             I == {i \in 1..n : p[i] # Empty}
             k == IF I # {} THEN Max(I) ELSE 0
  <2>2. DOMAIN p = 1..n
    BY SeqFacts DEF PlainToEnd
  <2>3. RStrip(p) = SubSeq(p, 1, k)
    BY <2>2 DEF RStrip, SelectLastInSeq
  <2>4. I = 1..(n - 1)
    <3>1. \A i \in 1..(n - 1) : i \in I
      BY <1>1 DEF PlainToEnd
    <3>2. \A i \in I : i \in 1..n /\ i # n
      BY <1>1, <1>3
    <3> HIDE DEF I
    <3>3. \A i \in I : i \in 1..(n - 1)
      BY <1>1, <3>2
    <3> QED
      BY <3>1, <3>3
  <2>5. k = n - 1
    <3>1. CASE n = 1
      BY <2>4, <3>1
    <3>2. CASE n # 1
      <4>1. n - 1 \in Nat \ {0}
        BY <1>1, <3>2
      <4> HIDE DEF n, I
      <4>2. Max(1..(n - 1)) = n - 1 /\ 1..(n - 1) # {}
        BY <4>1, Interval
      <4> QED
        BY <2>4, <4>2
    <3> QED
      BY <3>1, <3>2
  <2>6. Front(p) = SubSeq(p, 1, n - 1)
    BY DEF Front
  <2> HIDE DEF n, I, k
  <2>7. RStrip(p) = Front(p)
    BY <2>3, <2>5, <2>6
  <2>8. Front(p) \o <<Last(p)>> = p
    BY FrontLast DEF PlainToEnd
  <2> QED
    BY <1>3, <2>1, <2>7, <2>8 DEF Bare, Root
<1> QED
  BY <1>2, <1>3

\* A path without empty segments but at its end has no slashes to collapse.
LEMMA CollapseStays ==
  ASSUME NEW p, PlainToEnd(p)
  PROVE  Collapse(p) = p
<1> DEFINE fr == Front(p)
<1>1. /\ IsSeq(fr) /\ Len(fr) = Len(p) - 1 /\ \A i \in 1..(Len(p) - 1) : fr[i] = p[i]
  BY FrontIsSeq DEF PlainToEnd
<1>2. fr \o <<Last(p)>> = p
  BY FrontLast DEF PlainToEnd
<1>3. Collapse(p) = Picked(fr, {i \in DOMAIN fr : fr[i] # Empty}) \o <<Last(p)>>
  BY DEF Collapse, Filter
<1> HIDE DEF fr
<1>4. {i \in DOMAIN fr : fr[i] # Empty} = DOMAIN fr
  <2>1. DOMAIN fr = 1..(Len(p) - 1)
    BY <1>1, SeqFacts
  <2> QED
    BY <1>1, <2>1 DEF PlainToEnd
<1>5. Picked(fr, DOMAIN fr) = fr
  BY <1>1, PickedAll
<1> QED
  BY <1>2, <1>3, <1>4, <1>5

\* Of a path that starts with a text no slash is stripped at the start.
LEMMA StripToEnd ==
  ASSUME NEW p, PlainToEnd(p)
  PROVE  Strip(p) = Bare(p)
<1> DEFINE first == SelectInSeq(p, LAMBDA s : s # Empty)
           r == RStrip(p)
<1>1. Len(p) \in Nat \ {0} /\ DOMAIN p = 1..Len(p) /\ Last(p) = p[Len(p)]
  BY FrontIsSeq, SeqFacts DEF PlainToEnd
<1>2. r = Bare(p) /\ Plain(r)
  BY BareFacts
<1>3. Strip(p) = IF first = 0 THEN <<>> ELSE SubSeq(r, first, Len(r))
  BY DEF Strip
<1> DEFINE I == {i \in 1..Len(p) : p[i] # Empty}
<1>4. first = IF I # {} THEN Min(I) ELSE 0
  BY <1>1 DEF SelectInSeq
<1>5. CASE p[1] # Empty
  <2>1. 1 \in I /\ I \in SUBSET (1..Len(p))
    BY <1>1, <1>5
  <2> HIDE DEF I, first
  <2>2. Min(I) \in I /\ \A i \in I : Min(I) <= i
    BY <1>1, <2>1, MinMax
  <2>3. Min(I) \in Nat \ {0} /\ Min(I) <= 1
    <3> DEFINE least == Min(I)
    <3>1. least \in 1..Len(p) /\ least <= 1
      BY <2>1, <2>2
    <3> HIDE DEF least
    <3>2. least \in Nat \ {0}
      BY <1>1, <3>1
    <3> QED
      BY <3>1, <3>2 DEF least
  <2>4. first = 1
    BY <1>4, <2>1, <2>3
  <2>5. SubSeq(r, 1, Len(r)) = r
    <3>1. PICK S : r \in Seq(S)
      BY <1>2 DEF Plain, IsSeq
    <3> HIDE DEF r
    <3> QED
      BY <3>1
  <2> HIDE DEF r
  <2> QED
    BY <1>2, <1>3, <2>4, <2>5
<1>6. CASE p[1] = Empty
  <2>1. Len(p) = 1
    BY <1>1, <1>6 DEF PlainToEnd
  <2>2. I = {}
    BY <1>6, <2>1
  <2> HIDE DEF I, first
  <2>3. Strip(p) = <<>>
    BY <1>3, <1>4, <2>2
  <2>4. Len(Front(p)) = 0 /\ IsSeq(Front(p))
    BY <2>1, FrontIsSeq DEF PlainToEnd
  <2>5. Front(p) = <<>>
    BY <2>4, EmptyIsSeq, SameSeq
  <2> QED
    BY <1>1, <1>6, <2>1, <2>3, <2>5 DEF Bare
<1> QED
  BY <1>5, <1>6

\* Appending is associative,
LEMMA ConcatAssoc ==
  ASSUME NEW a, IsSeq(a), NEW b, IsSeq(b), NEW c, IsSeq(c)
  PROVE  (a \o b) \o c = a \o (b \o c)
<1> DEFINE ab == a \o b
           bc == b \o c
           l  == ab \o c
           r  == a \o bc
<1>1. /\ IsSeq(ab) /\ IsSeq(bc) /\ Len(ab) = Len(a) + Len(b) /\ Len(bc) = Len(b) + Len(c)
      /\ Len(a) \in Nat /\ Len(b) \in Nat /\ Len(c) \in Nat
      /\ \A i \in 1..Len(a) : ab[i] = a[i]
      /\ \A i \in 1..Len(b) : ab[Len(a) + i] = b[i] /\ bc[i] = b[i]
      /\ \A i \in 1..Len(c) : bc[Len(b) + i] = c[i]
  BY ConcatIsSeq, ConcatPlaces
<1> HIDE DEF ab, bc
<1>2. /\ IsSeq(l) /\ IsSeq(r)
      /\ Len(l) = Len(ab) + Len(c) /\ Len(r) = Len(a) + Len(bc)
      /\ \A i \in 1..Len(ab) : l[i] = ab[i]
      /\ \A i \in 1..Len(c) : l[Len(ab) + i] = c[i]
      /\ \A i \in 1..Len(a) : r[i] = a[i]
      /\ \A i \in 1..Len(bc) : r[Len(a) + i] = bc[i]
  <2>1. IsSeq(ab) /\ IsSeq(bc)
    BY <1>1
  <2>2. IsSeq(l) /\ IsSeq(r)
    BY <2>1, ConcatIsSeq
  <2>3. /\ Len(l) = Len(ab) + Len(c)
        /\ \A i \in 1..Len(ab) : l[i] = ab[i]
        /\ \A i \in 1..Len(c) : l[Len(ab) + i] = c[i]
    BY <2>1, ConcatPlaces
  <2>4. /\ Len(r) = Len(a) + Len(bc)
        /\ \A i \in 1..Len(a) : r[i] = a[i]
        /\ \A i \in 1..Len(bc) : r[Len(a) + i] = bc[i]
    BY <2>1, ConcatPlaces
  <2> HIDE DEF l, r
  <2> QED
    BY <2>2, <2>3, <2>4
<1> HIDE DEF l, r
<1>3. Len(l) = Len(r)
  BY <1>1, <1>2
<1>4. ASSUME NEW i \in 1..Len(l) PROVE l[i] = r[i]
  <2>1. CASE i \in 1..Len(a)
    <3>1. i \in 1..Len(ab)
      BY <1>1, <2>1
    <3> QED
      BY <1>1, <1>2, <2>1, <3>1
  <2>2. CASE i > Len(a) /\ i <= Len(ab)
    <3>1. i - Len(a) \in 1..Len(b) /\ i - Len(a) \in 1..Len(bc) /\ i \in 1..Len(ab)
      BY <1>1, <1>2, <2>2
    <3>2. Len(a) + (i - Len(a)) = i
      BY <1>1
    <3>3. ab[i] = b[i - Len(a)] /\ r[i] = bc[i - Len(a)] /\ bc[i - Len(a)] = b[i - Len(a)]
      BY <1>1, <1>2, <3>1, <3>2
    <3> QED
      BY <1>2, <3>1, <3>3
  <2>3. CASE i > Len(ab)
    <3>1. /\ i - Len(ab) \in 1..Len(c) /\ i - Len(a) \in 1..Len(bc)
          /\ Len(ab) + (i - Len(ab)) = i /\ Len(a) + (i - Len(a)) = i
          /\ Len(b) + (i - Len(ab)) = i - Len(a)
      BY <1>1, <1>2, <2>3
    <3>2. l[i] = c[i - Len(ab)] /\ r[i] = bc[i - Len(a)]
      BY <1>2, <3>1
    <3>3. bc[i - Len(a)] = c[i - Len(ab)]
      BY <1>1, <3>1
    <3> QED
      BY <3>2, <3>3
  <2> QED
    BY <1>1, <1>2, <2>1, <2>2, <2>3
<1>5. l = r
  BY <1>2, <1>3, <1>4, SameSeq
<1> QED
  BY <1>5 DEF l, r, ab, bc

\* what was appended last is last,
LEMMA FrontOfConcat ==
  ASSUME NEW a, IsSeq(a), NEW x
  PROVE  /\ IsSeq(a \o <<x>>) /\ a \o <<x>> # <<>>
         /\ Front(a \o <<x>>) = a /\ Last(a \o <<x>>) = x
<1> DEFINE e == <<x>>
           q == a \o e
<1>1. IsSeq(e) /\ Len(e) = 1 /\ e[1] = x
  BY SingletonIsSeq
<1> HIDE DEF e
<1>2. /\ IsSeq(q) /\ Len(q) = Len(a) + 1 /\ Len(a) \in Nat
      /\ \A i \in 1..Len(a) : q[i] = a[i]
      /\ q[Len(a) + 1] = x
  <2>1. IsSeq(q)
    BY <1>1, ConcatIsSeq
  <2>2. /\ Len(q) = Len(a) + Len(e) /\ Len(a) \in Nat
        /\ \A i \in 1..Len(a) : q[i] = a[i]
        /\ \A i \in 1..Len(e) : q[Len(a) + i] = e[i]
    <3>1. IsSeq(e)
      BY <1>1
    <3> QED
      BY <3>1, ConcatPlaces
  <2> HIDE DEF q
  <2> QED
    BY <1>1, <2>1, <2>2
<1> HIDE DEF q
<1>3. q # <<>>
  BY <1>2, EmptyIsSeq
<1>4. IsSeq(Front(q)) /\ Len(Front(q)) = Len(q) - 1 /\ Last(q) = q[Len(q)]
      /\ \A i \in 1..(Len(q) - 1) : Front(q)[i] = q[i]
  BY <1>2, <1>3, FrontIsSeq
<1> DEFINE fr == Front(q)
<1>5. fr = a
  <2>1. IsSeq(fr) /\ Len(fr) = Len(a) /\ \A i \in 1..Len(fr) : fr[i] = a[i]
    BY <1>2, <1>4
  <2> HIDE DEF fr
  <2> QED
    BY <2>1, SameSeq
<1> QED
  BY <1>2, <1>3, <1>4, <1>5 DEF q, e

\* and texts without empty segments keep those of what is appended to them.
LEMMA PlainConcat ==
  ASSUME NEW a, Plain(a), NEW b, Plain(b)
  PROVE  Plain(a \o b)
<1> DEFINE q == a \o b
<1>1. /\ IsSeq(q) /\ Len(q) = Len(a) + Len(b) /\ Len(a) \in Nat /\ Len(b) \in Nat
      /\ \A i \in 1..Len(a) : q[i] = a[i]
      /\ \A i \in 1..Len(b) : q[Len(a) + i] = b[i]
  <2>1. IsSeq(a) /\ IsSeq(b)
    BY DEF Plain
  <2> QED
    BY <2>1, ConcatIsSeq, ConcatPlaces
<1> HIDE DEF q
<1>2. ASSUME NEW i \in 1..Len(q) PROVE q[i] # Empty
  <2>1. CASE i <= Len(a)
    BY <1>1, <2>1 DEF Plain
  <2>2. CASE i > Len(a)
    <3>1. i - Len(a) \in 1..Len(b) /\ Len(a) + (i - Len(a)) = i
      BY <1>1, <2>2
    <3>2. q[i] = b[i - Len(a)]
      BY <1>1, <3>1
    <3> QED
      BY <3>1, <3>2 DEF Plain
  <2> QED
    BY <1>1, <2>1, <2>2
<1> QED
  BY <1>1, <1>2 DEF Plain, q

\* Such a path after one without empty segments is such a path again.
LEMMA ConcatToEnd ==
  ASSUME NEW a, Plain(a), NEW p, PlainToEnd(p)
  PROVE  /\ PlainToEnd(a \o p) /\ Bare(a \o p) = a \o Bare(p) /\ Plain(a \o Bare(p))
         /\ a \o p = IF Last(p) = Empty THEN (a \o Bare(p)) \o Root ELSE a \o Bare(p)
<1> DEFINE b  == Bare(p)
           ab == a \o b
           q  == a \o p
<1>1. Plain(b) /\ p = IF Last(p) = Empty THEN b \o Root ELSE b
  BY BareFacts
<1>2. IsSeq(a) /\ IsSeq(b) /\ IsSeq(Root)
  BY <1>1, SingletonIsSeq DEF Plain, Root
<1>3. Plain(ab)
  <2> HIDE DEF b
  <2> QED
    BY <1>1, PlainConcat
<1>4. CASE Last(p) = Empty
  <2>1. a \o (b \o Root) = ab \o Root
    <3> HIDE DEF b
    <3> QED
      BY <1>2, ConcatAssoc
  <2>2. q = ab \o Root
    BY <1>1, <1>4, <2>1
  <2> HIDE DEF ab
  <2>3. IsSeq(q) /\ q # <<>> /\ Front(q) = ab /\ Last(q) = Empty
    BY <1>3, <2>2, FrontOfConcat DEF Plain, Root
  <2> HIDE DEF q
  <2>4. Len(ab) = Len(q) - 1 /\ \A i \in 1..(Len(q) - 1) : ab[i] = q[i]
    BY <2>3, FrontIsSeq
  <2>5. PlainToEnd(q)
    BY <1>3, <2>3, <2>4 DEF PlainToEnd, Plain
  <2>6. Bare(q) = ab
    BY <2>3 DEF Bare
  <2> QED
    BY <1>3, <1>4, <2>2, <2>5, <2>6 DEF q, ab, b
<1>5. CASE Last(p) # Empty
  <2>1. p = b /\ q = ab
    BY <1>1, <1>5
  <2>2. IsSeq(q) /\ q # <<>>
    BY <1>2, ConcatIsSeq, ConcatNotEmpty DEF PlainToEnd
  <2> HIDE DEF q, ab, b
  <2>3. PlainToEnd(q)
    BY <1>3, <2>1, <2>2 DEF PlainToEnd, Plain
  <2>4. Last(q) = q[Len(q)] /\ Len(q) \in Nat \ {0}
    BY <2>2, FrontIsSeq
  <2>5. Last(q) # Empty
    BY <1>3, <2>1, <2>4 DEF Plain
  <2>6. Bare(q) = ab
    BY <2>1, <2>5 DEF Bare
  <2> QED
    BY <1>3, <1>5, <2>1, <2>3, <2>6 DEF q, ab, b
<1> QED
  BY <1>4, <1>5

=============================================================================
