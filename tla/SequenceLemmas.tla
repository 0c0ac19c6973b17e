--------------------------- MODULE SequenceLemmas ---------------------------
(***************************************************************************)
(* Which elements a sequence without duplicates has after each operation:  *)
(* the deque and the frames of the pool, the free sections of a session.   *)
(* That a function defined step by step from what it is at the step before *)
(* exists, or from what it is further ahead: what the readers of frames,   *)
(* chunks, segments and objects compute.  And what FlattenSeq makes of     *)
(* sequences of sequences.                                                 *)
(***************************************************************************)
EXTENDS Integers, Sequences, SequencesExt, SequenceTheorems,
        WellFoundedInduction, TLAPS

LEMMA NoneOwned == Range(<<>>) = {} /\ IsInjective(<<>>)
BY DEF Range, IsInjective

LEMMA OneOwned ==
    ASSUME NEW S, NEW q \in Seq(S), Len(q) = 1
    PROVE  Range(q) = {q[1]} /\ IsInjective(q) /\ q[1] \in S
BY DEF Range, IsInjective

LEMMA SingletonOwned ==
    ASSUME NEW x
    PROVE  Range(<<x>>) = {x} /\ IsInjective(<<x>>)
BY DEF Range, IsInjective

LEMMA AppendOwned ==
    ASSUME NEW S, NEW q \in Seq(S), NEW x \in S,
           IsInjective(q), x \notin Range(q)
    PROVE  Range(Append(q, x)) = Range(q) \cup {x} /\ IsInjective(Append(q, x))
<1>1. /\ Append(q, x) \in Seq(S) /\ Len(Append(q, x)) = Len(q) + 1
      /\ \A i \in 1..Len(q) : Append(q, x)[i] = q[i]
      /\ Append(q, x)[Len(q) + 1] = x
  BY AppendProperties
<1>2. Len(q) \in Nat /\ DOMAIN q = 1..Len(q) /\ DOMAIN Append(q, x) = 1..(Len(q) + 1)
  BY <1>1, LenProperties
<1>3. Range(Append(q, x)) = Range(q) \cup {x}
  BY <1>1, <1>2 DEF Range
<1>4. IsInjective(Append(q, x))
  BY <1>1, <1>2 DEF Range, IsInjective
<1> QED
  BY <1>3, <1>4

LEMMA FrontOwned ==
    ASSUME NEW S, NEW q \in Seq(S), IsInjective(q), q # <<>>
    PROVE  /\ Range(Front(q)) = Range(q) \ {Last(q)} /\ IsInjective(Front(q))
           /\ Last(q) \in Range(q)
<1>1. Len(q) \in Nat \ {0} /\ DOMAIN q = 1..Len(q)
  BY LenProperties, EmptySeq
<1>2. \A i \in 1..(Len(q) - 1) : q[i] \in S
  BY <1>1
<1>3. /\ SubSeq(q, 1, Len(q) - 1) \in Seq(S)
      /\ Len(SubSeq(q, 1, Len(q) - 1)) = Len(q) - 1
      /\ \A i \in 1..(Len(q) - 1) : SubSeq(q, 1, Len(q) - 1)[i] = q[i]
  BY <1>1, <1>2, SubSeqProperties
<1>4. DOMAIN Front(q) = 1..(Len(q) - 1) /\ \A i \in 1..(Len(q) - 1) : Front(q)[i] = q[i]
  BY <1>1, <1>3, LenProperties DEF Front
<1>5. Range(Front(q)) = Range(q) \ {Last(q)}
  BY <1>1, <1>4 DEF Range, IsInjective, Last
<1> QED
  BY <1>1, <1>4, <1>5 DEF IsInjective, Range, Last

LEMMA FrontType ==
    ASSUME NEW S, NEW q \in Seq(S), q # <<>>
    PROVE  Front(q) \in Seq(S) /\ Last(q) \in S
<1>1. Len(q) \in Nat \ {0}
  BY LenProperties, EmptySeq
<1>2. \A i \in 1..(Len(q) - 1) : q[i] \in S
  BY <1>1
<1>3. SubSeq(q, 1, Len(q) - 1) \in Seq(S)
  BY <1>1, <1>2, SubSeqProperties
<1> QED
  BY <1>1, <1>3 DEF Front, Last

LEMMA ConcatOwned ==
    ASSUME NEW S, NEW p \in Seq(S), NEW q \in Seq(S),
           IsInjective(p), IsInjective(q), Range(p) \cap Range(q) = {}
    PROVE  Range(p \o q) = Range(p) \cup Range(q) /\ IsInjective(p \o q)
<1>1. /\ p \o q \in Seq(S) /\ Len(p \o q) = Len(p) + Len(q)
      /\ \A i \in 1..(Len(p) + Len(q)) :
            (p \o q)[i] = IF i <= Len(p) THEN p[i] ELSE q[i - Len(p)]
  BY ConcatProperties
<1>2. /\ Len(p) \in Nat /\ Len(q) \in Nat
      /\ DOMAIN p = 1..Len(p) /\ DOMAIN q = 1..Len(q)
      /\ DOMAIN (p \o q) = 1..(Len(p) + Len(q))
  BY <1>1, LenProperties
<1>3. Range(p \o q) = Range(p) \cup Range(q)
  BY RangeConcatenation
<1>4. IsInjective(p \o q)
  <2> SUFFICES ASSUME NEW i \in 1..(Len(p) + Len(q)), NEW j \in 1..(Len(p) + Len(q)),
                      (p \o q)[i] = (p \o q)[j]
               PROVE  i = j
    BY <1>2 DEF IsInjective
  <2>1. CASE i <= Len(p) /\ j <= Len(p)
    BY <1>1, <1>2, <2>1 DEF IsInjective
  <2>2. CASE i > Len(p) /\ j > Len(p)
    <3>1. q[i - Len(p)] = q[j - Len(p)]
      BY <1>1, <1>2, <2>2
    <3>2. i - Len(p) \in DOMAIN q /\ j - Len(p) \in DOMAIN q
      BY <1>2, <2>2
    <3>3. i - Len(p) = j - Len(p)
      BY <3>1, <3>2 DEF IsInjective
    <3> QED
      BY <1>2, <3>3
  <2>3. CASE i <= Len(p) /\ j > Len(p)
    <3>1. p[i] \in Range(p) /\ q[j - Len(p)] \in Range(q)
      BY <1>2, <2>3 DEF Range
    <3> QED
      BY <1>1, <2>3, <1>2, <3>1
  <2>4. CASE i > Len(p) /\ j <= Len(p)
    <3>1. p[j] \in Range(p) /\ q[i - Len(p)] \in Range(q)
      BY <1>2, <2>4 DEF Range
    <3> QED
      BY <1>1, <2>4, <1>2, <3>1
  <2> QED
    BY <1>2, <2>1, <2>2, <2>3, <2>4
<1> QED
  BY <1>3, <1>4
-----------------------------------------------------------------------------
(* Step by step *)

LEMMA LeastNatural ==
    ASSUME NEW T, T \subseteq Nat, T # {}
    PROVE  \E x \in T : \A y \in T : x <= y
<1>1. PICK x \in T : \A y \in T : ~(<<y, x>> \in OpToRel(<, Nat))
  BY WFMin, NatLessThanWellFounded
<1>2. \A y \in T : ~(y < x)
  BY <1>1 DEF OpToRel
<1>3. \A y \in T : x <= y
  BY <1>2
<1> QED
  BY <1>3

\* A function that is what f makes, step by step, of its base.
Stepwise(g, S, base, n, f) ==
    /\ g \in [0..n -> S] /\ g[0] = base
    /\ \A i \in 1..n : g[i] = f[<<g[i - 1], i>>]

LEMMA Recursion ==
    ASSUME NEW S, NEW base \in S, NEW n \in Nat, NEW f \in [S \X (1..n) -> S]
    PROVE  \E g : Stepwise(g, S, base, n, f)
<1> DEFINE Reaches(m, g) == /\ g \in [0..m -> S] /\ g[0] = base
                            /\ \A i \in 1..m : g[i] = f[<<g[i - 1], i>>]
           T == {m \in 0..n : ~\E g \in [0..m -> S] : Reaches(m, g)}
<1>1. ASSUME T # {}
      PROVE  FALSE
  <2>1. PICK m \in T : \A y \in T : m <= y
    <3>1. T \subseteq Nat
      OBVIOUS
    <3> QED
      BY <1>1, <3>1, LeastNatural
  <2>2. m # 0
    <3>1. Reaches(0, [i \in 0..0 |-> base])
      OBVIOUS
    <3> QED
      BY <2>1, <3>1
  <2>3. m \in 1..n /\ m - 1 \in 0..n /\ m - 1 \notin T
    BY <2>1, <2>2
  <2>4. PICK g \in [0..(m - 1) -> S] : Reaches(m - 1, g)
    BY <2>3
  <2> DEFINE h == [i \in 0..m |-> IF i = m THEN f[<<g[m - 1], m>>] ELSE g[i]]
  <2>5. g[m - 1] \in S /\ f[<<g[m - 1], m>>] \in S
    BY <2>3, <2>4
  <2>6. h \in [0..m -> S] /\ h[0] = base
    BY <2>3, <2>4, <2>5
  <2>7. ASSUME NEW i \in 1..m
        PROVE  h[i] = f[<<h[i - 1], i>>]
    <3>1. i \in 0..m /\ i - 1 \in 0..m /\ i - 1 # m
      BY <2>3
    <3>2. CASE i = m
      BY <3>1, <3>2
    <3>3. CASE i # m
      <4>1. i \in 1..(m - 1)
        BY <3>3, <2>3
      <4> QED
        BY <4>1, <3>1, <3>3, <2>4
    <3> QED
      BY <3>2, <3>3
  <2>8. Reaches(m, h)
    BY <2>6, <2>7
  <2> QED
    BY <2>1, <2>6, <2>8
<1>2. n \in 0..n /\ n \notin T
  BY <1>1
<1>3. PICK g \in [0..n -> S] : Reaches(n, g)
  BY <1>2
<1>4. Stepwise(g, S, base, n, f)
  BY <1>3 DEF Stepwise
<1> QED
  BY <1>4

\* What holds at first, and is kept by each step, holds at the end.
LEMMA KeptAlong ==
    ASSUME NEW n \in Nat, NEW G, 0 \in G,
           \A i \in 1..n : i - 1 \in G => i \in G
    PROVE  0..n \subseteq G
<1> DEFINE T == {i \in 0..n : i \notin G}
<1>1. ASSUME T # {}
      PROVE  FALSE
  <2>1. PICK m \in T : \A y \in T : m <= y
    <3>1. T \subseteq Nat
      OBVIOUS
    <3> QED
      BY <1>1, <3>1, LeastNatural
  <2>2. m # 0 /\ m \in 1..n
    BY <2>1
  <2>3. m - 1 \in 0..n /\ m - 1 \notin T
    BY <2>1, <2>2
  <2> QED
    BY <2>1, <2>2, <2>3
<1> QED
  BY <1>1
-----------------------------------------------------------------------------
(* A sequence of sequences put together *)

\* g tells how far each prefix of s gets.
Partials(g, s, S) ==
    /\ g \in [0..Len(s) -> Seq(S)] /\ g[0] = <<>>
    /\ \A i \in 1..Len(s) : g[i] = g[i - 1] \o s[i]

\* FlattenSeq is defined by a recursive function; that it has a value is shown here.
LEMMA PartialsExist ==
    ASSUME NEW S, NEW s \in Seq(Seq(S))
    PROVE  \E g : Partials(g, s, S)
<1> DEFINE n == Len(s)
           f == [p \in Seq(S) \X (1..n) |-> p[1] \o s[p[2]]]
<1>1. n \in Nat /\ \A i \in 1..n : s[i] \in Seq(S)
  BY LenProperties
<1>2. <<>> \in Seq(S)
  OBVIOUS
<1> HIDE DEF n
<1>3. f \in [Seq(S) \X (1..n) -> Seq(S)]
  <2>1. ASSUME NEW p \in Seq(S) \X (1..n)
        PROVE  p[1] \o s[p[2]] \in Seq(S)
    BY <1>1, ConcatProperties
  <2> QED
    BY <2>1
<1>4. \A x \in Seq(S), i \in 1..n : f[<<x, i>>] = x \o s[i]
  OBVIOUS
<1> HIDE DEF f
<1>5. PICK g : Stepwise(g, Seq(S), <<>>, n, f)
  BY <1>1, <1>2, <1>3, Recursion
<1>6. g \in [0..n -> Seq(S)] /\ g[0] = <<>> /\ \A i \in 1..n : g[i] = f[<<g[i - 1], i>>]
  BY <1>5 DEF Stepwise
<1>7. ASSUME NEW i \in 1..n
      PROVE  g[i] = g[i - 1] \o s[i]
  <2>1. i - 1 \in 0..n
    BY <1>1
  <2> QED
    BY <1>4, <1>6, <2>1
<1> QED
  BY <1>6, <1>7 DEF Partials, n

\* Two functions that begin alike and go on alike.
Alike(f, g, n) == f[0] = g[0] /\ \A i \in 1..n : f[i - 1] = g[i - 1] => f[i] = g[i]

LEMMA PartialsUnique ==
    ASSUME NEW S, NEW n \in Nat, NEW f \in [0..n -> S], NEW g \in [0..n -> S], Alike(f, g, n)
    PROVE  f = g
<1> DEFINE G == {i \in 0..n : f[i] = g[i]}
<1>1. 0 \in G
  BY DEF Alike
<1>2. \A i \in 1..n : i - 1 \in G => i \in G
  BY DEF Alike
<1> HIDE DEF G
<1>3. 0..n \subseteq G
  BY <1>1, <1>2, KeptAlong
<1> QED
  BY <1>3 DEF G

LEMMA FlattenIs ==
    ASSUME NEW S, NEW s \in Seq(Seq(S)), NEW g, Partials(g, s, S)
    PROVE  FlattenSeq(s) = g[Len(s)]
<1> DEFINE n == Len(s)
           h == CHOOSE h : h = [i \in 1..n |-> IF i = 1 THEN s[i] ELSE h[i - 1] \o s[i]]
           Solves(e) == e = [i \in 1..n |-> IF i = 1 THEN s[i] ELSE e[i - 1] \o s[i]]
<1>1. /\ n \in Nat /\ g \in [0..n -> Seq(S)] /\ g[0] = <<>>
      /\ \A i \in 1..n : g[i] = g[i - 1] \o s[i] /\ s[i] \in Seq(S)
  BY LenProperties DEF Partials
<1>2. CASE n = 0
  <2>1. s = <<>>
    BY <1>2, EmptySeq
  <2> QED
    BY <1>1, <1>2, <2>1 DEF FlattenSeq
<1>3. CASE n # 0
  <2>1. FlattenSeq(s) = h[n]
    BY <1>3 DEF FlattenSeq
  <2>2. Solves([i \in 1..n |-> g[i]])
    <3> DEFINE e == [i \in 1..n |-> g[i]]
               E(i) == IF i = 1 THEN s[i] ELSE e[i - 1] \o s[i]
    <3>1. ASSUME NEW i \in 1..n
          PROVE  g[i] = E(i)
      <4>1. CASE i = 1
        <5>0. 1 \in 1..n /\ 1 - 1 = 0
          BY <1>1, <4>1
        <5>1. g[1] = <<>> \o s[1]
          <6>1. g[1] = g[1 - 1] \o s[1]
            BY <1>1, <5>0
          <6> QED
            BY <1>1, <5>0, <6>1
        <5>2. s[1] \in Seq(S)
          BY <1>1, <4>1
        <5> QED
          BY <4>1, <5>1, <5>2, ConcatEmptySeq
      <4>2. CASE i # 1
        <5>1. i - 1 \in 1..n
          BY <1>1, <4>2
        <5> QED
          BY <1>1, <4>2, <5>1
      <4> QED
        BY <4>1, <4>2
    <3> HIDE DEF E
    <3>2. e = [i \in 1..n |-> E(i)]
      BY <3>1
    <3> QED
      BY <3>2 DEF E
  <2>3. Solves(h)
    BY <2>2
  <2> HIDE DEF h
  <2>4. \A i \in 1..n : h[i] = IF i = 1 THEN s[i] ELSE h[i - 1] \o s[i]
    BY <2>3
  <2> HIDE DEF Solves, n
  <2> DEFINE G == {0} \cup {i \in 1..n : h[i] = g[i]}
  <2>5. ASSUME NEW i \in 1..n, i - 1 \in G
        PROVE  i \in G
    <3>1. CASE i = 1
      <4>1. h[1] = s[1]
        BY <2>4, <3>1
      <4>0. 1 \in 1..n /\ 1 - 1 = 0
        BY <1>1, <3>1
      <4>2. g[1] = <<>> \o s[1] /\ s[1] \in Seq(S)
        <5>1. g[1] = g[1 - 1] \o s[1] /\ s[1] \in Seq(S)
          BY <1>1, <4>0
        <5> QED
          BY <1>1, <4>0, <5>1
      <4> QED
        BY <3>1, <4>1, <4>2, ConcatEmptySeq
    <3>2. CASE i # 1
      <4>1. i - 1 # 0
        BY <1>1, <3>2
      <4>2. h[i - 1] = g[i - 1]
        BY <2>5, <4>1
      <4> QED
        BY <1>1, <2>4, <3>2, <4>2
    <3> QED
      BY <3>1, <3>2
  <2>6. 0 \in G
    OBVIOUS
  <2> HIDE DEF G
  <2>7. 0..n \subseteq G
    BY <1>1, <2>5, <2>6, KeptAlong
  <2>8. n \in G /\ n # 0
    BY <1>1, <1>3, <2>7
  <2> QED
    BY <2>1, <2>8 DEF G, n
<1> QED
  BY <1>2, <1>3

LEMMA FlattenType ==
    ASSUME NEW S, NEW s \in Seq(Seq(S))
    PROVE  FlattenSeq(s) \in Seq(S)
<1>1. PICK g : Partials(g, s, S)
  BY PartialsExist
<1>2. Len(s) \in 0..Len(s)
  BY LenProperties
<1> QED
  BY <1>1, <1>2, FlattenIs DEF Partials

LEMMA FlattenNone == FlattenSeq(<<>>) = <<>>
BY DEF FlattenSeq

\* FlattenSeq distributes over concatenation.
LEMMA FlattenConcat ==
    ASSUME NEW S, NEW s \in Seq(Seq(S)), NEW t \in Seq(Seq(S))
    PROVE  FlattenSeq(s \o t) = FlattenSeq(s) \o FlattenSeq(t)
<1> DEFINE n == Len(s)
           m == Len(t)
           st == s \o t
<1>1. /\ n \in Nat /\ m \in Nat /\ st \in Seq(Seq(S)) /\ Len(st) = n + m
      /\ \A i \in 1..(n + m) : st[i] = IF i <= n THEN s[i] ELSE t[i - n]
      /\ \A i \in 1..n : s[i] \in Seq(S)
      /\ \A i \in 1..m : t[i] \in Seq(S)
  BY LenProperties, ConcatProperties
<1>2. PICK f : Partials(f, s, S)
  BY PartialsExist
<1>3. PICK g : Partials(g, t, S)
  BY PartialsExist
<1>4. PICK h : Partials(h, st, S)
  BY <1>1, PartialsExist
<1>5. FlattenSeq(s) = f[n] /\ FlattenSeq(t) = g[m] /\ FlattenSeq(st) = h[n + m]
  BY <1>1, <1>2, <1>3, <1>4, FlattenIs
<1>6. /\ f \in [0..n -> Seq(S)] /\ f[0] = <<>> /\ \A i \in 1..n : f[i] = f[i - 1] \o s[i]
      /\ g \in [0..m -> Seq(S)] /\ g[0] = <<>> /\ \A i \in 1..m : g[i] = g[i - 1] \o t[i]
      /\ h \in [0..(n + m) -> Seq(S)] /\ h[0] = <<>>
      /\ \A i \in 1..(n + m) : h[i] = h[i - 1] \o st[i]
  BY <1>1, <1>2, <1>3, <1>4 DEF Partials
<1> HIDE DEF n, m, st
<1>7. h[n] = f[n]
  <2> DEFINE k == [i \in 0..n |-> h[i]]
  <2>0. 0 \in 0..n /\ n \in 0..n /\ 0..n \subseteq 0..(n + m)
    BY <1>1
  <2>1. k \in [0..n -> Seq(S)] /\ k[0] = f[0] /\ k[n] = h[n]
    BY <1>6, <2>0
  <2>2. ASSUME NEW i \in 1..n, k[i - 1] = f[i - 1]
        PROVE  k[i] = f[i]
    <3>1. i - 1 \in 0..n /\ i \in 0..n /\ i \in 1..(n + m) /\ i <= n
      BY <1>1
    <3>2. h[i] = h[i - 1] \o s[i]
      BY <1>1, <1>6, <3>1
    <3> QED
      BY <1>6, <2>2, <3>1, <3>2
  <2> HIDE DEF k
  <2>3. k = f
    <3>1. Alike(k, f, n)
      BY <2>1, <2>2 DEF Alike
    <3> QED
      BY <1>1, <1>6, <2>1, <3>1, PartialsUnique
  <2> QED
    BY <2>1, <2>3
<1>8. h[n + m] = f[n] \o g[m]
  <2> DEFINE k == [i \in 0..m |-> h[n + i]]
             l == [i \in 0..m |-> f[n] \o g[i]]
  <2>0. f[n] \in Seq(S) /\ \A i \in 0..m : g[i] \in Seq(S) /\ n + i \in 0..(n + m)
    BY <1>1, <1>6
  <2>1. k \in [0..m -> Seq(S)] /\ l \in [0..m -> Seq(S)]
    BY <1>6, <2>0, ConcatProperties
  <2>2. k[0] = l[0]
    <3>1. f[n] \o <<>> = f[n]
      BY <2>0, ConcatEmptySeq
    <3>2. 0 \in 0..m /\ n + 0 = n
      BY <1>1
    <3> QED
      BY <1>6, <1>7, <3>1, <3>2
  <2>3. ASSUME NEW i \in 1..m, k[i - 1] = l[i - 1]
        PROVE  k[i] = l[i]
    <3>1. i - 1 \in 0..m /\ i \in 0..m /\ n + i \in 1..(n + m) /\ ~(n + i <= n)
          /\ (n + i) - n = i /\ (n + i) - 1 = n + (i - 1)
      BY <1>1
    <3>2. h[n + i] = h[n + (i - 1)] \o t[i]
      BY <1>1, <1>6, <3>1
    <3>3. h[n + (i - 1)] = f[n] \o g[i - 1]
      <4>1. k[i - 1] = h[n + (i - 1)] /\ l[i - 1] = f[n] \o g[i - 1]
        BY <3>1
      <4> QED
        BY <2>3, <4>1
    <3>4. (f[n] \o g[i - 1]) \o t[i] = f[n] \o (g[i - 1] \o t[i])
      <4>1. f[n] \in Seq(S) /\ g[i - 1] \in Seq(S) /\ t[i] \in Seq(S)
        BY <1>1, <2>0, <3>1
      <4>2. \A a, b, c \in Seq(S) : (a \o b) \o c = a \o (b \o c)
        OBVIOUS
      <4> QED
        BY <4>1, <4>2
    <3>5. g[i] = g[i - 1] \o t[i]
      BY <1>6
    <3> QED
      BY <3>1, <3>2, <3>3, <3>4, <3>5
  <2> HIDE DEF k, l
  <2>4. k = l
    <3>1. Alike(k, l, m)
      BY <2>2, <2>3 DEF Alike
    <3> QED
      BY <1>1, <2>1, <3>1, PartialsUnique
  <2>5. m \in 0..m
    BY <1>1
  <2> QED
    BY <2>4, <2>5 DEF k, l
<1> QED
  BY <1>5, <1>8 DEF st

LEMMA FlattenOne ==
    ASSUME NEW S, NEW x \in Seq(S)
    PROVE  FlattenSeq(<<x>>) = x
<1>1. <<x>> \in Seq(Seq(S)) /\ Len(<<x>>) = 1
  OBVIOUS
<1>2. PICK g : Partials(g, <<x>>, S)
  BY <1>1, PartialsExist
<1>3. FlattenSeq(<<x>>) = g[1] /\ g[1] = <<>> \o x
  <2>1. FlattenSeq(<<x>>) = g[1]
    BY <1>1, <1>2, FlattenIs
  <2>2. g[0] = <<>> /\ g[1] = g[0] \o x
    <3>1. 1 \in 1..1 /\ 1 - 1 = 0 /\ <<x>>[1] = x
      OBVIOUS
    <3>2. g[0] = <<>> /\ g[1] = g[1 - 1] \o <<x>>[1]
      BY <1>1, <1>2, <3>1 DEF Partials
    <3> QED
      BY <3>1, <3>2
  <2> QED
    BY <2>1, <2>2
<1> QED
  BY <1>3, ConcatEmptySeq

LEMMA FlattenAppend ==
    ASSUME NEW S, NEW s \in Seq(Seq(S)), NEW x \in Seq(S)
    PROVE  FlattenSeq(Append(s, x)) = FlattenSeq(s) \o x
<1> DEFINE T == Seq(S)
           o == <<x>>
<1>1. Append(s, x) = s \o o
  BY AppendIsConcat
<1>2. o \in Seq(Seq(S)) /\ FlattenSeq(o) = x
  BY FlattenOne
<1> HIDE DEF o
<1>3. FlattenSeq(s \o o) = FlattenSeq(s) \o FlattenSeq(o)
  BY <1>2, FlattenConcat
<1> QED
  BY <1>1, <1>2, <1>3

\* c is a with b behind it.
Joined(a, b, c) ==
    /\ Len(a) \in Nat /\ Len(b) \in Nat /\ Len(c) = Len(a) + Len(b)
    /\ \A i \in 1..Len(a) : c[i] = a[i]
    /\ \A i \in 1..Len(b) : c[Len(a) + i] = b[i]

LEMMA Joins ==
    ASSUME NEW S, NEW a \in Seq(S), NEW b \in Seq(S)
    PROVE  a \o b \in Seq(S) /\ Joined(a, b, a \o b)
<1>1. /\ Len(a) \in Nat /\ Len(b) \in Nat
      /\ a \o b \in Seq(S) /\ Len(a \o b) = Len(a) + Len(b)
      /\ \A i \in 1..(Len(a) + Len(b)) : (a \o b)[i] = IF i <= Len(a) THEN a[i] ELSE b[i - Len(a)]
  BY LenProperties, ConcatProperties
<1>2. \A i \in 1..Len(b) : /\ Len(a) + i \in 1..(Len(a) + Len(b)) /\ ~(Len(a) + i <= Len(a))
                           /\ (Len(a) + i) - Len(a) = i
  BY <1>1
<1>3. \A i \in 1..Len(a) : i \in 1..(Len(a) + Len(b)) /\ i <= Len(a)
  BY <1>1
<1> QED
  BY <1>1, <1>2, <1>3 DEF Joined

\* b stands in c behind p elements.
Stands(b, p, c) == p + Len(b) <= Len(c) /\ \A i \in 1..Len(b) : c[p + i] = b[i]

LEMMA StandsStill ==
    ASSUME NEW S, NEW a \in Seq(S), NEW b \in Seq(S), NEW c \in Seq(S), NEW d, NEW p \in Nat,
           Stands(b, p, c), Joined(c, a, d)
    PROVE  Stands(b, p, d)
<1>1. Len(b) \in Nat /\ Len(c) \in Nat /\ Len(a) \in Nat /\ Len(d) = Len(c) + Len(a) /\ p + Len(b) <= Len(c)
  BY LenProperties DEF Stands, Joined
<1>2. ASSUME NEW i \in 1..Len(b)
      PROVE  d[p + i] = b[i]
  <2>1. p + i \in 1..Len(c)
    BY <1>1
  <2> QED
    BY <2>1 DEF Stands, Joined
<1> QED
  BY <1>1, <1>2 DEF Stands

\* Each sequence stands in the concatenation behind those before it.
LEMMA PartialsKept ==
    ASSUME NEW S, NEW s \in Seq(Seq(S)), NEW g, Partials(g, s, S), NEW k \in 1..Len(s)
    PROVE  /\ Len(g[k]) = Len(g[k - 1]) + Len(s[k])
           /\ Len(g[k - 1]) \in Nat /\ Len(s[k]) \in Nat
           /\ Stands(s[k], Len(g[k - 1]), g[Len(s)])
<1> DEFINE n == Len(s)
           b == s[k]
           p == Len(g[k - 1])
           Step(i) == g[i - 1] \in Seq(S) /\ s[i] \in Seq(S) /\ g[i] \in Seq(S) /\ Joined(g[i - 1], s[i], g[i])
<1>1. /\ n \in Nat /\ g \in [0..n -> Seq(S)]
      /\ \A i \in 1..n : i - 1 \in 0..n /\ i \in 0..n /\ g[i] = g[i - 1] \o s[i] /\ s[i] \in Seq(S)
  <2>1. /\ n \in Nat /\ g \in [0..n -> Seq(S)]
        /\ \A i \in 1..n : g[i] = g[i - 1] \o s[i]
        /\ \A i \in 1..n : s[i] \in Seq(S)
    BY LenProperties DEF Partials
  <2> HIDE DEF n
  <2>2. \A i \in 1..n : i - 1 \in 0..n /\ i \in 0..n
    BY <2>1
  <2> QED
    BY <2>1, <2>2
<1> HIDE DEF n
<1>2. ASSUME NEW i \in 1..n
      PROVE  Step(i)
  <2>1. g[i - 1] \in Seq(S) /\ s[i] \in Seq(S) /\ g[i] = g[i - 1] \o s[i]
    BY <1>1
  <2> QED
    BY <2>1, Joins
<1>3. k \in 1..n
  BY DEF n
<1>4. Step(k)
  BY <1>2, <1>3
<1>5. b \in Seq(S) /\ p \in Nat /\ Len(b) \in Nat /\ Len(g[k]) = p + Len(b) /\ Stands(b, p, g[k])
  BY <1>4 DEF Joined, Stands
<1> HIDE DEF b, p, Step
<1> DEFINE G == {i \in 0..n : i >= k => Stands(b, p, g[i])}
<1>6. ASSUME NEW i \in 1..n, i - 1 \in G
      PROVE  i \in G
  <2>1. CASE i <= k
    <3>1. i >= k => i = k
      BY <1>3, <2>1
    <3> QED
      BY <1>5, <3>1
  <2>2. CASE ~(i <= k)
    <3>1. i - 1 >= k /\ i - 1 \in 0..n
      BY <1>1, <1>3, <2>2
    <3>2. Stands(b, p, g[i - 1])
      BY <1>6, <3>1
    <3>3. Step(i)
      BY <1>2
    <3>4. Stands(b, p, g[i])
      BY <1>5, <3>2, <3>3, StandsStill DEF Step
    <3> QED
      BY <3>4
  <2> QED
    BY <2>1, <2>2
<1>7. 0 \in G
  <2>1. ~(0 >= k) /\ 0 \in 0..n
    BY <1>1, <1>3
  <2> QED
    BY <2>1
<1> HIDE DEF G
<1>8. 0..n \subseteq G
  BY <1>1, <1>6, <1>7, KeptAlong
<1>9. n \in G /\ n >= k
  BY <1>1, <1>3, <1>8
<1>10. Stands(b, p, g[n])
  BY <1>9 DEF G
<1> QED
  BY <1>5, <1>10 DEF n, b, p
-----------------------------------------------------------------------------
(* Functions that look ahead *)

\* A function that takes its value where it stops, or where it jumps to.
Forward(n, stop, jump) == \A p \in 0..n : ~stop[p] => jump[p] \in (p + 1)..n

Hops(e, n, stop, val, jump) == e = [p \in 0..n |-> IF stop[p] THEN val[p] ELSE e[jump[p]]]

\* A function that only looks ahead has a value everywhere.
LEMMA JumpsExist ==
    ASSUME NEW n \in Nat, NEW stop, NEW val, NEW jump, Forward(n, stop, jump)
    PROVE  \E e : Hops(e, n, stop, val, jump)
<1> DEFINE Solved(e, k) == \A p \in (n - k)..n : e[p] = IF stop[p] THEN val[p] ELSE e[jump[p]]
           G == {k \in 0..n : \E e : Solved(e, k)}
<1>0. \A p \in 0..n : ~stop[p] => jump[p] \in (p + 1)..n
  BY DEF Forward
<1>1. 0 \in G
  <2> DEFINE e == [p \in 0..n |-> val[p]]
  <2>1. \A p \in (n - 0)..n : p = n /\ p \in 0..n
    OBVIOUS
  <2>2. stop[n]
    BY <1>0
  <2>3. e[n] = val[n]
    OBVIOUS
  <2> HIDE DEF e
  <2>4. Solved(e, 0)
    BY <2>1, <2>2, <2>3
  <2> HIDE DEF Solved
  <2> QED
    BY <2>4
<1>2. ASSUME NEW k \in 1..n, k - 1 \in G
      PROVE  k \in G
  <2>1. PICK e : Solved(e, k - 1)
    BY <1>2
  <2> DEFINE d == [p \in 0..n |-> IF p = n - k THEN IF stop[p] THEN val[p] ELSE e[jump[p]] ELSE e[p]]
  <2>2. ASSUME NEW p \in (n - k)..n
        PROVE  d[p] = IF stop[p] THEN val[p] ELSE d[jump[p]]
    <3>1. p \in 0..n /\ (p = n - k \/ p \in (n - (k - 1))..n)
      OBVIOUS
    <3>2. ~stop[p] => d[jump[p]] = e[jump[p]]
      <4>1. ASSUME ~stop[p]
            PROVE  d[jump[p]] = e[jump[p]]
        <5>1. jump[p] \in (p + 1)..n
          BY <1>0, <3>1, <4>1
        <5> DEFINE j == jump[p]
        <5>2. j \in 0..n /\ j # n - k
          BY <5>1
        <5> HIDE DEF j
        <5>3. d[j] = e[j]
          BY <5>2
        <5> QED
          BY <5>3 DEF j
      <4> QED
        BY <4>1
    <3>3. CASE p = n - k
      <4>1. d[p] = IF stop[p] THEN val[p] ELSE e[jump[p]]
        BY <3>1, <3>3
      <4> HIDE DEF d
      <4> QED
        BY <3>2, <4>1
    <3>4. CASE p # n - k
      <4>1. d[p] = e[p]
        BY <3>1, <3>4
      <4>2. e[p] = IF stop[p] THEN val[p] ELSE e[jump[p]]
        BY <2>1, <3>1, <3>4
      <4> HIDE DEF d
      <4> QED
        BY <3>2, <4>1, <4>2
    <3> QED
      BY <3>3, <3>4
  <2> HIDE DEF d
  <2>3. Solved(d, k)
    BY <2>2
  <2> QED
    BY <2>3
<1> HIDE DEF G
<1>3. 0..n \subseteq G
  BY <1>1, <1>2, KeptAlong
<1>4. n \in G /\ n - n = 0
  BY <1>3
<1>5. PICK e : Solved(e, n)
  BY <1>4 DEF G
<1> DEFINE d == [p \in 0..n |-> e[p]]
<1>6. ASSUME NEW p \in 0..n
      PROVE  d[p] = IF stop[p] THEN val[p] ELSE d[jump[p]]
  <2>1. e[p] = IF stop[p] THEN val[p] ELSE e[jump[p]]
    BY <1>4, <1>5
  <2>2. ~stop[p] => d[jump[p]] = e[jump[p]]
    <3>1. ASSUME ~stop[p]
          PROVE  d[jump[p]] = e[jump[p]]
      <4> DEFINE j == jump[p]
      <4>1. j \in 0..n
        BY <1>0, <3>1
      <4> HIDE DEF j
      <4>2. d[j] = e[j]
        BY <4>1
      <4> QED
        BY <4>2 DEF j
    <3> QED
      BY <3>1
  <2>3. d[p] = e[p]
    OBVIOUS
  <2> HIDE DEF d
  <2> QED
    BY <2>1, <2>2, <2>3
<1>7. d = [p \in 0..n |-> d[p]]
  OBVIOUS
<1> HIDE DEF d
<1>8. d = [p \in 0..n |-> IF stop[p] THEN val[p] ELSE d[jump[p]]]
  BY <1>6, <1>7
<1> QED
  BY <1>8 DEF Hops

\* A function that collects what is added at each place, until it stops.
Runs(e, n, stop, add, jump) ==
    e = [p \in 0..n |-> IF stop[p] THEN <<>> ELSE add[p] \o e[jump[p]]]

LEMMA RunsExist ==
    ASSUME NEW n \in Nat, NEW stop, NEW add, NEW jump, Forward(n, stop, jump)
    PROVE  \E e : Runs(e, n, stop, add, jump)
<1> DEFINE Solved(e, k) == \A p \in (n - k)..n : e[p] = IF stop[p] THEN <<>> ELSE add[p] \o e[jump[p]]
           G == {k \in 0..n : \E e : Solved(e, k)}
<1>0. \A p \in 0..n : ~stop[p] => jump[p] \in (p + 1)..n
  BY DEF Forward
<1>1. 0 \in G
  <2> DEFINE e == [p \in 0..n |-> <<>>]
  <2>1. \A p \in (n - 0)..n : p = n /\ p \in 0..n
    OBVIOUS
  <2>2. stop[n]
    BY <1>0
  <2>3. e[n] = <<>>
    OBVIOUS
  <2> HIDE DEF e
  <2>4. Solved(e, 0)
    BY <2>1, <2>2, <2>3
  <2> HIDE DEF Solved
  <2> QED
    BY <2>4
<1>2. ASSUME NEW k \in 1..n, k - 1 \in G
      PROVE  k \in G
  <2>1. PICK e : Solved(e, k - 1)
    BY <1>2
  <2> DEFINE d == [p \in 0..n |-> IF p = n - k THEN IF stop[p] THEN <<>> ELSE add[p] \o e[jump[p]] ELSE e[p]]
  <2>2. ASSUME NEW p \in (n - k)..n
        PROVE  d[p] = IF stop[p] THEN <<>> ELSE add[p] \o d[jump[p]]
    <3>1. p \in 0..n /\ (p = n - k \/ p \in (n - (k - 1))..n)
      OBVIOUS
    <3>2. ~stop[p] => d[jump[p]] = e[jump[p]]
      <4>1. ASSUME ~stop[p]
            PROVE  d[jump[p]] = e[jump[p]]
        <5>1. jump[p] \in (p + 1)..n
          BY <1>0, <3>1, <4>1
        <5> DEFINE j == jump[p]
        <5>2. j \in 0..n /\ j # n - k
          BY <5>1
        <5> HIDE DEF j
        <5>3. d[j] = e[j]
          BY <5>2
        <5> QED
          BY <5>3 DEF j
      <4> QED
        BY <4>1
    <3>3. CASE p = n - k
      <4>1. d[p] = IF stop[p] THEN <<>> ELSE add[p] \o e[jump[p]]
        BY <3>1, <3>3
      <4> HIDE DEF d
      <4> QED
        BY <3>2, <4>1
    <3>4. CASE p # n - k
      <4>1. d[p] = e[p]
        BY <3>1, <3>4
      <4>2. e[p] = IF stop[p] THEN <<>> ELSE add[p] \o e[jump[p]]
        BY <2>1, <3>1, <3>4
      <4> HIDE DEF d
      <4> QED
        BY <3>2, <4>1, <4>2
    <3> QED
      BY <3>3, <3>4
  <2> HIDE DEF d
  <2>3. Solved(d, k)
    BY <2>2
  <2> QED
    BY <2>3
<1> HIDE DEF G
<1>3. 0..n \subseteq G
  BY <1>1, <1>2, KeptAlong
<1>4. n \in G /\ n - n = 0
  BY <1>3
<1>5. PICK e : Solved(e, n)
  BY <1>4 DEF G
<1> DEFINE d == [p \in 0..n |-> e[p]]
<1>6. ASSUME NEW p \in 0..n
      PROVE  d[p] = IF stop[p] THEN <<>> ELSE add[p] \o d[jump[p]]
  <2>1. e[p] = IF stop[p] THEN <<>> ELSE add[p] \o e[jump[p]]
    BY <1>4, <1>5
  <2>2. ~stop[p] => d[jump[p]] = e[jump[p]]
    <3>1. ASSUME ~stop[p]
          PROVE  d[jump[p]] = e[jump[p]]
      <4> DEFINE j == jump[p]
      <4>1. j \in 0..n
        BY <1>0, <3>1
      <4> HIDE DEF j
      <4>2. d[j] = e[j]
        BY <4>1
      <4> QED
        BY <4>2 DEF j
    <3> QED
      BY <3>1
  <2>3. d[p] = e[p]
    OBVIOUS
  <2> HIDE DEF d
  <2> QED
    BY <2>1, <2>2, <2>3
<1>7. d = [p \in 0..n |-> d[p]]
  OBVIOUS
<1> HIDE DEF d
<1>8. d = [p \in 0..n |-> IF stop[p] THEN <<>> ELSE add[p] \o d[jump[p]]]
  BY <1>6, <1>7
<1> QED
  BY <1>8 DEF Runs

\* How long a sequence of sequences is at most.
LEMMA FlattenLength ==
    ASSUME NEW M \in Seq(Seq(Nat)), NEW c \in Nat, \A k \in 1..Len(M) : Len(M[k]) <= c
    PROVE  Len(FlattenSeq(M)) \in Nat /\ Len(FlattenSeq(M)) <= Len(M) * c
<1> DEFINE n == Len(M)
<1>1. PICK g : Partials(g, M, Nat)
  BY PartialsExist
<1>2. FlattenSeq(M) = g[n]
  BY <1>1, FlattenIs
<1>3. /\ n \in Nat /\ g \in [0..n -> Seq(Nat)] /\ g[0] = <<>>
      /\ \A k \in 1..n : g[k] = g[k - 1] \o M[k] /\ M[k] \in Seq(Nat) /\ Len(M[k]) <= c
  BY <1>1, LenProperties DEF Partials
<1> HIDE DEF n
<1> DEFINE G == {k \in 0..n : Len(g[k]) <= k * c}
<1>4. 0 \in G
  BY <1>3
<1>5. ASSUME NEW k \in 1..n, k - 1 \in G
      PROVE  k \in G
  <2>1. k - 1 \in 0..n /\ k \in 0..n /\ Len(g[k - 1]) <= (k - 1) * c
    BY <1>3, <1>5
  <2>2. Len(g[k - 1]) \in Nat /\ Len(M[k]) \in Nat /\ Len(g[k]) = Len(g[k - 1]) + Len(M[k])
    <3> DEFINE a == g[k - 1]
               b == M[k]
    <3>1. a \in Seq(Nat) /\ b \in Seq(Nat) /\ g[k] = a \o b
      BY <1>3, <2>1
    <3> HIDE DEF a, b
    <3>2. Len(a) \in Nat /\ Len(b) \in Nat /\ Len(g[k]) = Len(a) + Len(b)
      BY <3>1, LenProperties, ConcatProperties
    <3> QED
      BY <3>2 DEF a, b
  <2> DEFINE x == Len(g[k - 1])
             y == Len(M[k])
             z == (k - 1) * c
  <2>3. k * c = z + c
    BY <1>3, <2>1
  <2>4. z \in Int
    BY <1>3, <2>1
  <2>5. x \in Nat /\ y \in Nat /\ y <= c /\ x <= z /\ Len(g[k]) = x + y
    BY <1>3, <2>1, <2>2
  <2> HIDE DEF x, y, z
  <2>6. Len(g[k]) <= k * c
    BY <2>3, <2>4, <2>5
  <2> QED
    BY <2>1, <2>6
<1> HIDE DEF G
<1>6. 0..n \subseteq G
  BY <1>3, <1>4, <1>5, KeptAlong
<1>7. Len(g[n]) <= n * c /\ Len(g[n]) \in Nat
  <2>1. n \in G /\ n \in 0..n
    BY <1>3, <1>6
  <2> QED
    BY <1>3, <2>1, LenProperties DEF G
<1> QED
  BY <1>2, <1>7 DEF n
-----------------------------------------------------------------------------
(* Pieces of a length *)

LEMMA Product ==
    ASSUME NEW a \in Nat, NEW b \in Nat, NEW c \in Nat, a <= b
    PROVE  a * c <= b * c
<1>1. b * c = a * c + (b - a) * c
  OBVIOUS
<1>2. (b - a) * c >= 0
  OBVIOUS
<1> QED
  BY <1>1, <1>2

\* How many pieces of size c are needed.
LEMMA PiecesNeeded ==
    ASSUME NEW left \in Nat \ {0}, NEW c \in Nat \ {0}, NEW q, q = (left + c - 1) \div c
    PROVE  q \in Nat \ {0} /\ left <= q * c /\ (q - 1) * c < left
<1> DEFINE r == (left + c - 1) % c
<1>1. q \in Int /\ r \in 0..(c - 1) /\ left + c - 1 = q * c + r
  OBVIOUS
<1> HIDE DEF r
<1>2. left <= q * c /\ (q - 1) * c < left
  <2>1. (q - 1) * c = q * c - c
    BY <1>1
  <2> QED
    BY <1>1, <2>1
<1>3. q > 0
  <2>1. ASSUME q <= 0
        PROVE  q * c <= 0
    BY <1>1, <2>1
  <2> QED
    BY <1>1, <1>2, <2>1
<1> QED
  BY <1>1, <1>2, <1>3
=============================================================================
