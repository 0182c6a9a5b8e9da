--------------------------- MODULE SelectionProofs ----------------------------
(***************************************************************************)
(* Facts about Only, and induction for the proofs that need it: the        *)
(* library's theorems on induction take a predicate, here it is a set.     *)
(***************************************************************************)
EXTENDS Selection, SequenceTheorems, FiniteSetTheorems, WellFoundedInduction, TLAPS

\* Induction, by the least number that a set leaves out.
LEMMA Induction ==
    ASSUME NEW S, 0 \in S, \A n \in Nat : n \in S => n + 1 \in S
    PROVE  Nat \subseteq S
<1> DEFINE Rest == Nat \ S
           R == OpToRel(<, Nat)
<1> SUFFICES ASSUME Rest # {} PROVE FALSE
  OBVIOUS
<1>1. IsWellFoundedOn(R, Nat) /\ Rest \subseteq Nat
  BY NatLessThanWellFounded
<1>2. \E x \in Rest : \A y \in Rest : ~(<<y, x>> \in R)
  <2> HIDE DEF R, Rest
  <2> QED BY <1>1, WFMin
<1>3. PICK x \in Rest : \A y \in Rest : ~(<<y, x>> \in R)
  BY <1>2
<1>4. x \in Nat /\ x \notin S /\ x # 0
  BY DEF Rest
<1>5. x - 1 \in Nat /\ x - 1 < x /\ (x - 1) + 1 = x
  BY <1>4
<1>6. <<x - 1, x>> \in R
  BY <1>4, <1>5 DEF OpToRel
<1>7. x - 1 \in S
  BY <1>3, <1>5, <1>6 DEF Rest
<1> QED BY <1>4, <1>5, <1>7

\* A set of numbers that is not empty has a least element, and a bounded one a
\* greatest.
LEMMA Least ==
    ASSUME NEW S, S \subseteq Nat, S # {}
    PROVE  \E x \in S : \A y \in S : x <= y
<1> DEFINE Below == {n \in Nat : \A y \in S : n <= y}
<1> SUFFICES ASSUME \A x \in S : \E y \in S : ~(x <= y) PROVE FALSE
  OBVIOUS
<1>1. 0 \in Below
  OBVIOUS
<1>2. ASSUME NEW n \in Nat, n \in Below PROVE n + 1 \in Below
  <2>1. \A y \in S : n <= y /\ y \in Nat
    BY <1>2
  <2>2. n \notin S
    BY <2>1
  <2>3. \A y \in S : n # y
    BY <2>2
  <2> QED BY <2>1, <2>3
<1>3. Nat \subseteq Below
  <2> HIDE DEF Below
  <2> QED BY <1>1, <1>2, Induction
<1>4. PICK y \in S : y \in Nat
  OBVIOUS
<1>5. y + 1 \in Below
  BY <1>3, <1>4
<1> QED BY <1>4, <1>5

LEMMA Greatest ==
    ASSUME NEW S, NEW n \in Nat, S \subseteq 0 .. n, S # {}
    PROVE  \E x \in S : \A y \in S : y <= x
<1> DEFINE Above == {b \in Nat : \A y \in S : y <= b}
<1>1. n \in Above
  OBVIOUS
<1>2. PICK b \in Above : \A c \in Above : b <= c
  <2> HIDE DEF Above
  <2>1. Above \subseteq Nat
    BY DEF Above
  <2> QED BY <1>1, <2>1, Least
<1>3. b \in S
  <2> SUFFICES ASSUME b \notin S PROVE FALSE
    OBVIOUS
  <2>1. \A y \in S : y <= b /\ y # b /\ y \in Nat
    BY <1>2
  <2>2. PICK y \in S : TRUE
    OBVIOUS
  <2>3. b \in Nat /\ b # 0
    BY <1>2, <2>1, <2>2
  <2>4. b - 1 \in Above
    BY <2>1, <2>3
  <2> QED BY <1>2, <2>3, <2>4
<1> QED BY <1>2, <1>3

\* A recursive function exists: f[0] is a, and every other value is made by G from the
\* one before.
Steps(T, G) == G \in [Nat -> [T -> T]]
Iterates(f, T, a, G) == f \in [Nat -> T] /\ f[0] = a /\ \A n \in Nat : f[n + 1] = G[n][f[n]]

LEMMA Recursion ==
    ASSUME NEW T, NEW a \in T, NEW G, Steps(T, G)
    PROVE  \E f : Iterates(f, T, a, G)
<1> USE DEF Steps
<1> DEFINE Solves(g, k) ==
              /\ g \in [0 .. k -> T] /\ g[0] = a
              /\ \A n \in Nat : n < k => g[n + 1] = G[n][g[n]]
           Solved == {k \in Nat : \E g : Solves(g, k)}
           Best(k) == CHOOSE g : Solves(g, k)
           Alike == {n \in Nat : \A k, l \in Nat : n <= k /\ n <= l => Best(k)[n] = Best(l)[n]}
           f == [n \in Nat |-> Best(n)[n]]
<1>1. Nat \subseteq Solved
  <2>1. 0 \in Solved
    <3>1. Solves([n \in 0 .. 0 |-> a], 0)
      OBVIOUS
    <3> HIDE DEF Solves
    <3> QED BY <3>1
  <2>2. ASSUME NEW k \in Nat, k \in Solved PROVE k + 1 \in Solved
    <3>1. PICK g : Solves(g, k)
      BY <2>2
    <3> DEFINE h == [n \in 0 .. k + 1 |-> IF n = k + 1 THEN G[k][g[k]] ELSE g[n]]
    <3>2. G[k][g[k]] \in T /\ k \in 0 .. k
      BY <3>1
    <3>3. h \in [0 .. k + 1 -> T]
      BY <3>1, <3>2
    <3>4. h[0] = a
      BY <3>1
    <3>5. ASSUME NEW n \in Nat, n < k + 1 PROVE h[n + 1] = G[n][h[n]]
      <4>1. n \in 0 .. k /\ n + 1 \in 0 .. k + 1 /\ n # k + 1
        BY <3>5
      <4>2. h[n] = g[n]
        BY <4>1
      <4>3. CASE n = k
        BY <4>1, <4>2, <4>3
      <4>4. CASE n # k
        <5>1. n < k /\ n + 1 # k + 1 /\ h[n + 1] = g[n + 1]
          BY <4>1, <4>4
        <5> QED BY <3>1, <4>2, <5>1
      <4> QED BY <4>3, <4>4
    <3> HIDE DEF h
    <3>6. Solves(h, k + 1)
      BY <3>3, <3>4, <3>5
    <3> HIDE DEF Solves
    <3> QED BY <3>6
  <2> HIDE DEF Solved
  <2> QED BY <2>1, <2>2, Induction
<1>2. \A k \in Nat : Solves(Best(k), k)
  <2> HIDE DEF Solves
  <2> QED BY <1>1
<1>3. \A k \in Nat : /\ Best(k) \in [0 .. k -> T] /\ Best(k)[0] = a
                     /\ \A n \in Nat : n < k => Best(k)[n + 1] = G[n][Best(k)[n]]
  BY <1>2
<1> HIDE DEF Best, Solves
<1>4. Nat \subseteq Alike
  <2>1. 0 \in Alike
    BY <1>3
  <2>2. ASSUME NEW n \in Nat, n \in Alike PROVE n + 1 \in Alike
    <3> SUFFICES ASSUME NEW k \in Nat, NEW l \in Nat, n + 1 <= k, n + 1 <= l
                 PROVE  Best(k)[n + 1] = Best(l)[n + 1]
      OBVIOUS
    <3>1. n < k /\ n < l /\ n <= k /\ n <= l
      OBVIOUS
    <3>2. Best(k)[n] = Best(l)[n]
      BY <2>2, <3>1
    <3> QED BY <1>3, <3>1, <3>2
  <2> HIDE DEF Alike
  <2> QED BY <2>1, <2>2, Induction
<1>5. f \in [Nat -> T] /\ f[0] = a
  BY <1>3
<1>6. ASSUME NEW n \in Nat PROVE f[n + 1] = G[n][f[n]]
  <2>1. n + 1 \in Nat /\ n < n + 1 /\ n <= n + 1 /\ n <= n
    OBVIOUS
  <2>2. f[n + 1] = Best(n + 1)[n + 1] /\ f[n] = Best(n)[n]
    BY <2>1
  <2>3. Best(n + 1)[n + 1] = G[n][Best(n + 1)[n]]
    BY <1>3, <2>1
  <2>4. Best(n + 1)[n] = Best(n)[n]
    BY <1>4, <2>1
  <2> QED BY <2>2, <2>3, <2>4
<1> HIDE DEF f
<1>7. Iterates(f, T, a, G)
  BY <1>5, <1>6 DEF Iterates
<1> QED BY <1>7

\* What the function in LET is, step by step.
LEMMA Unfolds ==
    ASSUME NEW s, Len(s) \in Nat, NEW T
    PROVE  /\ OnlyUpTo(s, T)[0] = <<>>
           /\ \A n \in 1 .. Len(s) : OnlyUpTo(s, T)[n] =
                 IF s[n] \in T THEN Append(OnlyUpTo(s, T)[n - 1], s[n]) ELSE OnlyUpTo(s, T)[n - 1]
<1> DEFINE N == Len(s)
           Step(f, n) == IF n = 0 THEN <<>>
                         ELSE IF s[n] \in T THEN Append(f[n - 1], s[n]) ELSE f[n - 1]
           Solves(f, k) == \A n \in 0 .. k : f[n] = Step(f, n)
           Solved == {k \in Nat : \E f : Solves(f, k) /\ f = [n \in 0 .. k |-> f[n]]}
<1>1. Nat \subseteq Solved
  <2>1. 0 \in Solved
    <3> DEFINE f == [n \in 0 .. 0 |-> <<>>]
    <3>1. f = [n \in 0 .. 0 |-> f[n]]
       OBVIOUS
    <3>2. Solves(f, 0)
       OBVIOUS
    <3> HIDE DEF f, Solves
    <3> QED BY <3>1, <3>2
  <2>2. ASSUME NEW k \in Nat, k \in Solved PROVE k + 1 \in Solved
    <3>1. PICK f : Solves(f, k) /\ f = [n \in 0 .. k |-> f[n]]
      BY <2>2
    <3> DEFINE g == [n \in 0 .. k + 1 |-> IF n = k + 1 THEN Step(f, k + 1) ELSE f[n]]
    <3>2. \A n \in 0 .. k : g[n] = f[n]
      OBVIOUS
    <3>3. g[k + 1] = Step(f, k + 1)
      OBVIOUS
    <3>4. g = [n \in 0 .. k + 1 |-> g[n]]
      OBVIOUS
    <3> HIDE DEF g
    <3>5. Solves(g, k + 1)
      <4> SUFFICES ASSUME NEW n \in 0 .. k + 1 PROVE g[n] = Step(g, n)
        OBVIOUS
      <4>1. CASE n = 0
        BY <3>1, <3>2, <4>1
      <4>2. CASE n # 0
        <5>1. n - 1 \in 0 .. k /\ g[n - 1] = f[n - 1]
          BY <4>2, <3>2
        <5>2. g[n] = Step(f, n)
          <6> HIDE DEF Step
          <6>1. CASE n = k + 1
            BY <6>1, <3>3
          <6>2. CASE n # k + 1
            <7>1. n \in 0 .. k
              BY <6>2
            <7> QED BY <7>1, <3>1, <3>2
          <6> QED BY <6>1, <6>2
        <5> QED BY <5>1, <5>2
      <4> QED BY <4>1, <4>2
    <3> HIDE DEF Solves
    <3> QED BY <3>4, <3>5
  <2> HIDE DEF Solved
  <2> QED BY <2>1, <2>2, Induction
<1>2. PICK f : Solves(f, N) /\ f = [n \in 0 .. N |-> f[n]]
  BY <1>1
<1>3. f = [n \in 0 .. N |-> Step(f, n)]
  BY <1>2
<1> DEFINE F == OnlyUpTo(s, T)
<1>4. F = [n \in 0 .. N |-> Step(F, n)]
  BY <1>3 DEF OnlyUpTo
<1> HIDE DEF F
<1>5. 0 \in 0 .. N /\ \A n \in 1 .. N : n \in 0 .. N /\ n # 0
  OBVIOUS
<1>6. \A n \in 0 .. N : F[n] = Step(F, n)
  <2> HIDE DEF Step
  <2> QED BY <1>4
<1>7. F[0] = <<>>
  BY <1>5, <1>6
<1>8. ASSUME NEW n \in 1 .. N
      PROVE  F[n] = IF s[n] \in T THEN Append(F[n - 1], s[n]) ELSE F[n - 1]
  BY <1>5, <1>6
<1> QED BY <1>7, <1>8 DEF F

\* What is selected are elements of the sequence that are in the set.
LEMMA OnlyUpToType ==
    ASSUME NEW S, NEW s \in Seq(S), NEW T
    PROVE  \A n \in 0 .. Len(s) : OnlyUpTo(s, T)[n] \in Seq(S \cap T)
<1> DEFINE F == OnlyUpTo(s, T)
           Typed == {n \in Nat : n <= Len(s) => F[n] \in Seq(S \cap T)}
<1>1. /\ Len(s) \in Nat /\ F[0] = <<>>
      /\ \A n \in 1 .. Len(s) : F[n] = IF s[n] \in T THEN Append(F[n - 1], s[n]) ELSE F[n - 1]
  BY Unfolds
<1> HIDE DEF F
<1>2. 0 \in Typed
  <2>1. <<>> \in Seq(S \cap T)
    OBVIOUS
  <2> QED BY <1>1, <2>1
<1>3. ASSUME NEW n \in Nat, n \in Typed PROVE n + 1 \in Typed
  <2> SUFFICES ASSUME n + 1 <= Len(s) PROVE F[n + 1] \in Seq(S \cap T)
    OBVIOUS
  <2>1. n + 1 \in 1 .. Len(s) /\ (n + 1) - 1 = n /\ F[n] \in Seq(S \cap T) /\ s[n + 1] \in S
    BY <1>1, <1>3
  <2>2. F[n + 1] = IF s[n + 1] \in T THEN Append(F[n], s[n + 1]) ELSE F[n]
    BY <1>1, <2>1
  <2> QED BY <2>1, <2>2
<1>4. Nat \subseteq Typed
  <2> HIDE DEF Typed
  <2> QED BY <1>2, <1>3, Induction
<1> QED BY <1>1, <1>4 DEF F

LEMMA OnlyType ==
    ASSUME NEW S, NEW s \in Seq(S), NEW T
    PROVE  Only(s, T) \in Seq(S \cap T) /\ Only(s, T) \in Seq(S)
<1>1. Len(s) \in 0 .. Len(s)
  OBVIOUS
<1>2. Only(s, T) \in Seq(S \cap T)
  BY <1>1, OnlyUpToType DEF Only
<1> QED BY <1>2

LEMMA OnlyEmpty == \A T : Only(<<>>, T) = <<>>
<1> TAKE T
<1>1. Len(<<>>) = 0
  OBVIOUS
<1> QED BY <1>1, Unfolds DEF Only

\* Two sequences that begin alike leave alike.
LEMMA OnlyUpToLocal ==
    ASSUME NEW S, NEW s \in Seq(S), NEW r \in Seq(S), NEW T,
           NEW k \in Nat, k <= Len(s), k <= Len(r), \A i \in 1 .. k : s[i] = r[i]
    PROVE  OnlyUpTo(s, T)[k] = OnlyUpTo(r, T)[k]
<1> DEFINE F == OnlyUpTo(s, T)
           G == OnlyUpTo(r, T)
           Alike == {n \in Nat : n <= k => F[n] = G[n]}
<1>1. /\ Len(s) \in Nat /\ F[0] = <<>>
      /\ \A n \in 1 .. Len(s) : F[n] = IF s[n] \in T THEN Append(F[n - 1], s[n]) ELSE F[n - 1]
  BY Unfolds
<1>2. /\ Len(r) \in Nat /\ G[0] = <<>>
      /\ \A n \in 1 .. Len(r) : G[n] = IF r[n] \in T THEN Append(G[n - 1], r[n]) ELSE G[n - 1]
  BY Unfolds
<1> HIDE DEF F, G
<1>3. 0 \in Alike
  BY <1>1, <1>2
<1>4. ASSUME NEW n \in Nat, n \in Alike PROVE n + 1 \in Alike
  <2> SUFFICES ASSUME n + 1 <= k PROVE F[n + 1] = G[n + 1]
    OBVIOUS
  <2>1. /\ n + 1 \in 1 .. Len(s) /\ n + 1 \in 1 .. Len(r) /\ n + 1 \in 1 .. k
        /\ (n + 1) - 1 = n /\ F[n] = G[n]
    BY <1>1, <1>2, <1>4
  <2>2. F[n + 1] = IF s[n + 1] \in T THEN Append(F[n], s[n + 1]) ELSE F[n]
    BY <1>1, <2>1
  <2>3. G[n + 1] = IF r[n + 1] \in T THEN Append(G[n], r[n + 1]) ELSE G[n]
    BY <1>2, <2>1
  <2> QED BY <2>1, <2>2, <2>3
<1>5. Nat \subseteq Alike
  <2> HIDE DEF Alike
  <2> QED BY <1>3, <1>4, Induction
<1>6. k \in Alike
  BY <1>5
<1> QED BY <1>6 DEF F, G

LEMMA OnlyAppend ==
    ASSUME NEW S, NEW s \in Seq(S), NEW e \in S, NEW T
    PROVE  Only(Append(s, e), T) = IF e \in T THEN Append(Only(s, T), e) ELSE Only(s, T)
<1> DEFINE r == Append(s, e)
<1>1. /\ r \in Seq(S) /\ Len(s) \in Nat /\ Len(r) = Len(s) + 1 /\ r[Len(s) + 1] = e
      /\ \A i \in 1 .. Len(s) : s[i] = r[i]
  OBVIOUS
<1> HIDE DEF r
<1>2. Len(r) \in 1 .. Len(r) /\ Len(r) - 1 = Len(s) /\ Len(r) \in Nat
  BY <1>1
<1>3. OnlyUpTo(s, T)[Len(s)] = OnlyUpTo(r, T)[Len(s)]
  BY <1>1, <1>2, OnlyUpToLocal
<1>4. OnlyUpTo(r, T)[Len(r)] =
         IF r[Len(r)] \in T THEN Append(OnlyUpTo(r, T)[Len(r) - 1], r[Len(r)])
         ELSE OnlyUpTo(r, T)[Len(r) - 1]
  BY <1>2, Unfolds
<1>5. Only(r, T) = IF e \in T THEN Append(Only(s, T), e) ELSE Only(s, T)
  BY <1>1, <1>2, <1>3, <1>4 DEF Only
<1> QED BY <1>5 DEF r

\* Concatenation under a name of its own: the provers rewrite the equation below
\* away when it is written with \o.
Glued(p, q) == p \o q

LEMMA GluedAppend ==
    ASSUME NEW S, NEW p \in Seq(S), NEW q \in Seq(S), NEW e \in S
    PROVE  Append(Glued(p, q), e) = Glued(p, Append(q, e))
BY DEF Glued

\* What the head of a sequence leaves goes before what its tail leaves.
LEMMA OnlyTail ==
    ASSUME NEW S, NEW s \in Seq(S), s # <<>>, NEW T
    PROVE  Only(s, T) = IF Head(s) \in T THEN <<Head(s)>> \o Only(Tail(s), T)
                        ELSE Only(Tail(s), T)
<1> DEFINE r == Tail(s)
           first == IF s[1] \in T THEN <<s[1]>> ELSE <<>>
           F == OnlyUpTo(s, T)
           G == OnlyUpTo(r, T)
           Split == {n \in Nat : n <= Len(r) => F[n + 1] = Glued(first, G[n])}
<1>1. /\ r \in Seq(S) /\ Len(s) \in Nat \ {0} /\ Len(r) = Len(s) - 1 /\ Head(s) = s[1]
      /\ \A i \in 1 .. Len(r) : r[i] = s[i + 1] /\ s[i + 1] \in S
      /\ s[1] \in S
  OBVIOUS
<1>2. /\ F[0] = <<>>
      /\ \A n \in 1 .. Len(s) : F[n] = IF s[n] \in T THEN Append(F[n - 1], s[n]) ELSE F[n - 1]
  BY <1>1, Unfolds
<1>3. /\ G[0] = <<>>
      /\ \A n \in 1 .. Len(r) : G[n] = IF r[n] \in T THEN Append(G[n - 1], r[n]) ELSE G[n - 1]
  <2> HIDE DEF r
  <2> QED BY <1>1, Unfolds
<1>4. \A n \in 0 .. Len(r) : G[n] \in Seq(S)
  <2>1. \A n \in 0 .. Len(r) : G[n] \in Seq(S \cap T)
    <3> HIDE DEF r
    <3> QED BY <1>1, OnlyUpToType
  <2> QED BY <2>1
<1>5. first \in Seq(S)
  BY <1>1
<1> HIDE DEF F, G, r
<1>6. 0 \in Split
  <2>1. 0 + 1 = 1 /\ 1 - 1 = 0 /\ 1 \in 1 .. Len(s)
    BY <1>1
  <2>2. F[1] = IF s[1] \in T THEN Append(F[0], s[1]) ELSE F[0]
    BY <1>2, <2>1
  <2>3. F[1] = first
    BY <1>1, <1>2, <2>2
  <2>4. first = Glued(first, <<>>)
    <3> HIDE DEF first
    <3> QED BY <1>5 DEF Glued
  <2> QED BY <1>3, <2>1, <2>3, <2>4
<1> HIDE DEF first
<1>7. ASSUME NEW n \in Nat, n \in Split PROVE n + 1 \in Split
  <2> SUFFICES ASSUME n + 1 <= Len(r) PROVE F[(n + 1) + 1] = Glued(first, G[n + 1])
    OBVIOUS
  <2>1. /\ n + 1 \in 1 .. Len(r) /\ n \in 0 .. Len(r) /\ (n + 1) - 1 = n
        /\ (n + 1) + 1 \in 1 .. Len(s) /\ ((n + 1) + 1) - 1 = n + 1
    BY <1>1
  <2>2. F[n + 1] = Glued(first, G[n]) /\ G[n] \in Seq(S) /\ r[n + 1] = s[(n + 1) + 1] /\ r[n + 1] \in S
    BY <1>1, <1>4, <1>7, <2>1
  <2>3. G[n + 1] = IF r[n + 1] \in T THEN Append(G[n], r[n + 1]) ELSE G[n]
    BY <1>3, <2>1
  <2>4. F[(n + 1) + 1] = IF s[(n + 1) + 1] \in T THEN Append(F[n + 1], s[(n + 1) + 1]) ELSE F[n + 1]
    BY <1>2, <2>1
  <2>5. Append(Glued(first, G[n]), r[n + 1]) = Glued(first, Append(G[n], r[n + 1]))
    <3>1. ASSUME NEW p \in Seq(S), NEW q \in Seq(S), NEW e \in S
          PROVE  Append(Glued(p, q), e) = Glued(p, Append(q, e))
      BY GluedAppend
    <3> QED BY <1>5, <2>2, <3>1
  <2> QED BY <2>2, <2>3, <2>4, <2>5
<1>8. Nat \subseteq Split
  <2> HIDE DEF Split
  <2> QED BY <1>6, <1>7, Induction
<1>9. Len(r) \in Split /\ Len(r) + 1 = Len(s) /\ Len(r) \in Nat
  BY <1>1, <1>8
<1>10. F[Len(s)] = first \o G[Len(r)]
  BY <1>9 DEF Glued
<1>11. Only(s, T) = first \o Only(Tail(s), T)
  BY <1>10 DEF Only, F, G, r
<1>12. Only(Tail(s), T) \in Seq(S)
  BY <1>1, OnlyType DEF r
<1> QED BY <1>1, <1>11, <1>12 DEF first

-----------------------------------------------------------------------------
(* Where what is selected comes from.  OnlyUpTo(s, T)[i] counts, with its  *)
(* length, the elements among the first i that are in T.                   *)

Count(s, T, i) == Len(OnlyUpTo(s, T)[i])

LEMMA CountFacts ==
    ASSUME NEW S, NEW s \in Seq(S), NEW T
    PROVE  /\ Count(s, T, 0) = 0
           /\ Count(s, T, Len(s)) = Len(Only(s, T))
           /\ \A i \in 0 .. Len(s) : Count(s, T, i) \in Nat
           /\ \A i \in 1 .. Len(s) :
                 Count(s, T, i) = IF s[i] \in T THEN Count(s, T, i - 1) + 1 ELSE Count(s, T, i - 1)
<1>1. /\ OnlyUpTo(s, T)[0] = <<>>
      /\ \A n \in 1 .. Len(s) : OnlyUpTo(s, T)[n] =
            IF s[n] \in T THEN Append(OnlyUpTo(s, T)[n - 1], s[n]) ELSE OnlyUpTo(s, T)[n - 1]
  BY Unfolds
<1>2. \A n \in 0 .. Len(s) : OnlyUpTo(s, T)[n] \in Seq(S \cap T)
  BY OnlyUpToType
<1>3. \A i \in 1 .. Len(s) : i - 1 \in 0 .. Len(s)
  OBVIOUS
<1>4. ASSUME NEW i \in 1 .. Len(s)
      PROVE  Count(s, T, i) = IF s[i] \in T THEN Count(s, T, i - 1) + 1 ELSE Count(s, T, i - 1)
  <2> DEFINE F == OnlyUpTo(s, T)
  <2>1. F[i] = IF s[i] \in T THEN Append(F[i - 1], s[i]) ELSE F[i - 1]
    BY <1>1
  <2>2. F[i - 1] \in Seq(S) /\ s[i] \in S
    BY <1>2, <1>3
  <2> HIDE DEF F
  <2>3. Len(F[i]) = IF s[i] \in T THEN Len(F[i - 1]) + 1 ELSE Len(F[i - 1])
    BY <2>1, <2>2
  <2> QED BY <2>3 DEF Count, F
<1>5. \A i \in 0 .. Len(s) : Count(s, T, i) \in Nat
  BY <1>2 DEF Count
<1> QED BY <1>1, <1>4, <1>5 DEF Count, Only

LEMMA CountIsCardinality ==
    ASSUME NEW S, NEW s \in Seq(S), NEW T, NEW i \in 0 .. Len(s)
    PROVE  Count(s, T, i) = Cardinality({j \in 1 .. i : s[j] \in T})
<1> DEFINE Them(n) == {j \in 1 .. n : s[j] \in T}
           Right == {n \in Nat : n <= Len(s) =>
                        IsFiniteSet(Them(n)) /\ Count(s, T, n) = Cardinality(Them(n))}
<1>0. Count(s, T, 0) = 0
  BY CountFacts
<1>1. \A n \in 1 .. Len(s) :
         Count(s, T, n) = IF s[n] \in T THEN Count(s, T, n - 1) + 1 ELSE Count(s, T, n - 1)
  <2> HIDE DEF Right
  <2> QED BY CountFacts
<1>2. 0 \in Right
  <2>1. Them(0) = {}
    OBVIOUS
  <2> QED BY <1>0, <2>1, FS_EmptySet
<1>3. ASSUME NEW n \in Nat, n \in Right PROVE n + 1 \in Right
  <2> SUFFICES ASSUME n + 1 <= Len(s)
               PROVE  IsFiniteSet(Them(n + 1)) /\ Count(s, T, n + 1) = Cardinality(Them(n + 1))
    OBVIOUS
  <2>1. n + 1 \in 1 .. Len(s) /\ (n + 1) - 1 = n
    OBVIOUS
  <2>2. Count(s, T, n + 1) = IF s[n + 1] \in T THEN Count(s, T, n) + 1 ELSE Count(s, T, n)
    BY <1>1, <2>1
  <2>3. IsFiniteSet(Them(n)) /\ Count(s, T, n) = Cardinality(Them(n)) /\ n + 1 \notin Them(n)
    BY <1>3, <2>1
  <2>4. Them(n + 1) = IF s[n + 1] \in T THEN Them(n) \union {n + 1} ELSE Them(n)
    OBVIOUS
  <2> HIDE DEF Them
  <2>5. /\ IsFiniteSet(Them(n) \union {n + 1})
        /\ Cardinality(Them(n) \union {n + 1}) = Cardinality(Them(n)) + 1
    BY <2>3, FS_AddElement
  <2> QED BY <2>2, <2>3, <2>4, <2>5
<1>4. Nat \subseteq Right
  <2> HIDE DEF Right
  <2> QED BY <1>2, <1>3, Induction
<1>5. i \in Right /\ i <= Len(s)
  BY <1>4
<1> QED BY <1>5

\* Later elements are counted later.
LEMMA CountGrows ==
    ASSUME NEW S, NEW s \in Seq(S), NEW T
    PROVE  \A i \in 0 .. Len(s) : \A j \in 0 .. Len(s) :
              i <= j => Count(s, T, i) <= Count(s, T, j)
<1>0. \A i \in 0 .. Len(s) : Count(s, T, i) \in Nat
  BY CountFacts
<1>1. \A i \in 1 .. Len(s) :
         Count(s, T, i) = IF s[i] \in T THEN Count(s, T, i - 1) + 1 ELSE Count(s, T, i - 1)
  BY CountFacts
<1> DEFINE Grown == {n \in Nat : n <= Len(s) => \A i \in 0 .. n : Count(s, T, i) <= Count(s, T, n)}
<1>2. 0 \in Grown
  BY <1>0
<1>3. ASSUME NEW n \in Nat, n \in Grown PROVE n + 1 \in Grown
  <2> SUFFICES ASSUME n + 1 <= Len(s), NEW i \in 0 .. n + 1
               PROVE  Count(s, T, i) <= Count(s, T, n + 1)
    OBVIOUS
  <2>1. n + 1 \in 1 .. Len(s) /\ (n + 1) - 1 = n /\ n \in 0 .. Len(s) /\ n + 1 \in 0 .. Len(s)
    OBVIOUS
  <2>2. Count(s, T, n) <= Count(s, T, n + 1) /\ Count(s, T, n) \in Nat /\ Count(s, T, n + 1) \in Nat
    <3>1. Count(s, T, n + 1) = IF s[n + 1] \in T THEN Count(s, T, n) + 1 ELSE Count(s, T, n)
      BY <1>1, <2>1
    <3>2. Count(s, T, n) \in Nat
      BY <1>0, <2>1
    <3> QED BY <3>1, <3>2
  <2>3. CASE i = n + 1
    BY <2>2, <2>3
  <2>4. CASE i # n + 1
    <3>1. i \in 0 .. n /\ i \in 0 .. Len(s) /\ n <= Len(s)
      BY <2>4, <2>1
    <3>2. Count(s, T, i) <= Count(s, T, n) /\ Count(s, T, i) \in Nat
      BY <3>1, <1>0, <1>3
    <3> QED BY <2>2, <3>2
  <2> QED BY <2>3, <2>4
<1>4. Nat \subseteq Grown
  <2> HIDE DEF Grown
  <2> QED BY <1>2, <1>3, Induction
<1> SUFFICES ASSUME NEW i \in 0 .. Len(s), NEW j \in 0 .. Len(s), i <= j
             PROVE  Count(s, T, i) <= Count(s, T, j)
  OBVIOUS
<1>5. j \in Grown /\ j <= Len(s) /\ i \in 0 .. j
  BY <1>4
<1> QED BY <1>5

\* Each element in the set is selected, at the place that is its number among them...
LEMMA OnlyHas ==
    ASSUME NEW S, NEW s \in Seq(S), NEW T, NEW i \in 1 .. Len(s), s[i] \in T
    PROVE  /\ Count(s, T, i) \in 1 .. Len(Only(s, T))
           /\ Only(s, T)[Count(s, T, i)] = s[i]
<1> DEFINE F == OnlyUpTo(s, T)
           Stays == {n \in Nat : i <= n /\ n <= Len(s) =>
                        Len(F[i]) \in 1 .. Len(F[n]) /\ F[n][Len(F[i])] = s[i]}
<1>1. \A n \in 0 .. Len(s) : F[n] \in Seq(S)
  <2>1. \A n \in 0 .. Len(s) : F[n] \in Seq(S \cap T)
    BY OnlyUpToType
  <2> QED BY <2>1
<1>2. \A n \in 1 .. Len(s) : F[n] = IF s[n] \in T THEN Append(F[n - 1], s[n]) ELSE F[n - 1]
  BY Unfolds
<1> HIDE DEF F
<1>3. 0 \in Stays
  OBVIOUS
<1>4. ASSUME NEW n \in Nat, n \in Stays PROVE n + 1 \in Stays
  <2> SUFFICES ASSUME i <= n + 1, n + 1 <= Len(s)
               PROVE  Len(F[i]) \in 1 .. Len(F[n + 1]) /\ F[n + 1][Len(F[i])] = s[i]
    OBVIOUS
  <2>1. /\ n + 1 \in 1 .. Len(s) /\ (n + 1) - 1 = n /\ n \in 0 .. Len(s)
        /\ F[n] \in Seq(S) /\ Len(F[n]) \in Nat /\ s[n + 1] \in S
    BY <1>1
  <2>2. F[n + 1] = IF s[n + 1] \in T THEN Append(F[n], s[n + 1]) ELSE F[n]
    BY <1>2, <2>1
  <2>3. CASE i = n + 1
    <3>1. F[i] = Append(F[n], s[i]) /\ s[i] \in S
      BY <2>1, <2>2, <2>3
    <3>2. Len(F[i]) = Len(F[n]) + 1 /\ F[i][Len(F[n]) + 1] = s[i]
      BY <2>1, <3>1
    <3> QED BY <2>1, <2>3, <3>2
  <2>4. CASE i # n + 1
    <3>1. Len(F[i]) \in 1 .. Len(F[n]) /\ F[n][Len(F[i])] = s[i]
      BY <1>4, <2>4
    <3>2. CASE s[n + 1] \in T
      <4>1. /\ Len(F[n + 1]) = Len(F[n]) + 1
            /\ \A k \in 1 .. Len(F[n]) : F[n + 1][k] = F[n][k]
        BY <2>1, <2>2, <3>2
      <4> QED BY <2>1, <3>1, <4>1
    <3>3. CASE s[n + 1] \notin T
      BY <2>2, <3>1, <3>3
    <3> QED BY <3>2, <3>3
  <2> QED BY <2>3, <2>4
<1>5. Nat \subseteq Stays
  <2> HIDE DEF Stays
  <2> QED BY <1>3, <1>4, Induction
<1>6. Len(s) \in Stays /\ i <= Len(s)
  BY <1>5
<1>7. Len(F[i]) \in 1 .. Len(F[Len(s)]) /\ F[Len(s)][Len(F[i])] = s[i]
  BY <1>6
<1> QED BY <1>7 DEF Count, Only, F

\* ... and nothing else is.
LEMMA OnlyHasNoMore ==
    ASSUME NEW S, NEW s \in Seq(S), NEW T, NEW k \in 1 .. Len(Only(s, T))
    PROVE  \E i \in 1 .. Len(s) : s[i] \in T /\ Count(s, T, i) = k /\ Only(s, T)[k] = s[i]
<1> DEFINE Reached == {n \in Nat : n <= Len(s) /\ k <= Count(s, T, n) =>
                          \E i \in 1 .. Len(s) : s[i] \in T /\ Count(s, T, i) = k}
<1>1. /\ Count(s, T, 0) = 0 /\ \A i \in 0 .. Len(s) : Count(s, T, i) \in Nat
      /\ Count(s, T, Len(s)) = Len(Only(s, T))
      /\ \A i \in 1 .. Len(s) :
            Count(s, T, i) = IF s[i] \in T THEN Count(s, T, i - 1) + 1 ELSE Count(s, T, i - 1)
  BY CountFacts
<1>2. 0 \in Reached
  BY <1>1
<1>3. ASSUME NEW n \in Nat, n \in Reached PROVE n + 1 \in Reached
  <2> SUFFICES ASSUME n + 1 <= Len(s), k <= Count(s, T, n + 1)
               PROVE  \E i \in 1 .. Len(s) : s[i] \in T /\ Count(s, T, i) = k
    OBVIOUS
  <2>1. n + 1 \in 1 .. Len(s) /\ (n + 1) - 1 = n /\ n \in 0 .. Len(s) /\ n <= Len(s)
    OBVIOUS
  <2>2. Count(s, T, n) \in Nat /\ Count(s, T, n + 1) =
           IF s[n + 1] \in T THEN Count(s, T, n) + 1 ELSE Count(s, T, n)
    BY <1>1, <2>1
  <2>3. CASE k <= Count(s, T, n)
    BY <1>3, <2>1, <2>3
  <2>4. CASE ~(k <= Count(s, T, n))
    <3>1. s[n + 1] \in T /\ Count(s, T, n + 1) = k
      BY <2>2, <2>4
    <3> QED BY <2>1, <3>1
  <2> QED BY <2>3, <2>4
<1>4. Nat \subseteq Reached
  <2> HIDE DEF Reached
  <2> QED BY <1>2, <1>3, Induction
<1>5. Len(s) \in Reached /\ Len(s) \in Nat /\ k <= Count(s, T, Len(s))
  BY <1>1, <1>4
<1>6. PICK i \in 1 .. Len(s) : s[i] \in T /\ Count(s, T, i) = k
  BY <1>5
<1> QED BY <1>6, OnlyHas
=============================================================================
