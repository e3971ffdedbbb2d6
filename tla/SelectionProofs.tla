---------------------------- MODULE SelectionProofs ----------------------------
(***************************************************************************)
(* Induction over the natural numbers for sets instead of predicates, that *)
(* a function defined step by step exists, and what a selection is: the    *)
(* elements kept, each once, in their order.                               *)
(***************************************************************************)
EXTENDS Selection, WellFoundedInduction, TLAPS

NatLess == {p \in Nat \X Nat : p[1] < p[2]}

(* The order of the numbers is well founded. *)
LEMMA NatLessWellFounded == IsWellFoundedOn(NatLess, Nat)
<1>1. OpToRel(<, Nat) = NatLess
  BY DEF OpToRel, NatLess
<1> QED  BY <1>1, NatLessThanWellFounded

(* Every set of natural numbers with an element has a least one. *)
LEMMA LeastNumber ==
  ASSUME NEW T \in SUBSET Nat, T /= {}
  PROVE  \E x \in T : \A y \in T : x <= y
<1>1. PICK x \in T : \A y \in T : <<y, x>> \notin NatLess
  BY NatLessWellFounded, WFMin
<1>2. ASSUME NEW y \in T  PROVE x <= y
  <2>1. <<y, x>> \in Nat \X Nat
    OBVIOUS
  <2>2. ~(y < x)
    BY <1>1, <2>1 DEF NatLess
  <2>3. x \in Nat /\ y \in Nat
    OBVIOUS
  <2> QED  BY <2>2, <2>3
<1> QED  BY <1>2

(* A set of numbers with 0 and every successor below n has all up to n. *)
LEMMA InductionUpTo ==
  ASSUME NEW n \in Nat, NEW P, 0 \in P, \A i \in 0 .. n - 1 : i \in P => i + 1 \in P
  PROVE  0 .. n \subseteq P
<1> SUFFICES ASSUME (0 .. n) \ P /= {}  PROVE FALSE
  OBVIOUS
<1>1. PICK x \in (0 .. n) \ P : \A y \in (0 .. n) \ P : x <= y
  <2>1. (0 .. n) \ P \in SUBSET Nat
    OBVIOUS
  <2> QED  BY <2>1, LeastNumber
<1>2. x - 1 \in 0 .. n - 1 /\ ~(x <= x - 1)
  BY <1>1
<1>3. x - 1 \in P
  BY <1>1, <1>2
<1> QED  BY <1>1, <1>2, <1>3

(* h starts with v and goes on by F, n times. *)
Goes(h, n, V, v, F) ==
  h \in [0 .. n -> V] /\ h[0] = v /\ \A i \in 1 .. n : h[i] = F[<<i, h[i - 1]>>]

(* A function that is defined step by step exists. *)
LEMMA StepsExist ==
  ASSUME NEW n \in Nat, NEW V, NEW v \in V, NEW F \in [(1 .. n) \X V -> V]
  PROVE  \E h : Goes(h, n, V, v, F)
<1> DEFINE Good(m, h) == h[0] = v /\ \A i \in 1 .. m : h[i] = F[<<i, h[i - 1]>>]
           P == {m \in 0 .. n : \E h \in [0 .. m -> V] : Good(m, h)}
<1>1. 0 \in P
  <2> DEFINE h == [i \in 0 .. 0 |-> v]
  <2>1. h \in [0 .. 0 -> V] /\ Good(0, h)
    OBVIOUS
  <2>2. 0 \in 0 .. n
    OBVIOUS
  <2> HIDE DEF h, Good
  <2> QED  BY <2>1, <2>2
<1>2. ASSUME NEW m \in 0 .. n - 1, m \in P
      PROVE  m + 1 \in P
  <2>1. PICK g \in [0 .. m -> V] : Good(m, g)
    BY <1>2
  <2> DEFINE h == [i \in 0 .. m + 1 |-> IF i = m + 1 THEN F[<<m + 1, g[m]>>] ELSE g[i]]
  <2>2. F[<<m + 1, g[m]>>] \in V
    <3>1. m + 1 \in 1 .. n /\ g[m] \in V
      OBVIOUS
    <3> QED  BY <3>1
  <2>3. h \in [0 .. m + 1 -> V]
    BY <2>2
  <2>4. \A i \in 0 .. m : h[i] = g[i]
    OBVIOUS
  <2>5. h[m + 1] = F[<<m + 1, g[m]>>]
    OBVIOUS
  <2> HIDE DEF h
  <2>6. \A i \in 1 .. m + 1 : h[i] = F[<<i, h[i - 1]>>]
    <3> SUFFICES ASSUME NEW i \in 1 .. m + 1  PROVE h[i] = F[<<i, h[i - 1]>>]
      OBVIOUS
    <3>1. CASE i = m + 1
      BY <2>4, <2>5, <3>1
    <3>2. CASE i \in 1 .. m
      BY <2>1, <2>4, <3>2
    <3> QED  BY <3>1, <3>2
  <2>7. Good(m + 1, h)
    BY <2>1, <2>4, <2>6
  <2> QED  BY <2>3, <2>7
<1> HIDE DEF P
<1>3. 0 .. n \subseteq P
  BY <1>1, <1>2, InductionUpTo
<1>4. n \in P
  BY <1>3
<1>5. PICK h \in [0 .. n -> V] : Good(n, h)
  BY <1>4 DEF P
<1> QED  BY <1>5 DEF Goes

-----------------------------------------------------------------------------
(* g is the recursive function of Selected up to n. *)
Walk(g, n, s, S) ==
  g = [i \in 0 .. n |->
         IF i = 0 THEN <<>>
         ELSE IF s[i] \in S THEN Append(g[i - 1], s[i]) ELSE g[i - 1]]

(* r has the elements of S among the first n of s; from tells their places. *)
Picks(from, r, n, s, S) ==
  /\ from \in [1 .. Len(r) -> 1 .. n]
  /\ \A i \in 1 .. Len(r) : r[i] = s[from[i]] /\ s[from[i]] \in S
  /\ \A i, j \in 1 .. Len(r) : i < j => from[i] < from[j]
  /\ \A k \in 1 .. n : s[k] \in S => \E i \in 1 .. Len(r) : from[i] = k

(* The recursive function of Selected exists. *)
LEMMA WalkExists ==
  ASSUME NEW X, NEW s \in Seq(X), NEW S
  PROVE  \E g : Walk(g, Len(s), s, S)
<1> DEFINE P == {n \in 0 .. Len(s) : \E g : Walk(g, n, s, S)}
<1>1. 0 \in P
  <2> DEFINE g == [i \in 0 .. 0 |-> <<>>]
  <2>1. Walk(g, 0, s, S)
    BY DEF Walk
  <2> QED  BY <2>1
<1>2. ASSUME NEW n \in 0 .. Len(s) - 1, n \in P
      PROVE  n + 1 \in P
  <2>1. PICK g : Walk(g, n, s, S)
    BY <1>2
  <2> DEFINE next == IF s[n + 1] \in S THEN Append(g[n], s[n + 1]) ELSE g[n]
             h == [i \in 0 .. n + 1 |-> IF i = n + 1 THEN next ELSE g[i]]
  <2>2. \A i \in 0 .. n : h[i] = g[i]
    OBVIOUS
  <2>3. \A i \in 0 .. n : g[i] = IF i = 0 THEN <<>>
                                 ELSE IF s[i] \in S THEN Append(g[i - 1], s[i]) ELSE g[i - 1]
    BY <2>1, Zenon DEF Walk
  <2>4. \A i \in 0 .. n + 1 : h[i] = IF i = 0 THEN <<>>
                                 ELSE IF s[i] \in S THEN Append(h[i - 1], s[i]) ELSE h[i - 1]
    <3> SUFFICES ASSUME NEW i \in 0 .. n + 1
                 PROVE  h[i] = IF i = 0 THEN <<>>
                               ELSE IF s[i] \in S THEN Append(h[i - 1], s[i]) ELSE h[i - 1]
      OBVIOUS
    <3>1. CASE i = n + 1
      <4>1. h[i] = next /\ h[i - 1] = g[n] /\ i /= 0
        BY <3>1
      <4> QED  BY <3>1, <4>1
    <3>2. CASE i \in 0 .. n
      <4>1. h[i] = g[i] /\ (i /= 0 => h[i - 1] = g[i - 1])
        BY <3>2
      <4> HIDE DEF h
      <4> QED  BY <2>3, <3>2, <4>1
    <3> QED  BY <3>1, <3>2
  <2>5. Walk(h, n + 1, s, S)
    <3>1. h = [i \in 0 .. n + 1 |-> h[i]]
      OBVIOUS
    <3> HIDE DEF h
    <3> QED  BY <2>4, <3>1 DEF Walk
  <2> HIDE DEF h
  <2> QED  BY <2>5
<1> HIDE DEF P
<1>3. 0 .. Len(s) \subseteq P
  BY <1>1, <1>2, InductionUpTo
<1>4. Len(s) \in 0 .. Len(s)
  OBVIOUS
<1> QED  BY <1>3, <1>4 DEF P

(* What the walk has kept up to n. *)
LEMMA WalkKeeps ==
  ASSUME NEW X, NEW s \in Seq(X), NEW S, NEW g, Walk(g, Len(s), s, S)
  PROVE  \A n \in 0 .. Len(s) :
           g[n] \in Seq(X) /\ \E from : Picks(from, g[n], n, s, S)
<1> DEFINE P == {n \in 0 .. Len(s) :
                   g[n] \in Seq(X) /\ \E from : Picks(from, g[n], n, s, S)}
<1>0. \A i \in 0 .. Len(s) :
        g[i] = IF i = 0 THEN <<>>
               ELSE IF s[i] \in S THEN Append(g[i - 1], s[i]) ELSE g[i - 1]
  BY Zenon DEF Walk
<1>1. 0 \in P
  <2>1. g[0] = <<>>
    BY <1>0
  <2>2. Picks([i \in 1 .. 0 |-> 1], <<>>, 0, s, S)
    BY DEF Picks
  <2>3. g[0] \in Seq(X) /\ \E from : Picks(from, g[0], 0, s, S)
    <3>1. <<>> \in Seq(X)
      OBVIOUS
    <3> QED  BY <2>1, <2>2, <3>1, Zenon
  <2> QED  BY <2>3
<1>2. ASSUME NEW n \in 0 .. Len(s) - 1, n \in P
      PROVE  n + 1 \in P
  <2>1. PICK from : Picks(from, g[n], n, s, S)
    BY <1>2
  <2>2. g[n] \in Seq(X) /\ s[n + 1] \in X
    BY <1>2
  <2>3. CASE s[n + 1] \in S
    <3>1. g[n + 1] = Append(g[n], s[n + 1])
      <4>1. n + 1 \in 0 .. Len(s) /\ n + 1 /= 0 /\ n + 1 - 1 = n
        OBVIOUS
      <4>2. \A i \in 0 .. Len(s) :
              i /= 0 /\ s[i] \in S => g[i] = Append(g[i - 1], s[i])
        BY <1>0
      <4>3. PICK j \in 0 .. Len(s) : j = n + 1
        BY <4>1
      <4> QED  BY <2>3, <4>1, <4>2, <4>3
    <3> DEFINE r == g[n + 1]
               m == Len(g[n])
               to == [i \in 1 .. m + 1 |-> IF i = m + 1 THEN n + 1 ELSE from[i]]
    <3>2. r \in Seq(X) /\ Len(r) = m + 1 /\ m \in Nat /\ r[m + 1] = s[n + 1]
          /\ \A i \in 1 .. m : r[i] = g[n][i]
      BY <2>2, <3>1
    <3>3. to \in [1 .. Len(r) -> 1 .. n + 1]
      BY <2>1, <3>2 DEF Picks
    <3>4. \A i \in 1 .. m : to[i] = from[i] /\ from[i] \in 1 .. n
      <4>1. from \in [1 .. m -> 1 .. n]
        BY <2>1 DEF Picks
      <4>2. \A i \in 1 .. m : i \in 1 .. m + 1 /\ i /= m + 1
        BY <3>2
      <4> QED  BY <4>1, <4>2
    <3>5. to[m + 1] = n + 1
      BY <3>2
    <3> HIDE DEF r, m, to
    <3>6. \A i \in 1 .. Len(r) : r[i] = s[to[i]] /\ s[to[i]] \in S
      <4>1. \A i \in 1 .. m : g[n][i] = s[from[i]] /\ s[from[i]] \in S
        BY <2>1 DEF Picks, m
      <4>2. \A i \in 1 .. Len(r) : i \in 1 .. m \/ i = m + 1
        BY <3>2
      <4> QED  BY <2>3, <3>2, <3>4, <3>5, <4>1, <4>2
    <3>7. \A i, j \in 1 .. Len(r) : i < j => to[i] < to[j]
      <4> SUFFICES ASSUME NEW i \in 1 .. Len(r), NEW j \in 1 .. Len(r), i < j
                   PROVE  to[i] < to[j]
        OBVIOUS
      <4>1. CASE j = m + 1
        BY <3>2, <3>4, <3>5, <4>1
      <4>2. CASE j \in 1 .. m
        <5>1. i \in 1 .. m
          BY <3>2, <4>2
        <5> QED  BY <2>1, <3>4, <4>2, <5>1 DEF Picks, m
      <4> QED  BY <3>2, <4>1, <4>2
    <3>8. \A k \in 1 .. n + 1 : s[k] \in S => \E i \in 1 .. Len(r) : to[i] = k
      <4> SUFFICES ASSUME NEW k \in 1 .. n + 1, s[k] \in S
                   PROVE  \E i \in 1 .. Len(r) : to[i] = k
        OBVIOUS
      <4>1. CASE k = n + 1
        BY <3>2, <3>5, <4>1
      <4>2. CASE k \in 1 .. n
        <5>1. PICK i \in 1 .. m : from[i] = k
          BY <2>1, <4>2 DEF Picks, m
        <5> QED  BY <3>2, <3>4, <5>1
      <4> QED  BY <4>1, <4>2
    <3>9. Picks(to, r, n + 1, s, S)
      BY <3>3, <3>6, <3>7, <3>8 DEF Picks
    <3> QED  BY <3>2, <3>9 DEF r
  <2>4. CASE s[n + 1] \notin S
    <3>1. g[n + 1] = g[n]
      BY <1>0, <2>4
    <3>2. Picks(from, g[n], n + 1, s, S)
      <4>1. Len(g[n]) \in Nat
        BY <2>2
      <4>2. \A k \in 1 .. n + 1 : k \in 1 .. n \/ k = n + 1
        OBVIOUS
      <4> QED  BY <2>1, <2>4, <4>1, <4>2 DEF Picks
    <3> QED  BY <2>2, <3>1, <3>2
  <2> QED  BY <2>3, <2>4
<1> HIDE DEF P
<1>3. 0 .. Len(s) \subseteq P
  BY <1>1, <1>2, InductionUpTo
<1> QED  BY <1>3 DEF P

(* A selection has exactly the elements of the set, in their order. *)
THEOREM SelectedProperties ==
  ASSUME NEW X, NEW s \in Seq(X), NEW S
  PROVE  /\ Selected(s, S) \in Seq(X)
         /\ \E from : Picks(from, Selected(s, S), Len(s), s, S)
<1> DEFINE K == CHOOSE g : Walk(g, Len(s), s, S)
<1>1. Selected(s, S) = K[Len(s)]
  BY DEF Selected, Walk
<1>2. Walk(K, Len(s), s, S)
  BY WalkExists
<1> HIDE DEF K
<1> QED  BY <1>1, <1>2, WalkKeeps

(* As a set. *)
LEMMA SelectedRange ==
  ASSUME NEW X, NEW s \in Seq(X), NEW S
  PROVE  {Selected(s, S)[i] : i \in DOMAIN Selected(s, S)}
           = {s[i] : i \in DOMAIN s} \cap S
<1> DEFINE r == Selected(s, S)
<1>1. r \in Seq(X) /\ \E from : Picks(from, r, Len(s), s, S)
  BY SelectedProperties
<1>2. PICK from : Picks(from, r, Len(s), s, S)
  BY <1>1
<1> HIDE DEF r
<1>3. DOMAIN r = 1 .. Len(r) /\ DOMAIN s = 1 .. Len(s)
  BY <1>1
<1>4. {r[i] : i \in DOMAIN r} = {s[i] : i \in DOMAIN s} \cap S
  BY <1>2, <1>3 DEF Picks
<1> QED  BY <1>4 DEF r
=============================================================================
