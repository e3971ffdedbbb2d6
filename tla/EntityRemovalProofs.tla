------------------------- MODULE EntityRemovalProofs -------------------------
(***************************************************************************)
(* Proofs about EntityRemoval: every marked entity is released once, the   *)
(* child lists hold the children, a removal takes all children along, and  *)
(* Clear leaves nobody.                                                    *)
(***************************************************************************)
EXTENDS EntityRemoval, SelectionProofs, FiniteSetTheorems

-----------------------------------------------------------------------------
(* Handles to what was created, and the worlds of this state: an entity    *)
(* that is not created yet has no child.                                   *)
Known == (Ents \ unborn) \cup {None}
Worlds == {w \in [killme : SUBSET (Ents \ unborn), parent : [Ents -> Known],
                  child : [Ents -> Known], peer : [Ents -> Known],
                  delList : Seq(Ents), queue : Seq(Ents)] :
             \A e \in unborn : w.child[e] = None}
Born == live \subseteq Ents \ unborn /\ unborn \subseteq Ents

(* GetAllChildren_r follows the handles up to the first that does not      *)
(* resolve.                                                                *)
LEMMA ChildrenRead ==
  ASSUME Born, NEW w \in Worlds, NEW p \in Ents
  PROVE  \E at \in [0 .. Cardinality(Ents) -> live \cup {None}],
            k \in 0 .. Cardinality(Ents) + 1 :
           /\ at[0] = Resolve(w.child[p])
           /\ \A n \in 1 .. Cardinality(Ents) :
                at[n] = IF at[n - 1] = None THEN None ELSE Resolve(w.peer[at[n - 1]])
           /\ \A n \in 0 .. Cardinality(Ents) : at[n] # None <=> n < k
           /\ Children(w, p) = [i \in 1 .. k |-> at[i - 1]]
<1> DEFINE N == Cardinality(Ents)
           V == live \cup {None}
           Next1(c) == IF c = None THEN None ELSE Resolve(w.peer[c])
           Def(g) == g = [n \in 0 .. N |->
                            IF n = 0 THEN Resolve(w.child[p])
                            ELSE LET c == g[n - 1] IN IF c = None THEN None ELSE Resolve(w.peer[c])]
           at == CHOOSE g : Def(g)
<1>1. N \in Nat
  BY RemovalConstants, FS_CardinalityType
<1>2. \A h : Resolve(h) \in V
  BY DEF Resolve
<1> HIDE DEF V
<1>3. PICK h \in [0 .. N -> V] : /\ h[0] = Resolve(w.child[p])
                                 /\ \A i \in 1 .. N : h[i] = Next1(h[i - 1])
  <2> DEFINE F == [x \in (1 .. N) \X V |-> Next1(x[2])]
  <2>1. \A c \in V : Next1(c) \in V
    BY <1>2 DEF V
  <2>2. F \in [(1 .. N) \X V -> V]
    BY <2>1
  <2>3. \A i \in 1 .. N, c \in V : F[<<i, c>>] = Next1(c)
    OBVIOUS
  <2> DEFINE first == Resolve(w.child[p])
  <2>6. first \in V
    BY <1>2
  <2> HIDE DEF F, N, Next1, first
  <2>7. \E h : Goes(h, N, V, first, F)
    BY <1>1, <2>2, <2>6, StepsExist
  <2>8. PICK h : Goes(h, N, V, first, F)
    BY <2>7
  <2>9. h \in [0 .. N -> V] /\ h[0] = first /\ \A i \in 1 .. N : h[i] = F[<<i, h[i - 1]>>]
    BY <2>8 DEF Goes
  <2>10. \A i \in 1 .. N : h[i - 1] \in V
    BY <1>1, <2>9
  <2>11. \A i \in 1 .. N : h[i] = Next1(h[i - 1])
    BY <2>3, <2>9, <2>10
  <2> QED  BY <2>9, <2>11 DEF first
<1>4. Def(h)
  <2>1. h = [n \in 0 .. N |-> h[n]]
    OBVIOUS
  <2>2. \A n \in 0 .. N : h[n] = IF n = 0 THEN Resolve(w.child[p])
          ELSE LET c == h[n - 1] IN IF c = None THEN None ELSE Resolve(w.peer[c])
    BY <1>1, <1>3
  <2> HIDE DEF N
  <2> QED  BY <2>1, <2>2
<1>5. Def(at)
  BY <1>4
<1> HIDE DEF at
<1>6. \A n \in 0 .. N : at[n] = IF n = 0 THEN Resolve(w.child[p])
          ELSE LET c == at[n - 1] IN IF c = None THEN None ELSE Resolve(w.peer[c])
  BY <1>5, Zenon
<1>7. at[0] = Resolve(w.child[p]) /\ \A n \in 1 .. N : at[n] = Next1(at[n - 1])
  BY <1>1, <1>6
<1>8. at \in [0 .. N -> V]
  <2>1. \A n \in 0 .. N : at[n] \in V
    BY <1>2, <1>6 DEF V
  <2>2. at = [n \in 0 .. N |-> at[n]]
    BY <1>5
  <2> HIDE DEF Def
  <2> QED  BY <2>1, <2>2
<1>9. \E k \in 0 .. N + 1 : \A n \in 0 .. N : at[n] # None <=> n < k
  <2>1. CASE \A n \in 0 .. N : at[n] # None
    <3>1. N + 1 \in 0 .. N + 1 /\ \A n \in 0 .. N : n < N + 1
      BY <1>1
    <3> QED  BY <2>1, <3>1
  <2>2. CASE \E n \in 0 .. N : at[n] = None
    <3> DEFINE T == {n \in 0 .. N : at[n] = None}
    <3>1. T \in SUBSET Nat /\ T # {}
      BY <2>2
    <3>2. PICK k \in T : \A n \in T : k <= n
      BY <3>1, LeastNumber
    <3>3. k \in 0 .. N + 1
      BY <1>1
    <3>4. ASSUME NEW n \in 0 .. N, n < k  PROVE at[n] # None
      BY <3>2, <3>4
    <3> DEFINE P == {i \in 0 .. N - k : at[k + i] = None}
    <3>5. N - k \in Nat
      BY <1>1
    <3>6. 0 \in P
      BY <3>5
    <3>7. ASSUME NEW i \in 0 .. (N - k) - 1, i \in P  PROVE i + 1 \in P
      <4>1. k + (i + 1) \in 1 .. N /\ (k + (i + 1)) - 1 = k + i
        BY <1>1, <3>5
      <4>2. at[k + (i + 1)] = Next1(at[k + i])
        BY <1>7, <4>1
      <4> QED  BY <3>5, <3>7, <4>2
    <3> HIDE DEF P, T
    <3>8. 0 .. N - k \subseteq P
      BY <3>5, <3>6, <3>7, InductionUpTo
    <3>9. ASSUME NEW n \in 0 .. N, k <= n  PROVE at[n] = None
      <4>1. n - k \in 0 .. N - k /\ k + (n - k) = n
        BY <1>1, <3>3, <3>9
      <4> QED  BY <3>8, <4>1 DEF P
    <3>10. \A n \in 0 .. N : at[n] # None <=> n < k
      <4> TAKE n \in 0 .. N
      <4>1. n < k \/ k <= n
        BY <1>1, <3>3
      <4>2. k <= n => ~(n < k)
        BY <1>1, <3>3
      <4> QED  BY <3>4, <3>9, <4>1, <4>2
    <3> QED  BY <3>3, <3>10
  <2> QED  BY <2>1, <2>2
<1>10. PICK k \in 0 .. N + 1 : \A n \in 0 .. N : at[n] # None <=> n < k
  BY <1>9
<1>11. Children(w, p) = [i \in 1 .. k |-> at[i - 1]]
  <2>1. Children(w, p) = [i \in 1 .. Cardinality({n \in DOMAIN at : at[n] # None}) |-> at[i - 1]]
    BY DEF Children, at
  <2>2. DOMAIN at = 0 .. N
    BY <1>8
  <2>3. {n \in DOMAIN at : at[n] # None} = 0 .. k - 1
    BY <1>1, <1>10, <2>2
  <2>4. Cardinality(0 .. k - 1) = k
    <3>1. 0 \in Int /\ k - 1 \in Int
      BY <1>1
    <3>2. Cardinality(0 .. k - 1) = IF 0 > k - 1 THEN 0 ELSE (k - 1) - 0 + 1
      BY <3>1, FS_Interval
    <3> QED  BY <1>1, <3>2
  <2> QED  BY <2>1, <2>3, <2>4
<1> QED  BY <1>7, <1>8, <1>10, <1>11 DEF V

(* The children are entities that live. *)
LEMMA ChildrenType ==
  ASSUME Born, NEW w \in Worlds, NEW p \in Ents
  PROVE  Children(w, p) \in Seq(live)
<1> DEFINE N == Cardinality(Ents)
<1>1. PICK at \in [0 .. N -> live \cup {None}], k \in 0 .. N + 1 :
        /\ \A n \in 0 .. N : at[n] # None <=> n < k
        /\ Children(w, p) = [i \in 1 .. k |-> at[i - 1]]
  BY ChildrenRead
<1>2. N \in Nat
  BY RemovalConstants, FS_CardinalityType
<1> HIDE DEF N
<1>3. \A i \in 1 .. k : at[i - 1] \in live
  <2> TAKE i \in 1 .. k
  <2>1. i - 1 \in 0 .. N /\ i - 1 < k
    BY <1>2
  <2> QED  BY <1>1, <2>1
<1>4. k \in Nat
  BY <1>2
<1> QED  BY <1>1, <1>3, <1>4

(* What a concatenation holds. *)
LEMMA ConcatRange ==
  ASSUME NEW X, NEW s \in Seq(X), NEW t \in Seq(X)
  PROVE  Range(s \o t) = Range(s) \cup Range(t)
<1> DEFINE u == s \o t
<1>1. u \in Seq(X) /\ Len(u) = Len(s) + Len(t) /\ Len(s) \in Nat /\ Len(t) \in Nat
  OBVIOUS
<1>2. \A i \in 1 .. Len(u) : u[i] = IF i <= Len(s) THEN s[i] ELSE t[i - Len(s)]
  OBVIOUS
<1>3. DOMAIN u = 1 .. Len(u) /\ DOMAIN s = 1 .. Len(s) /\ DOMAIN t = 1 .. Len(t)
  OBVIOUS
<1> HIDE DEF u
<1>4. ASSUME NEW i \in DOMAIN u  PROVE u[i] \in Range(s) \cup Range(t)
  <2>1. CASE i <= Len(s)
    <3>1. i \in DOMAIN s /\ u[i] = s[i]
      BY <1>1, <1>2, <1>3, <2>1
    <3> QED  BY <3>1 DEF Range
  <2>2. CASE ~(i <= Len(s))
    <3>1. i - Len(s) \in DOMAIN t /\ u[i] = t[i - Len(s)]
      BY <1>1, <1>2, <1>3, <2>2
    <3> QED  BY <3>1 DEF Range
  <2> QED  BY <2>1, <2>2
<1>5. ASSUME NEW i \in DOMAIN s  PROVE s[i] \in Range(u)
  <2>1. i \in DOMAIN u /\ u[i] = s[i]
    BY <1>1, <1>2, <1>3
  <2> QED  BY <2>1 DEF Range
<1>6. ASSUME NEW i \in DOMAIN t  PROVE t[i] \in Range(u)
  <2>1. i + Len(s) \in DOMAIN u /\ u[i + Len(s)] = t[i]
    BY <1>1, <1>2, <1>3
  <2> QED  BY <2>1 DEF Range
<1>7. Range(u) \subseteq Range(s) \cup Range(t)
  BY <1>4 DEF Range
<1>8. Range(s) \subseteq Range(u) /\ Range(t) \subseteq Range(u)
  BY <1>5, <1>6 DEF Range
<1> QED  BY <1>7, <1>8 DEF u

(* What a sequence of sequences holds, one after the other. *)
LEMMA Flattened ==
  ASSUME NEW X, NEW ss \in Seq(Seq(X))
  PROVE  /\ FlattenSeq(ss) \in Seq(X)
         /\ Range(FlattenSeq(ss)) = UNION {Range(ss[i]) : i \in DOMAIN ss}
<1> DEFINE L == Len(ss)
           Def(g) == g = [i \in 1 .. L |-> IF i = 1 THEN ss[i] ELSE g[i - 1] \o ss[i]]
           flat == CHOOSE g : Def(g)
           F == [x \in (1 .. L - 1) \X Seq(X) |-> x[2] \o ss[x[1] + 1]]
<1>1. L \in Nat /\ DOMAIN ss = 1 .. L /\ \A i \in 1 .. L : ss[i] \in Seq(X)
  OBVIOUS
<1>2. CASE L = 0
  <2>1. ss = <<>> /\ FlattenSeq(ss) = ss
    BY <1>2 DEF FlattenSeq
  <2>2. DOMAIN ss = {} /\ <<>> \in Seq(X)
    BY <1>1, <1>2
  <2>3. UNION {Range(ss[i]) : i \in DOMAIN ss} = {} /\ Range(ss) = {}
    BY <2>2 DEF Range
  <2> QED  BY <2>1, <2>2, <2>3
<1>3. CASE L # 0
  <2>1. L - 1 \in Nat /\ ss[1] \in Seq(X)
    BY <1>1, <1>3
  <2>2. \A i \in 1 .. L - 1, x \in Seq(X) : x \o ss[i + 1] \in Seq(X)
    <3> TAKE i \in 1 .. L - 1, x \in Seq(X)
    <3>1. ss[i + 1] \in Seq(X)
      BY <1>1
    <3> HIDE DEF L
    <3> QED  BY <3>1
  <2> HIDE DEF L
  <2>3. F \in [(1 .. L - 1) \X Seq(X) -> Seq(X)]
    BY <2>2
  <2>4. \A i \in 1 .. L - 1, x \in Seq(X) : F[<<i, x>>] = x \o ss[i + 1]
    OBVIOUS
  <2> HIDE DEF F
  <2>5. PICK h : Goes(h, L - 1, Seq(X), ss[1], F)
    BY <2>1, <2>3, StepsExist
  <2>6. /\ h \in [0 .. L - 1 -> Seq(X)] /\ h[0] = ss[1]
        /\ \A i \in 1 .. L - 1 : h[i] = F[<<i, h[i - 1]>>]
    BY <2>5 DEF Goes
  <2> DEFINE g == [i \in 1 .. L |-> h[i - 1]]
  <2>7. \A i \in 1 .. L : g[i] = IF i = 1 THEN ss[i] ELSE g[i - 1] \o ss[i]
    <3> TAKE i \in 1 .. L
    <3>1. CASE i = 1
      BY <1>1, <2>6, <3>1
    <3>2. CASE i # 1
      <4>1. i - 1 \in 1 .. L - 1 /\ (i - 1) - 1 \in 0 .. L - 1 /\ i - 1 \in 1 .. L
        BY <1>1, <3>2
      <4>2. g[i] = h[i - 1] /\ g[i - 1] = h[(i - 1) - 1]
        BY <4>1
      <4>3. h[i - 1] = h[(i - 1) - 1] \o ss[(i - 1) + 1]
        BY <2>4, <2>6, <4>1
      <4>4. (i - 1) + 1 = i
        OBVIOUS
      <4> QED  BY <3>2, <4>2, <4>3, <4>4
    <3> QED  BY <3>1, <3>2
  <2>8. g = [i \in 1 .. L |-> g[i]]
    OBVIOUS
  <2> HIDE DEF g
  <2>9. Def(g)
    BY <2>7, <2>8
  <2>10. Def(flat)
    BY <2>9
  <2> HIDE DEF flat
  <2>11. \A i \in 1 .. L : flat[i] = IF i = 1 THEN ss[i] ELSE flat[i - 1] \o ss[i]
    BY <2>10, Zenon
  <2> DEFINE Held(n) == UNION {Range(ss[i]) : i \in 1 .. n}
             P == {m \in 0 .. L - 1 : flat[m + 1] \in Seq(X) /\ Range(flat[m + 1]) = Held(m + 1)}
  <2>12. 0 \in P
    <3>1. flat[0 + 1] = ss[1]
      BY <1>1, <1>3, <2>11
    <3>2. Held(0 + 1) = Range(ss[1])
      <4>1. 1 .. 0 + 1 = {1}
        OBVIOUS
      <4> QED  BY <4>1
    <3> QED  BY <2>1, <3>1, <3>2
  <2>13. ASSUME NEW m \in 0 .. (L - 1) - 1, m \in P  PROVE m + 1 \in P
    <3>1. m + 2 \in 1 .. L /\ m + 2 # 1 /\ (m + 2) - 1 = m + 1 /\ (m + 1) + 1 = m + 2
      BY <1>1
    <3>2. flat[m + 2] = flat[m + 1] \o ss[m + 2] /\ ss[m + 2] \in Seq(X)
      BY <1>1, <2>11, <3>1
    <3>3. flat[m + 1] \in Seq(X) /\ Range(flat[m + 1]) = Held(m + 1)
      BY <2>13
    <3>4. flat[m + 2] \in Seq(X) /\ Range(flat[m + 2]) = Held(m + 1) \cup Range(ss[m + 2])
      <4> HIDE DEF Held
      <4> QED  BY <3>2, <3>3, ConcatRange
    <3>5. Held(m + 2) = Held(m + 1) \cup Range(ss[m + 2])
      <4>1. 1 .. m + 2 = (1 .. m + 1) \cup {m + 2}
        OBVIOUS
      <4> QED  BY <4>1
    <3>6. m + 1 \in 0 .. L - 1
      BY <1>1
    <3> QED  BY <3>1, <3>4, <3>5, <3>6
  <2> HIDE DEF P
  <2>14. 0 .. L - 1 \subseteq P
    BY <2>1, <2>12, <2>13, InductionUpTo
  <2>15. L - 1 \in P /\ (L - 1) + 1 = L
    BY <1>1, <2>1, <2>14
  <2>16. flat[L] \in Seq(X) /\ Range(flat[L]) = Held(L)
    BY <2>15 DEF P
  <2>17. FlattenSeq(ss) = flat[L]
    BY <1>3 DEF FlattenSeq, flat, L
  <2> QED  BY <1>1, <2>16, <2>17
<1> QED  BY <1>2, <1>3

(* Those in the list of the children of p. *)
Kids(w, p) == Range(Children(w, p))

LEMMA KidsLive ==
  ASSUME Born, NEW w \in Worlds, NEW p \in Ents
  PROVE  Kids(w, p) \subseteq live
<1>1. Children(w, p) \in Seq(live)
  BY ChildrenType
<1>2. \A i \in DOMAIN Children(w, p) : Children(w, p)[i] \in live
  BY <1>1
<1> QED  BY <1>2 DEF Kids, Range

(* One turn of GetAllChildren_r: lists that are below the children, put    *)
(* together.                                                               *)
Gathered(w, v, e) == FlattenSeq([i \in DOMAIN Children(w, e) |->
                       <<Children(w, e)[i]>> \o v[Children(w, e)[i]]])

LEMMA GatheredKids ==
  ASSUME Born, NEW w \in Worlds, NEW v \in [Ents -> Seq(live)], NEW e \in Ents
  PROVE  /\ Gathered(w, v, e) \in Seq(live)
         /\ Range(Gathered(w, v, e)) = Kids(w, e) \cup UNION {Range(v[c]) : c \in Kids(w, e)}
<1> DEFINE cs == Children(w, e)
           One(i) == <<cs[i]>> \o v[cs[i]]
           ss == [i \in DOMAIN cs |-> One(i)]
<1>1. cs \in Seq(live)
  BY ChildrenType
<1> HIDE DEF cs
<1>2. live \subseteq Ents
  BY DEF Born
<1>3. \A i \in DOMAIN cs : One(i) \in Seq(live) /\ Range(One(i)) = {cs[i]} \cup Range(v[cs[i]])
  <2> TAKE i \in DOMAIN cs
  <2>1. cs[i] \in live /\ v[cs[i]] \in Seq(live)
    BY <1>1, <1>2
  <2> DEFINE x == cs[i]
             t == v[x]
  <2>2. <<x>> \in Seq(live) /\ Range(<<x>>) = {x}
    <3>1. DOMAIN <<x>> = {1} /\ <<x>>[1] = x
      OBVIOUS
    <3> QED  BY <2>1, <3>1 DEF Range
  <2>3. t \in Seq(live)
    BY <2>1
  <2> DEFINE u == <<x>>
  <2> HIDE DEF x, t
  <2>4. u \o t \in Seq(live) /\ Range(u \o t) = {x} \cup Range(t)
    <3>1. u \in Seq(live) /\ Range(u) = {x}
      BY <2>2
    <3> HIDE DEF u
    <3> QED  BY <2>3, <3>1, ConcatRange
  <2> QED  BY <2>4 DEF x, t
<1> HIDE DEF One
<1>4. ss \in Seq(Seq(live)) /\ DOMAIN ss = DOMAIN cs
  BY <1>1, <1>3
<1>5. \A i \in DOMAIN cs : ss[i] = One(i)
  OBVIOUS
<1>6. Gathered(w, v, e) = FlattenSeq(ss)
  BY DEF Gathered, cs, One
<1> HIDE DEF ss
<1>7. /\ FlattenSeq(ss) \in Seq(live)
      /\ Range(FlattenSeq(ss)) = UNION {Range(ss[i]) : i \in DOMAIN ss}
  BY <1>4, Flattened
<1>8. UNION {Range(ss[i]) : i \in DOMAIN ss}
        = UNION {{cs[i]} \cup Range(v[cs[i]]) : i \in DOMAIN cs}
  BY <1>3, <1>4, <1>5
<1>9. Kids(w, e) = {cs[i] : i \in DOMAIN cs}
  BY DEF Kids, Range, cs
<1>10. UNION {{cs[i]} \cup Range(v[cs[i]]) : i \in DOMAIN cs}
         = Kids(w, e) \cup UNION {Range(v[c]) : c \in Kids(w, e)}
  <2> HIDE DEF ss
  <2> QED  BY <1>9
<1> QED  BY <1>6, <1>7, <1>8, <1>10

(* AllChildren goes down so many levels as there are entities. *)
LEMMA AllChildrenRead ==
  ASSUME Born, NEW w \in Worlds, NEW p \in Ents
  PROVE  \E below \in [0 .. Cardinality(Ents) -> [Ents -> Seq(live)]] :
           /\ AllChildren(w, p) = below[Cardinality(Ents)][p]
           /\ \A e \in Ents : below[0][e] = <<>>
           /\ \A n \in 1 .. Cardinality(Ents), e \in Ents :
                below[n][e] = Gathered(w, below[n - 1], e)
<1> DEFINE N == Cardinality(Ents)
           V == [Ents -> Seq(live)]
           Level(v) == [e \in Ents |-> Gathered(w, v, e)]
           none == [e \in Ents |-> <<>>]
           Def(g) == g = [n \in 0 .. N |->
                            [e \in Ents |->
                              IF n = 0 THEN <<>>
                              ELSE FlattenSeq([i \in DOMAIN Children(w, e) |->
                                <<Children(w, e)[i]>> \o g[n - 1][Children(w, e)[i]]])]]
           below == CHOOSE g : Def(g)
           F == [x \in (1 .. N) \X V |-> Level(x[2])]
<1>1. N \in Nat
  BY RemovalConstants, FS_CardinalityType
<1>2. none \in V
  OBVIOUS
<1>3. \A v \in V : Level(v) \in V
  BY GatheredKids
<1> HIDE DEF V, Level
<1>4. F \in [(1 .. N) \X V -> V] /\ \A i \in 1 .. N, v \in V : F[<<i, v>>] = Level(v)
  BY <1>3
<1> HIDE DEF F, none, N
<1>5. PICK h : Goes(h, N, V, none, F)
  BY <1>1, <1>2, <1>4, StepsExist
<1>6. h \in [0 .. N -> V] /\ h[0] = none /\ \A n \in 1 .. N : h[n] = Level(h[n - 1])
  <2>1. h \in [0 .. N -> V] /\ h[0] = none /\ \A n \in 1 .. N : h[n] = F[<<n, h[n - 1]>>]
    BY <1>5 DEF Goes
  <2>2. \A n \in 1 .. N : h[n - 1] \in V
    BY <1>1, <2>1
  <2> QED  BY <1>4, <2>1, <2>2
<1> DEFINE At(g, n, e) == IF n = 0 THEN <<>>
                          ELSE FlattenSeq([i \in DOMAIN Children(w, e) |->
                                <<Children(w, e)[i]>> \o g[n - 1][Children(w, e)[i]]])
<1>7. \A g : Def(g) <=> g = [n \in 0 .. N |-> [e \in Ents |-> At(g, n, e)]]
  OBVIOUS
<1> HIDE DEF Def
<1>8. \A g, n, e : At(g, n, e) = IF n = 0 THEN <<>> ELSE Gathered(w, g[n - 1], e)
  BY DEF Gathered
<1> HIDE DEF At
<1>9. \A n \in 0 .. N : h[n] = [e \in Ents |-> At(h, n, e)]
  <2> TAKE n \in 0 .. N
  <2>1. CASE n = 0
    BY <1>6, <1>8, <2>1 DEF none
  <2>2. CASE n # 0
    <3>1. n \in 1 .. N
      BY <1>1, <2>2
    <3>2. h[n] = Level(h[n - 1])
      BY <1>6, <3>1
    <3> QED  BY <1>8, <2>2, <3>2 DEF Level
  <2> QED  BY <2>1, <2>2
<1>10. Def(h)
  <2>1. h = [n \in 0 .. N |-> h[n]]
    BY <1>6
  <2> QED  BY <1>7, <1>9, <2>1
<1>11. Def(below)
  BY <1>10
<1>12. AllChildren(w, p) = below[N][p]
  BY DEF AllChildren, N, Def
<1> HIDE DEF below
<1>13. below = [n \in 0 .. N |-> [e \in Ents |-> At(below, n, e)]]
  BY <1>7, <1>11
<1>14. \A n \in 0 .. N : below[n] = [e \in Ents |-> At(below, n, e)]
  BY <1>13, Zenon
<1>15. below[0] = none
  <2>1. 0 \in 0 .. N
    BY <1>1
  <2> QED  BY <1>8, <1>14, <2>1 DEF none
<1>16. \A n \in 1 .. N : below[n] = Level(below[n - 1])
  <2> TAKE n \in 1 .. N
  <2>1. n \in 0 .. N /\ n # 0
    BY <1>1
  <2>2. \A e : At(below, n, e) = Gathered(w, below[n - 1], e)
    BY <1>8, <2>1
  <2> QED  BY <1>14, <2>1, <2>2 DEF Level
<1> DEFINE P == {n \in 0 .. N : below[n] \in V}
<1>17. 0 \in P
  BY <1>1, <1>2, <1>15
<1>18. \A n \in 0 .. N - 1 : n \in P => n + 1 \in P
  <2> TAKE n \in 0 .. N - 1
  <2> HAVE n \in P
  <2>1. n + 1 \in 1 .. N /\ n + 1 \in 0 .. N /\ (n + 1) - 1 = n
    BY <1>1
  <2>2. below[n + 1] = Level(below[n])
    BY <1>16, <2>1
  <2> QED  BY <1>3, <2>1, <2>2
<1> HIDE DEF P
<1>19. 0 .. N \subseteq P
  BY <1>1, <1>17, <1>18, InductionUpTo
<1>20. below \in [0 .. N -> V]
  <2>1. \A n \in 0 .. N : below[n] \in V
    BY <1>19 DEF P
  <2>2. below = [n \in 0 .. N |-> below[n]]
    BY <1>13, <1>14
  <2> QED  BY <2>1, <2>2
<1>21. \A e \in Ents : below[0][e] = <<>>
  BY <1>15 DEF none
<1>22. \A n \in 1 .. N, e \in Ents : below[n][e] = Gathered(w, below[n - 1], e)
  BY <1>16 DEF Level
<1> QED  BY <1>12, <1>20, <1>21, <1>22 DEF V, N

LEMMA AllChildrenType ==
  ASSUME Born, NEW w \in Worlds, NEW p \in Ents
  PROVE  AllChildren(w, p) \in Seq(live)
<1>1. Cardinality(Ents) \in Nat
  BY RemovalConstants, FS_CardinalityType
<1>2. Cardinality(Ents) \in 0 .. Cardinality(Ents)
  BY <1>1
<1> QED  BY <1>2, AllChildrenRead

-----------------------------------------------------------------------------
(* The lists of removals are not touched. *)
OnlyHandles(w, v) == v.killme = w.killme /\ v.delList = w.delList /\ v.queue = w.queue

LEMMA WorldFields ==
  ASSUME NEW w \in Worlds
  PROVE  /\ w.killme \subseteq Ents \ unborn
         /\ w.parent \in [Ents -> Known] /\ w.child \in [Ents -> Known]
         /\ w.peer \in [Ents -> Known]
         /\ w.delList \in Seq(Ents) /\ w.queue \in Seq(Ents)
         /\ \A e \in unborn : w.child[e] = None
  BY DEF Worlds

LEMMA ResolveType ==
  ASSUME Born, NEW h  PROVE Resolve(h) \in Known /\ Resolve(h) \in live \cup {None}
  BY DEF Resolve, Known, Born

(* A child taken out of its parent's handles. *)
Loose(w, c) == [w EXCEPT !.parent[c] = None, !.peer[c] = None]

LEMMA LooseType ==
  ASSUME NEW w \in Worlds, NEW c \in Ents
  PROVE  /\ Loose(w, c) \in Worlds /\ OnlyHandles(w, Loose(w, c))
         /\ Loose(w, c).parent = [w.parent EXCEPT ![c] = None]
         /\ Loose(w, c).peer = [w.peer EXCEPT ![c] = None]
         /\ Loose(w, c).child = w.child
  BY DEF Loose, Worlds, Known, OnlyHandles

LEMMA ChildSetType ==
  ASSUME Born, NEW w \in Worlds, NEW p \in live, NEW h \in Known
  PROVE  LET v == [w EXCEPT !.child[p] = h]
         IN  /\ v \in Worlds /\ OnlyHandles(w, v)
             /\ v.parent = w.parent /\ v.peer = w.peer
             /\ v.child = [w.child EXCEPT ![p] = h]
<1>1. p \in Ents /\ p \notin unborn
  BY DEF Born
<1>2. \A e \in Ents : [w.child EXCEPT ![p] = h][e] = IF e = p THEN h ELSE w.child[e]
  BY WorldFields
<1>3. \A e \in unborn : [w.child EXCEPT ![p] = h][e] = None
  BY <1>1, <1>2, WorldFields DEF Born
<1>4. [w.child EXCEPT ![p] = h] \in [Ents -> Known]
  BY WorldFields
<1> QED  BY <1>1, <1>3, <1>4 DEF Worlds, OnlyHandles

LEMMA PeerSetType ==
  ASSUME NEW w \in Worlds, NEW c \in Ents, NEW h \in Known
  PROVE  LET v == [w EXCEPT !.peer[c] = h]
         IN  /\ v \in Worlds /\ OnlyHandles(w, v)
             /\ v.parent = w.parent /\ v.child = w.child
             /\ v.peer = [w.peer EXCEPT ![c] = h]
  BY DEF Worlds, OnlyHandles

LEMMA UnlinkChildType ==
  ASSUME Born, NEW w \in Worlds, NEW p \in live, NEW c \in Ents
  PROVE  /\ UnlinkChild(w, p, c) \in Worlds /\ OnlyHandles(w, UnlinkChild(w, p, c))
         /\ UnlinkChild(w, p, c).parent \in {w.parent, [w.parent EXCEPT ![c] = None]}
<1> DEFINE list == Children(w, p)
           next == Resolve(w.peer[c])
           out == Loose(w, c)
           i == CHOOSE j \in DOMAIN list : list[j] = c
<1>1. list \in Seq(live) /\ p \in Ents /\ live \subseteq Ents
  BY ChildrenType DEF Born
<1>2. next \in Known
  BY ResolveType
<1>3. /\ out \in Worlds /\ OnlyHandles(w, out)
      /\ out.parent = [w.parent EXCEPT ![c] = None]
  BY LooseType
<1>4. UnlinkChild(w, p, c) = IF c \notin Range(list) THEN w
        ELSE IF list[1] = c THEN [out EXCEPT !.child[p] = next]
        ELSE [out EXCEPT !.peer[list[i - 1]] = next]
  BY DEF UnlinkChild, Loose
<1> HIDE DEF list, next, out
<1>5. CASE c \notin Range(list)
  BY <1>4, <1>5 DEF OnlyHandles
<1>6. CASE c \in Range(list) /\ list[1] = c
  BY <1>2, <1>3, <1>4, <1>6, ChildSetType DEF OnlyHandles
<1>7. CASE c \in Range(list) /\ list[1] # c
  <2>1. i \in DOMAIN list /\ list[i] = c
    BY <1>7 DEF Range
  <2> HIDE DEF i
  <2>2. i - 1 \in DOMAIN list
    BY <1>1, <1>7, <2>1
  <2>3. list[i - 1] \in Ents
    BY <1>1, <2>2
  <2> QED  BY <1>2, <1>3, <1>4, <1>7, <2>3, PeerSetType DEF OnlyHandles
<1> QED  BY <1>5, <1>6, <1>7

LEMMA LinkChildType ==
  ASSUME Born, NEW w \in Worlds, NEW p \in live, NEW c \in live
  PROVE  /\ LinkChild(w, p, c) \in Worlds /\ OnlyHandles(w, LinkChild(w, p, c))
         /\ \A x \in Ents :
              /\ LinkChild(w, p, c).parent[x] = IF x = c THEN p ELSE w.parent[x]
              /\ LinkChild(w, p, c).peer[x] = IF x = c THEN Resolve(w.child[p]) ELSE w.peer[x]
              /\ LinkChild(w, p, c).child[x] = IF x = p THEN c ELSE w.child[x]
<1>1. Resolve(w.child[p]) \in Known
  BY ResolveType
<1>2. p \in Ents /\ c \in Ents /\ p \notin unborn /\ p \in Known /\ c \in Known
  BY DEF Born, Known
<1> DEFINE v == [w EXCEPT !.peer[c] = Resolve(w.child[p])]
           u == [v EXCEPT !.child[p] = c]
<1>3. /\ v \in Worlds /\ OnlyHandles(w, v) /\ v.parent = w.parent /\ v.child = w.child
      /\ v.peer = [w.peer EXCEPT ![c] = Resolve(w.child[p])]
  BY <1>1, <1>2, PeerSetType
<1>4. LinkChild(w, p, c) = [u EXCEPT !.parent[c] = p]
  BY DEF LinkChild
<1> HIDE DEF v
<1>5. /\ u \in Worlds /\ OnlyHandles(v, u) /\ u.parent = v.parent /\ u.peer = v.peer
      /\ u.child = [v.child EXCEPT ![p] = c]
  BY <1>2, <1>3, ChildSetType
<1> HIDE DEF u
<1>6. /\ [u EXCEPT !.parent[c] = p] \in Worlds /\ OnlyHandles(u, [u EXCEPT !.parent[c] = p])
      /\ [u EXCEPT !.parent[c] = p].parent = [u.parent EXCEPT ![c] = p]
      /\ [u EXCEPT !.parent[c] = p].child = u.child
      /\ [u EXCEPT !.parent[c] = p].peer = u.peer
  BY <1>2, <1>5 DEF Worlds, OnlyHandles
<1> DEFINE l == LinkChild(w, p, c)
<1>7. /\ l \in Worlds /\ OnlyHandles(w, l)
      /\ l.parent = [w.parent EXCEPT ![c] = p]
      /\ l.peer = [w.peer EXCEPT ![c] = Resolve(w.child[p])]
      /\ l.child = [w.child EXCEPT ![p] = c]
  BY <1>3, <1>4, <1>5, <1>6 DEF OnlyHandles
<1> HIDE DEF l
<1>8. \A x \in Ents : /\ l.parent[x] = IF x = c THEN p ELSE w.parent[x]
                      /\ l.peer[x] = IF x = c THEN Resolve(w.child[p]) ELSE w.peer[x]
                      /\ l.child[x] = IF x = p THEN c ELSE w.child[x]
  BY <1>7, WorldFields
<1> QED  BY <1>7, <1>8 DEF l

LEMMA UnlinkFromParentType ==
  ASSUME Born, NEW w \in Worlds, NEW e \in Ents
  PROVE  /\ UnlinkFromParent(w, e) \in Worlds /\ OnlyHandles(w, UnlinkFromParent(w, e))
         /\ UnlinkFromParent(w, e).parent \in {w.parent, [w.parent EXCEPT ![e] = None]}
<1>1. CASE Resolve(w.parent[e]) = None
  BY <1>1 DEF UnlinkFromParent, OnlyHandles
<1>2. CASE Resolve(w.parent[e]) # None
  <2>1. w.parent[e] \in live
    BY <1>2 DEF Resolve
  <2> QED  BY <1>2, <2>1, UnlinkChildType DEF UnlinkFromParent
<1> QED  BY <1>1, <1>2

LEMMA MarkType ==
  ASSUME Born, NEW w \in Worlds, NEW e \in live
  PROVE  /\ Mark(w, e) \in Worlds
         /\ Mark(w, e).killme = w.killme \cup {e}
         /\ Mark(w, e).delList = w.delList /\ Mark(w, e).queue = w.queue
         /\ Mark(w, e).parent \in {w.parent, [w.parent EXCEPT ![e] = None]}
<1> DEFINE v == [w EXCEPT !.killme = @ \cup {e}]
<1>1. /\ v \in Worlds /\ v.killme = w.killme \cup {e}
      /\ v.delList = w.delList /\ v.queue = w.queue /\ v.parent = w.parent
  BY DEF Worlds, Born
<1>2. Mark(w, e) = UnlinkFromParent(v, e) /\ e \in Ents
  BY DEF Mark, Born
<1> HIDE DEF v
<1> QED  BY <1>1, <1>2, UnlinkFromParentType DEF OnlyHandles

(* An entity put at the end of one of the two lists. *)
LEMMA ListedType ==
  ASSUME NEW w \in Worlds, NEW e \in Ents
  PROVE  LET d == [w EXCEPT !.delList = Append(@, e)]
             q == [w EXCEPT !.queue = Append(@, e)]
         IN  /\ d \in Worlds /\ d.delList = Append(w.delList, e) /\ d.killme = w.killme
             /\ d.queue = w.queue /\ d.parent = w.parent /\ d.child = w.child
             /\ d.peer = w.peer
             /\ q \in Worlds /\ q.queue = Append(w.queue, e) /\ q.killme = w.killme
             /\ q.delList = w.delList /\ q.parent = w.parent /\ q.child = w.child
             /\ q.peer = w.peer
<1>1. Append(w.delList, e) \in Seq(Ents) /\ Append(w.queue, e) \in Seq(Ents)
  BY WorldFields
<1> QED  BY <1>1 DEF Worlds

LEMMA RemoveLeafType ==
  ASSUME Born, NEW w \in Worlds, NEW e \in live  PROVE RemoveLeaf(w, e) \in Worlds
<1>1. e \in Ents
  BY DEF Born
<1>2. Defer(w, e) \in Worlds
  BY <1>1, ListedType DEF Defer
<1>3. Mark(w, e) \in Worlds
  BY MarkType
<1>4. [Mark(w, e) EXCEPT !.delList = Append(@, e)] \in Worlds
  BY <1>1, <1>3, ListedType
<1> QED  BY <1>2, <1>4 DEF RemoveLeaf

(* LeavesRemoved goes through worlds, from the last of the list to the first. *)
LEMMA LeavesRemovedRead ==
  ASSUME Born, NEW w \in Worlds, NEW list \in Seq(live)
  PROVE  \E after \in [0 .. Len(list) -> Worlds] :
           /\ after[0] = w
           /\ \A n \in 1 .. Len(list) : after[n] = RemoveLeaf(after[n - 1], list[Len(list) + 1 - n])
           /\ LeavesRemoved(w, list) = after[Len(list)]
<1> DEFINE N == Len(list)
           One(v, i) == RemoveLeaf(v, list[Len(list) + 1 - i])
           Def(g) == g = [n \in 0 .. N |-> IF n = 0 THEN w ELSE One(g[n - 1], n)]
           after == CHOOSE g : Def(g)
           F == [x \in (1 .. N) \X Worlds |-> One(x[2], x[1])]
<1>1. N \in Nat
  OBVIOUS
<1>2. \A i \in 1 .. N, v \in Worlds : One(v, i) \in Worlds
  <2> TAKE i \in 1 .. N, v \in Worlds
  <2>1. Len(list) + 1 - i \in 1 .. Len(list) /\ list[Len(list) + 1 - i] \in live
    OBVIOUS
  <2> QED  BY <2>1, RemoveLeafType
<1>3. LeavesRemoved(w, list) = after[N]
  BY DEF LeavesRemoved
<1>4. \A i \in 1 .. N : \A v : One(v, i) = RemoveLeaf(v, list[Len(list) + 1 - i])
  OBVIOUS
<1> HIDE DEF One, N
<1>5. F \in [(1 .. N) \X Worlds -> Worlds]
  BY <1>2
<1>6. \A i \in 1 .. N, v \in Worlds : F[<<i, v>>] = One(v, i)
  OBVIOUS
<1> HIDE DEF F
<1>7. PICK h : Goes(h, N, Worlds, w, F)
  BY <1>1, <1>5, StepsExist
<1>8. h \in [0 .. N -> Worlds] /\ h[0] = w /\ \A n \in 1 .. N : h[n] = One(h[n - 1], n)
  <2>1. h \in [0 .. N -> Worlds] /\ h[0] = w /\ \A n \in 1 .. N : h[n] = F[<<n, h[n - 1]>>]
    BY <1>7 DEF Goes
  <2>2. \A n \in 1 .. N : h[n - 1] \in Worlds
    BY <1>1, <2>1
  <2> QED  BY <1>6, <2>1, <2>2
<1>9. Def(h)
  <2>1. h = [n \in 0 .. N |-> h[n]]
    BY <1>8
  <2>2. \A n \in 0 .. N : h[n] = IF n = 0 THEN w ELSE One(h[n - 1], n)
    BY <1>1, <1>8
  <2> QED  BY <2>1, <2>2
<1>10. Def(after)
  BY <1>9
<1> HIDE DEF after
<1>11. \A n \in 0 .. N : after[n] = IF n = 0 THEN w ELSE One(after[n - 1], n)
  BY <1>10, Zenon
<1>12. after[0] = w /\ \A n \in 1 .. N : after[n] = One(after[n - 1], n)
  BY <1>1, <1>11
<1> DEFINE P == {n \in 0 .. N : after[n] \in Worlds}
<1>13. 0 \in P
  BY <1>1, <1>12
<1>14. \A n \in 0 .. N - 1 : n \in P => n + 1 \in P
  <2> TAKE n \in 0 .. N - 1
  <2> HAVE n \in P
  <2>1. n + 1 \in 1 .. N /\ n + 1 \in 0 .. N /\ (n + 1) - 1 = n
    BY <1>1
  <2>2. after[n + 1] = One(after[n], n + 1)
    BY <1>12, <2>1
  <2> QED  BY <1>2, <2>1, <2>2
<1> HIDE DEF P
<1>15. 0 .. N \subseteq P
  BY <1>1, <1>13, <1>14, InductionUpTo
<1>16. after \in [0 .. N -> Worlds]
  <2>1. \A n \in 0 .. N : after[n] \in Worlds
    BY <1>15 DEF P
  <2>2. after = [n \in 0 .. N |-> after[n]]
    BY <1>10
  <2> HIDE DEF Def
  <2> QED  BY <2>1, <2>2
<1>17. \A n \in 1 .. N : after[n] = RemoveLeaf(after[n - 1], list[Len(list) + 1 - n])
  BY <1>4, <1>12
<1> QED  BY <1>3, <1>12, <1>16, <1>17 DEF N

LEMMA UpdateOnRemoveType ==
  ASSUME Born, NEW w \in Worlds, NEW e \in live
  PROVE  UpdateOnRemove(w, e) \in Worlds
<1> DEFINE out == Mark(w, e)
           list == AllChildren(out, e)
<1>1. out \in Worlds /\ e \in Ents
  BY MarkType DEF Born
<1> HIDE DEF out
<1>2. list \in Seq(live)
  BY <1>1, AllChildrenType
<1>3. Len(list) \in 0 .. Len(list)
  BY <1>2
<1>4. UpdateOnRemove(w, e) = LeavesRemoved(out, list)
  BY DEF UpdateOnRemove, out
<1> HIDE DEF list
<1> QED  BY <1>1, <1>2, <1>3, <1>4, LeavesRemovedRead

LEMMA RemovedType ==
  ASSUME Born, NEW w \in Worlds, NEW e \in live  PROVE Removed(w, e) \in Worlds
<1>1. e \in Ents
  BY DEF Born
<1>2. Defer(w, e) \in Worlds
  BY <1>1, ListedType DEF Defer
<1>3. UpdateOnRemove(w, e) \in Worlds
  BY UpdateOnRemoveType
<1>4. [UpdateOnRemove(w, e) EXCEPT !.delList = Append(@, e)] \in Worlds
  BY <1>1, <1>3, ListedType
<1> QED  BY <1>2, <1>4 DEF Removed

(* RemovedAll goes through worlds, from the first of the list to the last. *)
LEMMA RemovedAllRead ==
  ASSUME Born, NEW w \in Worlds, NEW list \in Seq(live)
  PROVE  \E after \in [0 .. Len(list) -> Worlds] :
           /\ after[0] = w
           /\ \A n \in 1 .. Len(list) : after[n] = Removed(after[n - 1], list[n])
           /\ RemovedAll(w, list) = after[Len(list)]
<1> DEFINE N == Len(list)
           One(v, i) == Removed(v, list[i])
           Def(g) == g = [n \in 0 .. N |-> IF n = 0 THEN w ELSE One(g[n - 1], n)]
           after == CHOOSE g : Def(g)
           F == [x \in (1 .. N) \X Worlds |-> One(x[2], x[1])]
<1>1. N \in Nat
  OBVIOUS
<1>2. \A i \in 1 .. N, v \in Worlds : One(v, i) \in Worlds
  <2> TAKE i \in 1 .. N, v \in Worlds
  <2>1. list[i] \in live
    OBVIOUS
  <2> QED  BY <2>1, RemovedType
<1>3. RemovedAll(w, list) = after[N]
  BY DEF RemovedAll
<1>4. \A i \in 1 .. N : \A v : One(v, i) = Removed(v, list[i])
  OBVIOUS
<1> HIDE DEF One, N
<1>5. F \in [(1 .. N) \X Worlds -> Worlds]
  BY <1>2
<1>6. \A i \in 1 .. N, v \in Worlds : F[<<i, v>>] = One(v, i)
  OBVIOUS
<1> HIDE DEF F
<1>7. PICK h : Goes(h, N, Worlds, w, F)
  BY <1>1, <1>5, StepsExist
<1>8. h \in [0 .. N -> Worlds] /\ h[0] = w /\ \A n \in 1 .. N : h[n] = One(h[n - 1], n)
  <2>1. h \in [0 .. N -> Worlds] /\ h[0] = w /\ \A n \in 1 .. N : h[n] = F[<<n, h[n - 1]>>]
    BY <1>7 DEF Goes
  <2>2. \A n \in 1 .. N : h[n - 1] \in Worlds
    BY <1>1, <2>1
  <2> QED  BY <1>6, <2>1, <2>2
<1>9. Def(h)
  <2>1. h = [n \in 0 .. N |-> h[n]]
    BY <1>8
  <2>2. \A n \in 0 .. N : h[n] = IF n = 0 THEN w ELSE One(h[n - 1], n)
    BY <1>1, <1>8
  <2> QED  BY <2>1, <2>2
<1>10. Def(after)
  BY <1>9
<1> HIDE DEF after
<1>11. \A n \in 0 .. N : after[n] = IF n = 0 THEN w ELSE One(after[n - 1], n)
  BY <1>10, Zenon
<1>12. after[0] = w /\ \A n \in 1 .. N : after[n] = One(after[n - 1], n)
  BY <1>1, <1>11
<1> DEFINE P == {n \in 0 .. N : after[n] \in Worlds}
<1>13. 0 \in P
  BY <1>1, <1>12
<1>14. \A n \in 0 .. N - 1 : n \in P => n + 1 \in P
  <2> TAKE n \in 0 .. N - 1
  <2> HAVE n \in P
  <2>1. n + 1 \in 1 .. N /\ n + 1 \in 0 .. N /\ (n + 1) - 1 = n
    BY <1>1
  <2>2. after[n + 1] = One(after[n], n + 1)
    BY <1>12, <2>1
  <2> QED  BY <1>2, <2>1, <2>2
<1> HIDE DEF P
<1>15. 0 .. N \subseteq P
  BY <1>1, <1>13, <1>14, InductionUpTo
<1>16. after \in [0 .. N -> Worlds]
  <2>1. \A n \in 0 .. N : after[n] \in Worlds
    BY <1>15 DEF P
  <2>2. after = [n \in 0 .. N |-> after[n]]
    BY <1>10
  <2> HIDE DEF Def
  <2> QED  BY <2>1, <2>2
<1>17. \A n \in 1 .. N : after[n] = Removed(after[n - 1], list[n])
  BY <1>4, <1>12
<1> QED  BY <1>3, <1>12, <1>16, <1>17 DEF N

(* A child that goes from one parent to another. *)
Moved(v, c, from, to) == LinkChild(UnlinkChild(v, from, c), to, c)

(* TransferChildren moves one child after the other. *)
TransferPath(after, w, list, from, to) ==
  /\ after \in [0 .. Len(list) -> Worlds]
  /\ after[0] = w
  /\ \A n \in 1 .. Len(list) : after[n] = Moved(after[n - 1], list[n], from, to)
  /\ Transferred(w, list, from, to) = after[Len(list)]

LEMMA TransferredRead ==
  ASSUME Born, NEW w \in Worlds, NEW list \in Seq(live), NEW from \in live, NEW to \in live
  PROVE  \E after : TransferPath(after, w, list, from, to)
<1> DEFINE N == Len(list)
           One(v, i) == Moved(v, list[i], from, to)
           Def(g) == g = [n \in 0 .. N |-> IF n = 0 THEN w ELSE One(g[n - 1], n)]
           after == CHOOSE g : Def(g)
           F == [x \in (1 .. N) \X Worlds |-> One(x[2], x[1])]
<1>1. N \in Nat
  OBVIOUS
<1>2. \A i \in 1 .. N, v \in Worlds : One(v, i) \in Worlds
  <2> TAKE i \in 1 .. N, v \in Worlds
  <2>1. list[i] \in live
    OBVIOUS
  <2>2. list[i] \in Ents
    BY <2>1 DEF Born
  <2>3. UnlinkChild(v, from, list[i]) \in Worlds
    BY <2>2, UnlinkChildType
  <2> QED  BY <2>1, <2>3, LinkChildType DEF Moved
<1>3. Transferred(w, list, from, to) = after[N]
  BY DEF Transferred, Moved
<1>4. \A i \in 1 .. N : \A v : One(v, i) = Moved(v, list[i], from, to)
  OBVIOUS
<1> HIDE DEF One, N
<1>5. F \in [(1 .. N) \X Worlds -> Worlds]
  BY <1>2
<1>6. \A i \in 1 .. N, v \in Worlds : F[<<i, v>>] = One(v, i)
  OBVIOUS
<1> HIDE DEF F
<1>7. PICK h : Goes(h, N, Worlds, w, F)
  BY <1>1, <1>5, StepsExist
<1>8. h \in [0 .. N -> Worlds] /\ h[0] = w /\ \A n \in 1 .. N : h[n] = One(h[n - 1], n)
  <2>1. h \in [0 .. N -> Worlds] /\ h[0] = w /\ \A n \in 1 .. N : h[n] = F[<<n, h[n - 1]>>]
    BY <1>7 DEF Goes
  <2>2. \A n \in 1 .. N : h[n - 1] \in Worlds
    BY <1>1, <2>1
  <2> QED  BY <1>6, <2>1, <2>2
<1>9. Def(h)
  <2>1. h = [n \in 0 .. N |-> h[n]]
    BY <1>8
  <2>2. \A n \in 0 .. N : h[n] = IF n = 0 THEN w ELSE One(h[n - 1], n)
    BY <1>1, <1>8
  <2> QED  BY <2>1, <2>2
<1>10. Def(after)
  BY <1>9
<1> HIDE DEF after
<1>11. \A n \in 0 .. N : after[n] = IF n = 0 THEN w ELSE One(after[n - 1], n)
  BY <1>10, Zenon
<1>12. after[0] = w /\ \A n \in 1 .. N : after[n] = One(after[n - 1], n)
  BY <1>1, <1>11
<1> DEFINE P == {n \in 0 .. N : after[n] \in Worlds}
<1>13. 0 \in P
  BY <1>1, <1>12
<1>14. \A n \in 0 .. N - 1 : n \in P => n + 1 \in P
  <2> TAKE n \in 0 .. N - 1
  <2> HAVE n \in P
  <2>1. n + 1 \in 1 .. N /\ n + 1 \in 0 .. N /\ (n + 1) - 1 = n
    BY <1>1
  <2>2. after[n + 1] = One(after[n], n + 1)
    BY <1>12, <2>1
  <2> QED  BY <1>2, <2>1, <2>2
<1> HIDE DEF P
<1>15. 0 .. N \subseteq P
  BY <1>1, <1>13, <1>14, InductionUpTo
<1>16. after \in [0 .. N -> Worlds]
  <2>1. \A n \in 0 .. N : after[n] \in Worlds
    BY <1>15 DEF P
  <2>2. after = [n \in 0 .. N |-> after[n]]
    BY <1>10
  <2> HIDE DEF Def
  <2> QED  BY <2>1, <2>2
<1>17. \A n \in 1 .. N : after[n] = Moved(after[n - 1], list[n], from, to)
  BY <1>4, <1>12
<1> HIDE DEF after
<1> QED  BY <1>3, <1>12, <1>16, <1>17 DEF N, TransferPath

-----------------------------------------------------------------------------
(* What the clean-up has yet to release. *)
Pending(d) == {d[i] : i \in {j \in DOMAIN d : j >= cursor}}

(* All marked entities that live are yet to be released, except those of D, *)
(* whose removal is under way; no entity is on a list twice.                *)
Sound(w, D) ==
  /\ w \in Worlds
  /\ cursor \in 0 .. Len(w.delList) + 1
  /\ Pending(w.delList) = (live \cap w.killme) \ D
  /\ IsInjective(w.delList) /\ Range(w.delList) \subseteq w.killme \ D
  /\ IsInjective(w.queue) /\ Range(w.queue) \subseteq live

(* What removals do: nobody is unmarked; during a callback nobody is       *)
(* marked and only the unmarked are put off, otherwise nobody is put off.  *)
Later(w, v) ==
  /\ w.killme \subseteq v.killme
  /\ Range(w.queue) \subseteq Range(v.queue)
  /\ Range(v.queue) \subseteq Range(w.queue) \cup (live \ w.killme)
  /\ ~inCallback => v.queue = w.queue
  /\ inCallback => v.killme = w.killme

(* Those whose removal has begun: during a callback it may be put off. *)
Going(v) == IF inCallback THEN v.killme \cup Range(v.queue) ELSE v.killme

LEMMA LaterSame == \A w : Later(w, w)
  BY DEF Later

LEMMA LaterTwice ==
  \A w, v, u : Later(w, v) /\ Later(v, u) => Later(w, u)
  BY DEF Later

LEMMA LaterGoing ==
  \A w, v : Later(w, v) => Going(w) \subseteq Going(v)
  BY DEF Later, Going

(* An element that is not in a list goes to its end. *)
LEMMA Appended ==
  ASSUME NEW X, NEW s \in Seq(X), NEW e \in X, IsInjective(s), e \notin Range(s),
         cursor \in 0 .. Len(s) + 1
  PROVE  /\ Append(s, e) \in Seq(X)
         /\ IsInjective(Append(s, e))
         /\ Range(Append(s, e)) = Range(s) \cup {e}
         /\ cursor \in 0 .. Len(Append(s, e)) + 1
         /\ Pending(Append(s, e)) = Pending(s) \cup {e}
<1> DEFINE t == Append(s, e)
<1>1. /\ t \in Seq(X) /\ Len(t) = Len(s) + 1 /\ Len(s) \in Nat
      /\ DOMAIN t = 1 .. Len(s) + 1 /\ DOMAIN s = 1 .. Len(s)
      /\ \A i \in 1 .. Len(s) : t[i] = s[i]
      /\ t[Len(s) + 1] = e
  OBVIOUS
<1> HIDE DEF t
<1>2. \A i \in 1 .. Len(s) : s[i] # e
  BY <1>1 DEF Range
<1>3. \A i, j \in 1 .. Len(s) : s[i] = s[j] => i = j
  BY <1>1 DEF IsInjective
<1>4. IsInjective(t)
  <2> SUFFICES ASSUME NEW i \in DOMAIN t, NEW j \in DOMAIN t, t[i] = t[j]  PROVE i = j
    BY DEF IsInjective
  <2>1. (i \in 1 .. Len(s) \/ i = Len(s) + 1) /\ (j \in 1 .. Len(s) \/ j = Len(s) + 1)
    BY <1>1
  <2> QED  BY <1>1, <1>2, <1>3, <2>1
<1>5. DOMAIN t = DOMAIN s \cup {Len(s) + 1}
  BY <1>1
<1>6. Range(t) = Range(s) \cup {e}
  BY <1>1, <1>5 DEF Range
<1>7. Pending(t) = Pending(s) \cup {e}
  <2>1. {j \in DOMAIN t : j >= cursor} = {j \in DOMAIN s : j >= cursor} \cup {Len(s) + 1}
    BY <1>1, <1>5
  <2> QED  BY <1>1, <2>1 DEF Pending
<1>8. cursor \in 0 .. Len(t) + 1
  BY <1>1
<1> QED  BY <1>1, <1>4, <1>6, <1>7, <1>8 DEF t

(* A removal that is put off. *)
LEMMA DeferSound ==
  ASSUME Born, NEW w, NEW D, Sound(w, D), NEW e \in live \ w.killme, inCallback
  PROVE  /\ Sound(Defer(w, e), D) /\ Later(w, Defer(w, e))
         /\ e \in Going(Defer(w, e)) /\ Defer(w, e).parent = w.parent
<1>1. CASE e \in Range(w.queue)
  BY <1>1, LaterSame DEF Defer, Going
<1>2. CASE e \notin Range(w.queue)
  <2> DEFINE v == [w EXCEPT !.queue = Append(@, e)]
  <2>1. w \in Worlds /\ e \in Ents
    BY DEF Sound, Born
  <2>2. /\ v \in Worlds /\ v.queue = Append(w.queue, e) /\ v.killme = w.killme
        /\ v.delList = w.delList /\ v.parent = w.parent
    BY <2>1, ListedType
  <2>3. Defer(w, e) = v
    BY <1>2 DEF Defer
  <2> HIDE DEF v
  <2>4. IsInjective(v.queue) /\ Range(v.queue) = Range(w.queue) \cup {e}
    <3> DEFINE s == w.queue
               t == Append(s, e)
    <3>1. s \in Seq(Ents) /\ IsInjective(s) /\ e \notin Range(s)
      BY <1>2, <2>1, WorldFields DEF Sound
    <3> HIDE DEF s
    <3>2. /\ t \in Seq(Ents) /\ Len(s) \in Nat
          /\ DOMAIN t = 1 .. Len(s) + 1 /\ DOMAIN s = 1 .. Len(s)
          /\ \A i \in 1 .. Len(s) : t[i] = s[i]
          /\ t[Len(s) + 1] = e
      BY <2>1, <3>1
    <3>3. v.queue = t
      BY <2>2 DEF s
    <3> HIDE DEF t
    <3>4. \A i \in 1 .. Len(s) : s[i] # e
      BY <3>1, <3>2 DEF Range
    <3>5. \A i, j \in 1 .. Len(s) : s[i] = s[j] => i = j
      BY <3>1, <3>2 DEF IsInjective
    <3>6. IsInjective(t)
      <4> SUFFICES ASSUME NEW i \in DOMAIN t, NEW j \in DOMAIN t, t[i] = t[j]  PROVE i = j
        BY DEF IsInjective
      <4>1. (i \in 1 .. Len(s) \/ i = Len(s) + 1) /\ (j \in 1 .. Len(s) \/ j = Len(s) + 1)
        BY <3>2
      <4> QED  BY <3>2, <3>4, <3>5, <4>1
    <3>7. DOMAIN t = DOMAIN s \cup {Len(s) + 1}
      BY <3>2
    <3>8. Range(t) = Range(s) \cup {e}
      BY <3>2, <3>7 DEF Range
    <3> QED  BY <3>3, <3>6, <3>8 DEF s
  <2> QED  BY <2>2, <2>3, <2>4 DEF Sound, Later, Going
<1> QED  BY <1>1, <1>2

(* The part of a removal that marks. *)
LEMMA MarkSound ==
  ASSUME Born, NEW w, NEW D, Sound(w, D), NEW e \in live \ w.killme
  PROVE  Sound(Mark(w, e), D \cup {e})
<1>1. w \in Worlds
  BY DEF Sound
<1>2. /\ Mark(w, e) \in Worlds /\ Mark(w, e).killme = w.killme \cup {e}
      /\ Mark(w, e).delList = w.delList /\ Mark(w, e).queue = w.queue
  BY <1>1, MarkType
<1> QED  BY <1>2 DEF Sound

(* The part that puts what is marked on the delete list. *)
LEMMA ListedSound ==
  ASSUME Born, NEW w, NEW D, NEW e \in live \cap w.killme, e \notin D, Sound(w, D \cup {e})
  PROVE  LET v == [w EXCEPT !.delList = Append(@, e)]
         IN  /\ Sound(v, D) /\ v.killme = w.killme /\ v.queue = w.queue
             /\ v.parent = w.parent
<1> DEFINE v == [w EXCEPT !.delList = Append(@, e)]
<1>1. w \in Worlds /\ e \in Ents
  BY DEF Sound, Born
<1>2. /\ v \in Worlds /\ v.delList = Append(w.delList, e) /\ v.killme = w.killme
      /\ v.queue = w.queue /\ v.parent = w.parent
  BY <1>1, ListedType
<1> HIDE DEF v
<1> DEFINE s == w.delList
<1>3. /\ s \in Seq(Ents) /\ IsInjective(s) /\ e \notin Range(s)
      /\ cursor \in 0 .. Len(s) + 1
  BY <1>1, WorldFields DEF Sound
<1> HIDE DEF s
<1>4. /\ IsInjective(Append(s, e)) /\ Range(Append(s, e)) = Range(s) \cup {e}
      /\ cursor \in 0 .. Len(Append(s, e)) + 1
      /\ Pending(Append(s, e)) = Pending(s) \cup {e}
  BY <1>1, <1>3, Appended
<1>5. /\ IsInjective(v.delList) /\ Range(v.delList) = Range(w.delList) \cup {e}
      /\ cursor \in 0 .. Len(v.delList) + 1
      /\ Pending(v.delList) = Pending(w.delList) \cup {e}
  BY <1>2, <1>4 DEF s
<1>6. Sound(v, D)
  BY <1>2, <1>5 DEF Sound
<1> QED  BY <1>2, <1>6 DEF v

LEMMA RemoveLeafSound ==
  ASSUME Born, NEW w, NEW D, Sound(w, D), D \subseteq w.killme, NEW e \in live
  PROVE  /\ Sound(RemoveLeaf(w, e), D) /\ Later(w, RemoveLeaf(w, e))
         /\ e \in Going(RemoveLeaf(w, e))
<1>1. CASE e \in w.killme
  BY <1>1, LaterSame DEF RemoveLeaf, Going
<1>2. CASE e \notin w.killme /\ inCallback
  BY <1>2, DeferSound DEF RemoveLeaf
<1>3. CASE e \notin w.killme /\ ~inCallback
  <2> DEFINE m == Mark(w, e)
             v == [m EXCEPT !.delList = Append(@, e)]
  <2>1. Sound(m, D \cup {e}) /\ e \notin D
    BY <1>3, MarkSound
  <2>2. m.killme = w.killme \cup {e} /\ m.queue = w.queue
    BY MarkType DEF Sound
  <2>3. RemoveLeaf(w, e) = v
    BY <1>3 DEF RemoveLeaf
  <2> HIDE DEF m
  <2>4. Sound(v, D) /\ v.killme = m.killme /\ v.queue = m.queue
    BY <2>1, <2>2, ListedSound
  <2> HIDE DEF v
  <2> QED  BY <1>3, <2>2, <2>3, <2>4 DEF Later, Going
<1> QED  BY <1>1, <1>2, <1>3

(* All children: each is marked or put off. *)
LEMMA LeavesRemovedSound ==
  ASSUME Born, NEW w, NEW D, Sound(w, D), D \subseteq w.killme, NEW list \in Seq(live)
  PROVE  /\ Sound(LeavesRemoved(w, list), D) /\ Later(w, LeavesRemoved(w, list))
         /\ Range(list) \subseteq Going(LeavesRemoved(w, list))
<1> DEFINE N == Len(list)
<1>1. w \in Worlds /\ N \in Nat
  BY DEF Sound
<1>2. PICK after \in [0 .. N -> Worlds] :
        /\ after[0] = w
        /\ \A n \in 1 .. N : after[n] = RemoveLeaf(after[n - 1], list[N + 1 - n])
        /\ LeavesRemoved(w, list) = after[N]
  BY <1>1, LeavesRemovedRead
<1>3. \A n \in 1 .. N : list[N + 1 - n] \in live
  OBVIOUS
<1> DEFINE Done(n) == {list[N + 1 - i] : i \in 1 .. n}
           P == {n \in 0 .. N : /\ Sound(after[n], D) /\ Later(w, after[n])
                                /\ Done(n) \subseteq Going(after[n])}
<1> HIDE DEF N
<1>4. 0 \in P
  <2>1. Done(0) = {}
    OBVIOUS
  <2> QED  BY <1>1, <1>2, <2>1, LaterSame
<1>5. ASSUME NEW n \in 0 .. N - 1, n \in P  PROVE n + 1 \in P
  <2> DEFINE c == list[N + 1 - (n + 1)]
  <2>1. n + 1 \in 1 .. N /\ n + 1 \in 0 .. N /\ (n + 1) - 1 = n
    BY <1>1
  <2>2. after[n + 1] = RemoveLeaf(after[n], c) /\ c \in live
    BY <1>2, <1>3, <2>1
  <2>3. Sound(after[n], D) /\ Later(w, after[n]) /\ Done(n) \subseteq Going(after[n])
    BY <1>5
  <2>4. D \subseteq after[n].killme
    BY <2>3 DEF Later
  <2>5. /\ Sound(after[n + 1], D) /\ Later(after[n], after[n + 1])
        /\ c \in Going(after[n + 1])
    BY <2>2, <2>3, <2>4, RemoveLeafSound
  <2>6. Later(w, after[n + 1]) /\ Going(after[n]) \subseteq Going(after[n + 1])
    BY <2>3, <2>5, LaterTwice, LaterGoing
  <2>7. Done(n + 1) = Done(n) \cup {c}
    <3>1. 1 .. n + 1 = (1 .. n) \cup {n + 1}
      OBVIOUS
    <3> QED  BY <3>1
  <2> HIDE DEF Done, c
  <2> QED  BY <2>1, <2>3, <2>5, <2>6, <2>7
<1> HIDE DEF P
<1>6. N \in P
  <2>1. 0 .. N \subseteq P
    BY <1>1, <1>4, <1>5, InductionUpTo
  <2> QED  BY <1>1, <2>1
<1>7. Range(list) \subseteq Done(N)
  <2> SUFFICES ASSUME NEW i \in DOMAIN list  PROVE list[i] \in Done(N)
    BY DEF Range
  <2>1. i \in 1 .. N
    BY DEF N
  <2>2. N + 1 - i \in 1 .. N /\ N + 1 - (N + 1 - i) = i
    BY <1>1, <2>1
  <2> QED  BY <2>2
<1> QED  BY <1>2, <1>6, <1>7 DEF P

LEMMA UpdateOnRemoveSound ==
  ASSUME Born, NEW w, Sound(w, {}), NEW e \in live \ w.killme
  PROVE  LET v == UpdateOnRemove(w, e)
         IN  /\ Sound(v, {e}) /\ Later(Mark(w, e), v)
             /\ Mark(w, e).killme = w.killme \cup {e} /\ Mark(w, e).queue = w.queue
             /\ Range(AllChildren(Mark(w, e), e)) \subseteq Going(v)
<1> DEFINE m == Mark(w, e)
           list == AllChildren(m, e)
<1>1. Sound(m, {e})
  BY MarkSound
<1>2. m.killme = w.killme \cup {e} /\ m.queue = w.queue
  BY MarkType DEF Sound
<1>3. UpdateOnRemove(w, e) = LeavesRemoved(m, list)
  BY DEF UpdateOnRemove
<1> HIDE DEF m
<1>4. list \in Seq(live)
  BY <1>1, AllChildrenType DEF Sound, Born
<1> HIDE DEF list
<1>5. /\ Sound(LeavesRemoved(m, list), {e}) /\ Later(m, LeavesRemoved(m, list))
      /\ Range(list) \subseteq Going(LeavesRemoved(m, list))
  BY <1>1, <1>2, <1>4, LeavesRemovedSound
<1> QED  BY <1>2, <1>3, <1>5 DEF m, list

(* UTIL_Remove. *)
LEMMA RemovedSound ==
  ASSUME Born, NEW w, Sound(w, {}), NEW e \in live
  PROVE  /\ Sound(Removed(w, e), {}) /\ Later(w, Removed(w, e))
         /\ e \in Going(Removed(w, e))
<1>1. CASE e \in w.killme
  BY <1>1, LaterSame DEF Removed, Going
<1>2. CASE e \notin w.killme /\ inCallback
  BY <1>2, DeferSound DEF Removed
<1>3. CASE e \notin w.killme /\ ~inCallback
  <2> DEFINE u == UpdateOnRemove(w, e)
             v == [u EXCEPT !.delList = Append(@, e)]
  <2>1. /\ Sound(u, {} \cup {e}) /\ Later(Mark(w, e), u)
        /\ Mark(w, e).killme = w.killme \cup {e} /\ Mark(w, e).queue = w.queue
    BY <1>3, UpdateOnRemoveSound
  <2>2. Removed(w, e) = v
    BY <1>3 DEF Removed
  <2> HIDE DEF u
  <2>3. e \in live \cap u.killme
    BY <2>1 DEF Later
  <2>4. Sound(v, {}) /\ v.killme = u.killme /\ v.queue = u.queue
    BY <2>1, <2>3, ListedSound
  <2> HIDE DEF v
  <2> QED  BY <1>3, <2>1, <2>2, <2>4 DEF Later, Going
<1> QED  BY <1>1, <1>2, <1>3

LEMMA RemovedAllSound ==
  ASSUME Born, NEW w, Sound(w, {}), NEW list \in Seq(live)
  PROVE  /\ Sound(RemovedAll(w, list), {}) /\ Later(w, RemovedAll(w, list))
         /\ Range(list) \subseteq Going(RemovedAll(w, list))
<1> DEFINE N == Len(list)
<1>1. w \in Worlds /\ N \in Nat
  BY DEF Sound
<1>2. PICK after \in [0 .. N -> Worlds] :
        /\ after[0] = w
        /\ \A n \in 1 .. N : after[n] = Removed(after[n - 1], list[n])
        /\ RemovedAll(w, list) = after[N]
  BY <1>1, RemovedAllRead
<1>3. \A n \in 1 .. N : list[n] \in live
  OBVIOUS
<1> DEFINE Done(n) == {list[i] : i \in 1 .. n}
           P == {n \in 0 .. N : /\ Sound(after[n], {}) /\ Later(w, after[n])
                                /\ Done(n) \subseteq Going(after[n])}
<1> HIDE DEF N
<1>4. 0 \in P
  <2>1. Done(0) = {}
    OBVIOUS
  <2> QED  BY <1>1, <1>2, <2>1, LaterSame
<1>5. ASSUME NEW n \in 0 .. N - 1, n \in P  PROVE n + 1 \in P
  <2> DEFINE c == list[n + 1]
  <2>1. n + 1 \in 1 .. N /\ n + 1 \in 0 .. N /\ (n + 1) - 1 = n
    BY <1>1
  <2>2. after[n + 1] = Removed(after[n], c) /\ c \in live
    BY <1>2, <1>3, <2>1
  <2>3. Sound(after[n], {}) /\ Later(w, after[n]) /\ Done(n) \subseteq Going(after[n])
    BY <1>5
  <2>4. /\ Sound(after[n + 1], {}) /\ Later(after[n], after[n + 1])
        /\ c \in Going(after[n + 1])
    BY <2>2, <2>3, RemovedSound
  <2>5. Later(w, after[n + 1]) /\ Going(after[n]) \subseteq Going(after[n + 1])
    BY <2>3, <2>4, LaterTwice, LaterGoing
  <2>6. Done(n + 1) = Done(n) \cup {c}
    <3>1. 1 .. n + 1 = (1 .. n) \cup {n + 1}
      OBVIOUS
    <3> QED  BY <3>1
  <2> HIDE DEF Done, c
  <2> QED  BY <2>1, <2>3, <2>4, <2>5, <2>6
<1> HIDE DEF P
<1>6. N \in P
  <2>1. 0 .. N \subseteq P
    BY <1>1, <1>4, <1>5, InductionUpTo
  <2> QED  BY <1>1, <2>1
<1>7. Range(list) \subseteq Done(N)
  BY DEF Range, N
<1> QED  BY <1>2, <1>6, <1>7 DEF P

(* UpdateRemoveObjects, outside of a callback: whatever was put off is     *)
(* marked.                                                                 *)
LEMMA FlushedSound ==
  ASSUME Born, NEW w, Sound(w, {}), ~inCallback
  PROVE  /\ Sound(Flushed(w), {}) /\ Flushed(w).queue = <<>>
         /\ w.killme \cup Range(w.queue) \subseteq Flushed(w).killme
         /\ Flushed(w).parent = RemovedAll(w, w.queue).parent
         /\ Flushed(w).child = RemovedAll(w, w.queue).child
         /\ Flushed(w).peer = RemovedAll(w, w.queue).peer
         /\ Flushed(w).killme = RemovedAll(w, w.queue).killme
<1> DEFINE list == w.queue
           v == RemovedAll(w, list)
<1>1. list \in Seq(live)
  <2>1. list \in Seq(Ents) /\ Range(list) \subseteq live
    BY DEF Sound, Worlds
  <2> HIDE DEF list
  <2>2. \A i \in 1 .. Len(list) : list[i] \in live
    BY <2>1 DEF Range
  <2> QED  BY <2>1, <2>2
<1>2. Flushed(w) = [v EXCEPT !.queue = <<>>]
  BY DEF Flushed
<1>3. Sound(v, {}) /\ Later(w, v) /\ Range(list) \subseteq Going(v)
  BY <1>1, RemovedAllSound
<1>4. w.killme \cup Range(list) \subseteq v.killme
  BY <1>3 DEF Later, Going
<1> HIDE DEF v
<1>5. v \in Worlds
  BY <1>3 DEF Sound
<1> DEFINE u == [v EXCEPT !.queue = <<>>]
<1>6. /\ u \in Worlds /\ u.killme = v.killme /\ u.delList = v.delList /\ u.queue = <<>>
      /\ u.parent = v.parent /\ u.child = v.child /\ u.peer = v.peer
  <2>1. <<>> \in Seq(Ents)
    OBVIOUS
  <2>2. v \in [killme : SUBSET (Ents \ unborn), parent : [Ents -> Known],
              child : [Ents -> Known], peer : [Ents -> Known],
              delList : Seq(Ents), queue : Seq(Ents)]
    BY <1>5 DEF Worlds
  <2>3. \A e \in unborn : v.child[e] = None
    BY <1>5 DEF Worlds
  <2>4. u.child = v.child
    BY <2>2
  <2>5. u \in [killme : SUBSET (Ents \ unborn), parent : [Ents -> Known],
              child : [Ents -> Known], peer : [Ents -> Known],
              delList : Seq(Ents), queue : Seq(Ents)]
    BY <2>1, <2>2
  <2> QED  BY <2>2, <2>3, <2>4, <2>5 DEF Worlds
<1> HIDE DEF u
<1>7. IsInjective(u.queue) /\ Range(u.queue) = {}
  <2>1. DOMAIN u.queue = {}
    BY <1>6
  <2> QED  BY <2>1 DEF IsInjective, Range
<1>8. Sound(u, {})
  BY <1>3, <1>6, <1>7 DEF Sound
<1> QED  BY <1>2, <1>4, <1>6, <1>8 DEF u, v

-----------------------------------------------------------------------------
(* Nothing is put off while the delete list is cleaned up, and the clean-up *)
(* of Clear has everybody before it.                                        *)
Quiet == cursor # 0 => ~inCallback /\ queue = <<>>
Leaving == clearing => cursor # 0 /\ live \subseteq killme

RemovalInv == /\ Born
              /\ Sound(World, {})
              /\ Quiet
              /\ Leaving
              /\ inCallback \in BOOLEAN /\ clearing \in BOOLEAN

LEMMA WorldOf ==
  /\ World.killme = killme /\ World.parent = parent /\ World.child = child
  /\ World.peer = peer /\ World.delList = delList /\ World.queue = queue
  BY DEF World

(* A step whose only effect is that of removals. *)
LEMMA BecomesSound ==
  ASSUME Born, NEW w, Sound(w, {}), Becomes(w), UNCHANGED <<live, unborn, cursor, inCallback>>
  PROVE  World' = w /\ Born' /\ Sound(World, {})'
<1>1. World' = w
  <2>1. w = [killme |-> w.killme, parent |-> w.parent, child |-> w.child, peer |-> w.peer,
             delList |-> w.delList, queue |-> w.queue]
    BY DEF Sound, Worlds
  <2>2. World' = [killme |-> w.killme, parent |-> w.parent, child |-> w.child, peer |-> w.peer,
                  delList |-> w.delList, queue |-> w.queue]
    BY DEF World, Becomes
  <2> QED  BY <2>1, <2>2
<1>2. Born'
  BY DEF Born
<1>3. \A v : Sound(v, {}) => Sound(World, {})' \/ World' # v
  BY DEF Sound, Worlds, Known, Pending
<1> QED  BY <1>1, <1>2, <1>3

LEMMA InitRemovals == Init => RemovalInv
<1> SUFFICES ASSUME Init  PROVE RemovalInv
  OBVIOUS
<1>1. Born /\ Quiet /\ Leaving /\ inCallback \in BOOLEAN /\ clearing \in BOOLEAN
  BY DEF Init, Born, Quiet, Leaving
<1>2. World \in Worlds
  BY DEF Init, World, Worlds, Known
<1>3. \A s : s = <<>> => IsInjective(s) /\ Range(s) = {} /\ Pending(s) = {} /\ Len(s) = 0
  <2> TAKE s
  <2> HAVE s = <<>>
  <2>1. DOMAIN s = {} /\ Len(s) = 0
    OBVIOUS
  <2> QED  BY <2>1 DEF IsInjective, Range, Pending
<1>4. Sound(World, {})
  BY <1>2, <1>3, WorldOf DEF Sound, Init
<1> QED  BY <1>1, <1>4 DEF RemovalInv

LEMMA CreateRemovals ==
  ASSUME RemovalInv, NEW e \in Ents, Create(e)  PROVE RemovalInv'
<1>1. Born'
  BY DEF RemovalInv, Born, Create
<1>2. World' = World
  BY DEF World, Create
<1>3. World \in Worlds'
  <2>1. World \in Worlds /\ Known \subseteq Known' /\ unborn' \subseteq unborn
    BY DEF RemovalInv, Sound, Known, Create
  <2> QED  BY <2>1 DEF Worlds
<1>4. e \notin killme
  BY WorldFields, WorldOf DEF RemovalInv, Sound, Create
<1>5. Sound(World, {})'
  BY <1>2, <1>3, <1>4, WorldOf DEF RemovalInv, Sound, Create, Pending
<1>6. Quiet' /\ Leaving'
  BY DEF RemovalInv, Quiet, Leaving, Create
<1> QED  BY <1>1, <1>5, <1>6 DEF RemovalInv, Create

LEMMA UTIL_RemoveRemovals ==
  ASSUME RemovalInv, NEW e \in Ents, UTIL_Remove(e)  PROVE RemovalInv'
<1>1. PICK w : w = Removed(World, e)
  OBVIOUS
<1>2. Sound(w, {}) /\ Later(World, w) /\ Born /\ e \in live
  BY <1>1, RemovedSound DEF RemovalInv, UTIL_Remove
<1>3. World' = w /\ Born' /\ Sound(World, {})'
  BY <1>1, <1>2, BecomesSound DEF UTIL_Remove
<1>4. killme \subseteq killme' /\ (~inCallback => queue' = queue)
  BY <1>1, <1>2, WorldOf DEF UTIL_Remove, Becomes, Later
<1>5. Quiet' /\ Leaving'
  BY <1>4 DEF RemovalInv, Quiet, Leaving, UTIL_Remove
<1> QED  BY <1>3, <1>5 DEF RemovalInv, UTIL_Remove

LEMMA UTIL_RemoveImmediateRemovals ==
  ASSUME RemovalInv, NEW e \in Ents, UTIL_RemoveImmediate(e)  PROVE RemovalInv'
<1>1. PICK w : w = UpdateOnRemove(World, e)
  OBVIOUS
<1> DEFINE m == Mark(World, e)
<1>2. e \in live \ killme /\ cursor = 0 /\ e \notin Range(queue) /\ live' = live \ {e}
  BY DEF UTIL_RemoveImmediate
<1>3. /\ Sound(w, {e}) /\ Later(m, w)
      /\ m.killme = killme \cup {e} /\ m.queue = queue
  BY <1>1, <1>2, UpdateOnRemoveSound, WorldOf DEF RemovalInv
<1> HIDE DEF m
<1>4. Range(w.queue) \subseteq live \ {e} /\ e \in w.killme
  BY <1>2, <1>3 DEF Later, Sound
<1> DEFINE h == [w EXCEPT !.child[e] = None]
<1>5. w \in Worlds /\ Born /\ e \in live
  BY <1>2, <1>3 DEF Sound, RemovalInv
<1>6. /\ h \in Worlds /\ h.killme = w.killme /\ h.delList = w.delList /\ h.queue = w.queue
      /\ h.parent = w.parent /\ h.peer = w.peer /\ h.child = [w.child EXCEPT ![e] = None]
  BY <1>5, ChildSetType DEF OnlyHandles, Known
<1>7. PICK v : v = h
  OBVIOUS
<1>8. Becomes(v)
  BY <1>1, <1>7 DEF UTIL_RemoveImmediate
<1> HIDE DEF h
<1>9. World' = v
  <2>1. v = [killme |-> v.killme, parent |-> v.parent, child |-> v.child, peer |-> v.peer,
             delList |-> v.delList, queue |-> v.queue]
    BY <1>6, <1>7 DEF Worlds
  <2> QED  BY <1>8, <2>1 DEF World, Becomes
<1>10. v \in Worlds'
  BY <1>6, <1>7 DEF Worlds, Known, UTIL_RemoveImmediate
<1>11. /\ cursor' \in 0 .. Len(v.delList) + 1
       /\ Pending(v.delList)' = (live' \cap v.killme)
       /\ IsInjective(v.delList) /\ Range(v.delList) \subseteq v.killme
       /\ IsInjective(v.queue) /\ Range(v.queue) \subseteq live'
  <2>1. cursor' = cursor
    BY DEF UTIL_RemoveImmediate
  <2>2. Pending(v.delList)' = Pending(v.delList)
    BY <2>1 DEF Pending
  <2>3. (live \cap w.killme) \ {e} = live' \cap v.killme
    BY <1>2, <1>6, <1>7
  <2> QED  BY <1>2, <1>3, <1>4, <1>6, <1>7, <2>1, <2>2, <2>3 DEF Sound
<1>12. Sound(World, {})'
  BY <1>9, <1>10, <1>11 DEF Sound, Pending
<1>13. Born' /\ Quiet' /\ Leaving'
  BY <1>2 DEF RemovalInv, Born, Quiet, Leaving, UTIL_RemoveImmediate
<1> QED  BY <1>12, <1>13 DEF RemovalInv, UTIL_RemoveImmediate

(* A step that only changes handles. *)
LEMMA HandlesRemovals ==
  ASSUME RemovalInv, NEW w \in Worlds, OnlyHandles(World, w), Becomes(w),
         UNCHANGED <<live, unborn, cursor, inCallback, clearing>>
  PROVE  RemovalInv'
<1>1. Sound(w, {})
  BY WorldOf DEF RemovalInv, Sound, OnlyHandles
<1>2. Born' /\ Sound(World, {})'
  BY <1>1, BecomesSound DEF RemovalInv
<1>3. killme' = killme /\ queue' = queue
  BY WorldOf DEF OnlyHandles, Becomes
<1>4. Quiet' /\ Leaving'
  BY <1>3 DEF RemovalInv, Quiet, Leaving
<1> QED  BY <1>2, <1>4 DEF RemovalInv

LEMMA SetParentRemovals ==
  ASSUME RemovalInv, NEW c \in Ents, NEW p \in Ents \cup {None}, SetParent(c, p)
  PROVE  RemovalInv'
<1> DEFINE out == UnlinkFromParent(World, c)
<1>1. World \in Worlds /\ Born /\ c \in live /\ p \in live \cup {None}
  BY DEF RemovalInv, Sound, SetParent
<1>2. out \in Worlds /\ OnlyHandles(World, out)
  BY <1>1, UnlinkFromParentType
<1>3. PICK w : w = IF p \in {None, c} THEN out ELSE LinkChild(out, p, c)
  OBVIOUS
<1>4. Becomes(w) /\ UNCHANGED <<live, unborn, cursor, inCallback, clearing>>
  BY <1>3 DEF SetParent
<1> HIDE DEF out
<1>5. w \in Worlds /\ OnlyHandles(World, w)
  <2>1. CASE p \in {None, c}
    BY <1>2, <1>3, <2>1
  <2>2. CASE p \notin {None, c}
    <3>1. p \in live
      BY <1>1, <2>2
    <3>2. LinkChild(out, p, c) \in Worlds /\ OnlyHandles(out, LinkChild(out, p, c))
      BY <1>1, <1>2, <3>1, LinkChildType
    <3> QED  BY <1>2, <1>3, <2>2, <3>2 DEF OnlyHandles
  <2> QED  BY <2>1, <2>2
<1> QED  BY <1>4, <1>5, HandlesRemovals

LEMMA TransferredType ==
  ASSUME Born, NEW w \in Worlds, NEW list \in Seq(live), NEW from \in live, NEW to \in live
  PROVE  /\ Transferred(w, list, from, to) \in Worlds
         /\ OnlyHandles(w, Transferred(w, list, from, to))
<1> DEFINE N == Len(list)
<1>0. PICK after : TransferPath(after, w, list, from, to)
  BY TransferredRead
<1>1. /\ after \in [0 .. N -> Worlds]
      /\ after[0] = w
      /\ \A n \in 1 .. N : after[n] = Moved(after[n - 1], list[n], from, to)
      /\ Transferred(w, list, from, to) = after[N]
  BY <1>0 DEF TransferPath
<1>2. N \in Nat /\ \A n \in 1 .. N : list[n] \in live
  OBVIOUS
<1> DEFINE P == {n \in 0 .. N : OnlyHandles(w, after[n])}
<1> HIDE DEF N
<1>3. 0 \in P
  BY <1>1, <1>2 DEF OnlyHandles
<1>4. ASSUME NEW n \in 0 .. N - 1, n \in P  PROVE n + 1 \in P
  <2> DEFINE c == list[n + 1]
             u == UnlinkChild(after[n], from, c)
  <2>1. n + 1 \in 1 .. N /\ n + 1 \in 0 .. N /\ (n + 1) - 1 = n /\ n \in 0 .. N
    BY <1>2
  <2>2. after[n + 1] = LinkChild(u, to, c) /\ c \in live /\ after[n] \in Worlds
    BY <1>1, <1>2, <2>1 DEF Moved
  <2>3. u \in Worlds /\ OnlyHandles(after[n], u)
    BY <2>2, UnlinkChildType DEF Born
  <2> HIDE DEF u
  <2>4. OnlyHandles(u, LinkChild(u, to, c))
    BY <2>2, <2>3, LinkChildType
  <2> QED  BY <1>4, <2>1, <2>2, <2>3, <2>4 DEF OnlyHandles
<1> HIDE DEF P
<1>5. N \in P
  <2>1. 0 .. N \subseteq P
    BY <1>2, <1>3, <1>4, InductionUpTo
  <2> QED  BY <1>2, <2>1
<1>6. N \in 0 .. N
  BY <1>2
<1> QED  BY <1>1, <1>5, <1>6 DEF P

LEMMA TransferChildrenRemovals ==
  ASSUME RemovalInv, NEW from \in Ents, NEW to \in Ents, TransferChildren(from, to)
  PROVE  RemovalInv'
<1>1. PICK w : w = Transferred(World, Children(World, from), from, to)
  OBVIOUS
<1>2. World \in Worlds /\ Born /\ from \in live /\ to \in live
  BY DEF RemovalInv, Sound, TransferChildren
<1>3. Children(World, from) \in Seq(live)
  BY <1>2, ChildrenType
<1>4. w \in Worlds /\ OnlyHandles(World, w)
  BY <1>1, <1>2, <1>3, TransferredType
<1>5. Becomes(w) /\ UNCHANGED <<live, unborn, cursor, inCallback, clearing>>
  BY <1>1 DEF TransferChildren
<1> QED  BY <1>4, <1>5, HandlesRemovals

LEMMA CallbackRemovals == RemovalInv /\ Callback => RemovalInv'
<1> SUFFICES ASSUME RemovalInv, Callback  PROVE RemovalInv'
  OBVIOUS
<1>1. World' = World /\ World \in Worlds
  BY DEF World, Callback, RemovalInv, Sound
<1>2. Sound(World, {})'
  BY <1>1 DEF RemovalInv, Sound, Worlds, Known, Pending, Callback
<1> QED  BY <1>2 DEF RemovalInv, Born, Quiet, Leaving, Callback

LEMMA FlushQueueRemovals == RemovalInv /\ FlushQueue => RemovalInv'
<1> SUFFICES ASSUME RemovalInv, FlushQueue  PROVE RemovalInv'
  OBVIOUS
<1>1. PICK w : w = Flushed(World)
  OBVIOUS
<1>2. ~inCallback /\ cursor = 0 /\ Becomes(w) /\ UNCHANGED <<live, unborn, cursor, inCallback, clearing>>
  BY <1>1 DEF FlushQueue
<1>3. Sound(w, {})
  BY <1>1, <1>2, FlushedSound DEF RemovalInv
<1>4. Born' /\ Sound(World, {})'
  BY <1>2, <1>3, BecomesSound DEF RemovalInv
<1>5. Quiet' /\ Leaving'
  BY <1>2 DEF RemovalInv, Quiet, Leaving
<1> QED  BY <1>2, <1>4, <1>5 DEF RemovalInv

(* The clean-up starts from the first entry of the list. *)
LEMMA CleanupSound ==
  ASSUME Born, NEW w, Sound(w, {}), cursor = 0, Becomes(w), cursor' = 1,
         UNCHANGED <<live, unborn, inCallback>>
  PROVE  World' = w /\ Born' /\ Sound(World, {})'
<1>1. World' = w
  <2>1. w = [killme |-> w.killme, parent |-> w.parent, child |-> w.child, peer |-> w.peer,
             delList |-> w.delList, queue |-> w.queue]
    BY DEF Sound, Worlds
  <2> QED  BY <2>1 DEF World, Becomes
<1>2. w \in Worlds'
  BY DEF Sound, Worlds, Known
<1>3. Pending(w.delList)' = Pending(w.delList) /\ cursor' \in 0 .. Len(w.delList) + 1
  <2> DEFINE d == w.delList
  <2>1. d \in Seq(Ents)
    BY DEF Sound, Worlds
  <2> HIDE DEF d
  <2>2. Len(d) \in Nat /\ DOMAIN d = 1 .. Len(d)
    BY <2>1
  <2>3. {j \in DOMAIN d : j >= cursor'} = {j \in DOMAIN d : j >= cursor}
    BY <2>2
  <2> QED  BY <2>2, <2>3 DEF Pending, d
<1>4. Sound(World, {})'
  BY <1>1, <1>2, <1>3 DEF Sound, Pending
<1> QED  BY <1>1, <1>4 DEF Born

LEMMA BeginCleanupRemovals == RemovalInv /\ BeginCleanup => RemovalInv'
<1> SUFFICES ASSUME RemovalInv, BeginCleanup  PROVE RemovalInv'
  OBVIOUS
<1>1. PICK w : w = Flushed(World)
  OBVIOUS
<1>2. /\ ~inCallback /\ cursor = 0 /\ Becomes(w) /\ cursor' = 1
      /\ UNCHANGED <<live, unborn, inCallback, clearing>>
  BY <1>1 DEF BeginCleanup
<1>3. Sound(w, {}) /\ w.queue = <<>>
  BY <1>1, <1>2, FlushedSound DEF RemovalInv
<1>4. Born' /\ Sound(World, {})'
  BY <1>2, <1>3, CleanupSound DEF RemovalInv
<1>5. Quiet' /\ Leaving'
  BY <1>2, <1>3 DEF RemovalInv, Quiet, Leaving, Becomes
<1> QED  BY <1>2, <1>4, <1>5 DEF RemovalInv

LEMMA ReleaseRemovals == RemovalInv /\ Release => RemovalInv'
<1> SUFFICES ASSUME RemovalInv, Release  PROVE RemovalInv'
  OBVIOUS
<1> DEFINE e == delList[cursor]
<1>1. /\ cursor \in 1 .. Len(delList) /\ delList \in Seq(Ents) /\ queue = <<>>
      /\ IsInjective(delList) /\ Len(delList) \in Nat /\ DOMAIN delList = 1 .. Len(delList)
  <2>1. delList \in Seq(Ents) /\ IsInjective(delList)
    BY WorldOf, WorldFields DEF RemovalInv, Sound
  <2>2. cursor \in 1 .. Len(delList)
    BY <2>1 DEF Release
  <2>3. queue = <<>>
    BY <2>2 DEF RemovalInv, Quiet
  <2> QED  BY <2>1, <2>2, <2>3
<1>2. Pending(delList) = live \cap killme
  BY WorldOf DEF RemovalInv, Sound
<1>3. Pending(delList)' = Pending(delList) \ {e}
  <2>1. delList' = delList /\ cursor' = cursor + 1
    BY DEF Release
  <2>2. {j \in DOMAIN delList : j >= cursor + 1} = {j \in DOMAIN delList : j >= cursor} \ {cursor}
    BY <1>1
  <2>3. \A i \in DOMAIN delList : delList[i] = e <=> i = cursor
    BY <1>1 DEF IsInjective
  <2> HIDE DEF e
  <2> QED  BY <2>1, <2>2, <2>3 DEF Pending
<1>4. live' = live \ {e}
  BY DEF Release
<1>5. e \in live /\ e \in Ents
  BY <1>1, <1>2 DEF Pending, RemovalInv, Born
<1>6. World' = [World EXCEPT !.child[e] = None]
  BY DEF World, Release
<1>7. World' \in Worlds
  BY <1>5, <1>6, ChildSetType DEF RemovalInv, Sound, Known
<1>8. World' \in Worlds'
  BY <1>7 DEF Worlds, Known, Release
<1>9. Range(queue) = {}
  BY <1>1 DEF Range
<1>10. /\ killme' = killme /\ delList' = delList /\ queue' = queue /\ cursor' = cursor + 1
       /\ clearing' = clearing /\ inCallback' = inCallback /\ unborn' = unborn
  BY DEF Release
<1>11. /\ World'.delList = delList /\ World'.killme = killme /\ World'.queue = queue
  BY <1>10 DEF World
<1>12. Pending(World.delList)' = live' \cap killme
  <2>1. Pending(World.delList)' = Pending(delList)'
    BY <1>10, <1>11 DEF Pending
  <2>2. (live \cap killme) \ {e} = live' \cap killme
    BY <1>4
  <2> HIDE DEF e
  <2> QED  BY <1>2, <1>3, <2>1, <2>2
<1>13. Sound(World, {})'
  <2>1. cursor' \in 0 .. Len(delList) + 1
    BY <1>1, <1>10
  <2>2. IsInjective(delList) /\ Range(delList) \subseteq killme /\ IsInjective(queue)
    BY WorldOf DEF RemovalInv, Sound
  <2> QED  BY <1>8, <1>9, <1>11, <1>12, <2>1, <2>2 DEF Sound
<1>14. Born'
  BY <1>4, <1>10 DEF RemovalInv, Born
<1>15. Quiet' /\ Leaving'
  BY <1>1, <1>4, <1>10 DEF RemovalInv, Quiet, Leaving
<1> QED  BY <1>10, <1>13, <1>14, <1>15 DEF RemovalInv

(* The order in which Clear meets the entities has all of them. *)
LEMMA OrderHasAll ==
  ASSUME Born, NEW o \in Orders(live)
  PROVE  o \in Seq(live) /\ Range(o) = live
<1> DEFINE n == Cardinality(live)
<1>1. IsFiniteSet(live) /\ n \in Nat
  <2>1. live \in SUBSET Ents
    BY DEF Born
  <2> QED  BY <2>1, RemovalConstants, FS_Subset, FS_CardinalityType
<1>2. o \in [1 .. n -> live] /\ IsInjective(o)
  BY DEF Orders
<1>3. IsFiniteSet(1 .. n) /\ Cardinality(1 .. n) = n
  <2>1. IsFiniteSet(1 .. n) /\ Cardinality(1 .. n) = IF 1 > n THEN 0 ELSE n - 1 + 1
    BY <1>1, FS_Interval
  <2> QED  BY <1>1, <2>1
<1> HIDE DEF n
<1>4. o \in Injection(1 .. n, live)
  BY <1>2 DEF Injection, IsInjective
<1>5. Cardinality(1 .. n) = Cardinality(live)
  BY <1>3 DEF n
<1>6. o \in Surjection(1 .. n, live)
  BY <1>1, <1>4, <1>5, FS_Injection
<1>7. \A e \in live : \E i \in 1 .. n : o[i] = e
  BY <1>6 DEF Surjection
<1>8. o \in Seq(live) /\ DOMAIN o = 1 .. n
  BY <1>1, <1>2
<1> QED  BY <1>2, <1>7, <1>8 DEF Range

LEMMA ClearRemovals ==
  ASSUME RemovalInv, NEW o \in Orders(live), Clear(o)  PROVE RemovalInv'
<1>1. PICK v : v = RemovedAll(World, o)
  OBVIOUS
<1>2. PICK w : w = Flushed(v)
  OBVIOUS
<1>3. /\ ~inCallback /\ cursor = 0 /\ Becomes(w) /\ cursor' = 1 /\ clearing' = TRUE
      /\ UNCHANGED <<live, unborn, inCallback>>
  BY <1>1, <1>2 DEF Clear, CleanupAfter
<1>4. o \in Seq(live) /\ Range(o) = live
  BY OrderHasAll DEF RemovalInv
<1>5. Sound(v, {}) /\ live \subseteq v.killme
  BY <1>1, <1>3, <1>4, RemovedAllSound DEF RemovalInv, Going
<1>6. Sound(w, {}) /\ w.queue = <<>> /\ v.killme \subseteq w.killme
  BY <1>2, <1>3, <1>5, FlushedSound DEF RemovalInv
<1>7. Born' /\ Sound(World, {})'
  BY <1>3, <1>6, CleanupSound DEF RemovalInv
<1>8. Quiet' /\ Leaving'
  BY <1>3, <1>5, <1>6 DEF Quiet, Leaving, Becomes
<1> QED  BY <1>3, <1>7, <1>8 DEF RemovalInv

(* At the end of the clean-up no marked entity is left. *)
LEMMA CleanedUp == RemovalInv /\ EndCleanup => live \cap killme = {}
<1> SUFFICES ASSUME RemovalInv, EndCleanup  PROVE live \cap killme = {}
  OBVIOUS
<1>1. delList \in Seq(Ents)
  BY WorldOf, WorldFields DEF RemovalInv, Sound
<1>2. {j \in DOMAIN delList : j >= cursor} = {}
  BY <1>1 DEF EndCleanup
<1>3. Pending(delList) = {}
  BY <1>2 DEF Pending
<1> QED  BY <1>3, WorldOf DEF RemovalInv, Sound

LEMMA EndCleanupRemovals == RemovalInv /\ EndCleanup => RemovalInv'
<1> SUFFICES ASSUME RemovalInv, EndCleanup  PROVE RemovalInv'
  OBVIOUS
<1>1. live \cap killme = {}
  BY CleanedUp
<1>2. /\ cursor' = 0 /\ delList' = <<>> /\ clearing' = FALSE
      /\ UNCHANGED <<live, unborn, killme, parent, child, peer, queue, inCallback>>
  BY DEF EndCleanup
<1>3. World' \in Worlds'
  <2>1. World' = [World EXCEPT !.delList = <<>>]
    BY <1>2 DEF World
  <2>2. World' \in Worlds
    <3>1. <<>> \in Seq(Ents)
      OBVIOUS
    <3>2. World \in [killme : SUBSET (Ents \ unborn), parent : [Ents -> Known],
              child : [Ents -> Known], peer : [Ents -> Known],
              delList : Seq(Ents), queue : Seq(Ents)]
          /\ \A e \in unborn : World.child[e] = None
      BY DEF RemovalInv, Sound, Worlds
    <3>3. World'.child = World.child
      BY <1>2 DEF World
    <3>4. World' \in [killme : SUBSET (Ents \ unborn), parent : [Ents -> Known],
              child : [Ents -> Known], peer : [Ents -> Known],
              delList : Seq(Ents), queue : Seq(Ents)]
      BY <2>1, <3>1, <3>2
    <3> QED  BY <3>2, <3>3, <3>4 DEF Worlds
  <2> QED  BY <1>2, <2>2 DEF Worlds, Known
<1>4. /\ World'.delList = <<>> /\ World'.killme = killme /\ World'.queue = queue
  BY <1>2 DEF World
<1>5. IsInjective(<<>>) /\ Range(<<>>) = {} /\ Len(<<>>) = 0 /\ DOMAIN <<>> = {}
  <2>1. DOMAIN <<>> = {} /\ Len(<<>>) = 0
    OBVIOUS
  <2> QED  BY <2>1 DEF IsInjective, Range
<1>6. Pending(World.delList)' = {}
  BY <1>4, <1>5 DEF Pending
<1>7. Sound(World, {})'
  <2>1. IsInjective(queue) /\ Range(queue) \subseteq live
    BY WorldOf DEF RemovalInv, Sound
  <2>2. cursor' \in 0 .. Len(World'.delList) + 1
    BY <1>2, <1>4, <1>5
  <2>3. IsInjective(World'.delList) /\ Range(World'.delList) \subseteq killme \ {}
    BY <1>4, <1>5
  <2>4. Pending(World.delList)' = (live' \cap World'.killme) \ {}
    BY <1>1, <1>2, <1>4, <1>6
  <2> QED  BY <1>2, <1>3, <1>4, <2>1, <2>2, <2>3, <2>4 DEF Sound
<1>8. Born' /\ Quiet' /\ Leaving'
  BY <1>2 DEF RemovalInv, Born, Quiet, Leaving
<1> QED  BY <1>2, <1>7, <1>8 DEF RemovalInv

LEMMA NextRemovals == RemovalInv /\ [Next]_vars => RemovalInv'
<1> SUFFICES ASSUME RemovalInv, [Next]_vars  PROVE RemovalInv'
  OBVIOUS
<1>1. CASE UNCHANGED vars
  <2>1. World' = World
    BY <1>1 DEF vars, World
  <2>2. Sound(World, {})'
    BY <1>1, <2>1 DEF vars, RemovalInv, Sound, Worlds, Known, Pending
  <2> QED  BY <1>1, <2>2 DEF vars, RemovalInv, Born, Quiet, Leaving
<1>2. CASE \E e \in Ents : Create(e) \/ UTIL_Remove(e) \/ UTIL_RemoveImmediate(e)
  BY <1>2, CreateRemovals, UTIL_RemoveRemovals, UTIL_RemoveImmediateRemovals
<1>3. CASE \E c \in Ents, p \in Ents \cup {None} : SetParent(c, p)
  BY <1>3, SetParentRemovals
<1>4. CASE \E from, to \in Ents : TransferChildren(from, to)
  BY <1>4, TransferChildrenRemovals
<1>5. CASE Callback \/ FlushQueue
  BY <1>5, CallbackRemovals, FlushQueueRemovals
<1>6. CASE \E o \in Orders(live) : Clear(o)
  BY <1>6, ClearRemovals
<1>7. CASE BeginCleanup \/ Release \/ EndCleanup
  BY <1>7, BeginCleanupRemovals, ReleaseRemovals, EndCleanupRemovals
<1> QED  BY <1>1, <1>2, <1>3, <1>4, <1>5, <1>6, <1>7 DEF Next

(* The removals keep their invariant through every step of the server. *)
THEOREM RemovalInductive == Spec => []RemovalInv
<1> QED  BY InitRemovals, NextRemovals, PTL DEF Spec

LEMMA RemovalTypes == RemovalInv => TypeOK /\ ReleasedOnce
<1> SUFFICES ASSUME RemovalInv  PROVE TypeOK /\ ReleasedOnce
  OBVIOUS
<1>1. /\ killme \subseteq Ents \ unborn
      /\ parent \in [Ents -> Known] /\ child \in [Ents -> Known] /\ peer \in [Ents -> Known]
      /\ delList \in Seq(Ents) /\ queue \in Seq(Ents)
  BY WorldFields, WorldOf DEF RemovalInv, Sound
<1>2. Known \subseteq Handles
  BY DEF Known, Handles
<1>3. parent \in [Ents -> Handles] /\ child \in [Ents -> Handles] /\ peer \in [Ents -> Handles]
  BY <1>1, <1>2
<1>4. /\ cursor \in 0 .. Len(delList) + 1 /\ IsInjective(delList) /\ IsInjective(queue)
      /\ Pending(delList) = live \cap killme /\ Range(queue) \subseteq live
  BY WorldOf DEF RemovalInv, Sound
<1>5. live \subseteq Ents /\ unborn \subseteq Ents \ live
  BY DEF RemovalInv, Born
<1>6. TypeOK
  BY <1>1, <1>3, <1>4, <1>5 DEF TypeOK, RemovalInv
<1>7. ReleasedOnce
  BY <1>4 DEF ReleasedOnce, Pending
<1> QED  BY <1>6, <1>7

(* TypeOK: handles name entities, the two lists have entities, none is put *)
(* off twice (UTIL_Remove, PhysCallbackRemove).                             *)
THEOREM Typing == Spec => []TypeOK
<1> QED  BY RemovalInductive, RemovalTypes, PTL

(* ReleasedOnce: every marked entity is released exactly once, whoever      *)
(* removes it and however often, and none that was put off is gone before   *)
(* (CleanupDeleteList, UpdateRemoveObjects).                                *)
THEOREM EachReleasedOnce == Spec => []ReleasedOnce
<1> QED  BY RemovalInductive, RemovalTypes, PTL

(* ClearLeavesNothing: when the clean-up of Clear ends, nobody is left      *)
(* (CGlobalEntityList::Clear).                                              *)
THEOREM ClearRemovesAll == Spec => ClearLeavesNothing
<1>1. RemovalInv /\ [Next]_vars => [clearing /\ ~clearing' => live' = {}]_vars
  <2> SUFFICES ASSUME RemovalInv, [Next]_vars, clearing, ~clearing'  PROVE live' = {}
    OBVIOUS
  <2>1. EndCleanup
    BY DEF Next, vars, Create, UTIL_Remove, UTIL_RemoveImmediate, SetParent,
       TransferChildren, Callback, FlushQueue, Clear, CleanupAfter, BeginCleanup, Release
  <2>2. live \cap killme = {} /\ live \subseteq killme /\ live' = live
    BY <2>1, CleanedUp DEF RemovalInv, Leaving, EndCleanup
  <2> QED  BY <2>2
<1> QED  BY <1>1, RemovalInductive, PTL DEF Spec, ClearLeavesNothing

-----------------------------------------------------------------------------
(* The hierarchy.  The handles of p lead through s, once through each.     *)
Threads(w, p, s) ==
  /\ s \in Seq(live)
  /\ \A i, j \in 1 .. Len(s) : s[i] = s[j] => i = j
  /\ Resolve(w.child[p]) = IF Len(s) = 0 THEN None ELSE s[1]
  /\ \A i \in 1 .. Len(s) : Resolve(w.peer[s[i]]) = IF i = Len(s) THEN None ELSE s[i + 1]

(* The list of children is what the handles lead through. *)
LEMMA ThreadRead ==
  ASSUME Born, NEW w \in Worlds, NEW p \in Ents, NEW s, Threads(w, p, s)
  PROVE  Children(w, p) = s
<1> DEFINE N == Cardinality(Ents)
           L == Len(s)
<1>1. PICK at \in [0 .. N -> live \cup {None}], k \in 0 .. N + 1 :
        /\ at[0] = Resolve(w.child[p])
        /\ \A n \in 1 .. N :
             at[n] = IF at[n - 1] = None THEN None ELSE Resolve(w.peer[at[n - 1]])
        /\ \A n \in 0 .. N : at[n] # None <=> n < k
        /\ Children(w, p) = [i \in 1 .. k |-> at[i - 1]]
  BY ChildrenRead
<1>2. N \in Nat /\ IsFiniteSet(Ents) /\ None \notin live
  BY RemovalConstants, FS_CardinalityType DEF Born
<1>3. s \in [1 .. L -> live] /\ L \in Nat
  BY DEF Threads
<1>4. L <= N
  <2>1. IsFiniteSet(1 .. L) /\ Cardinality(1 .. L) = L
    <3> HIDE DEF L
    <3>1. IsFiniteSet(1 .. L) /\ Cardinality(1 .. L) = IF 1 > L THEN 0 ELSE L - 1 + 1
      BY <1>3, FS_Interval
    <3> QED  BY <1>3, <3>1
  <2>2. s \in Injection(1 .. L, Ents)
    <3>1. s \in [1 .. L -> Ents]
      BY <1>3 DEF Born
    <3>2. \A i, j \in 1 .. L : s[i] = s[j] => i = j
      BY DEF Threads
    <3> HIDE DEF L
    <3> QED  BY <3>1, <3>2 DEF Injection, IsInjective
  <2> HIDE DEF L, N
  <2>3. Cardinality(1 .. L) <= Cardinality(Ents)
    BY <1>2, <2>2, FS_Injection
  <2> QED  BY <2>1, <2>3 DEF N
<1>5. /\ at[0] = IF L = 0 THEN None ELSE s[1]
      /\ \A i \in 1 .. L : Resolve(w.peer[s[i]]) = IF i = L THEN None ELSE s[i + 1]
  BY <1>1 DEF Threads
<1>6. s = [i \in 1 .. L |-> s[i]]
  BY <1>3
<1> HIDE DEF L, N
<1> DEFINE P == {n \in 0 .. L : at[n] = IF n = L THEN None ELSE s[n + 1]}
<1>7. 0 \in P
  BY <1>3, <1>5
<1>8. ASSUME NEW n \in 0 .. L - 1, n \in P  PROVE n + 1 \in P
  <2>1. n + 1 \in 1 .. N /\ n + 1 \in 1 .. L /\ (n + 1) - 1 = n /\ n # L /\ n + 1 \in 0 .. L
    BY <1>2, <1>3, <1>4
  <2>2. at[n] = s[n + 1] /\ at[n] # None
    BY <1>2, <1>3, <1>8, <2>1
  <2>3. at[n + 1] = Resolve(w.peer[s[n + 1]])
    BY <1>1, <2>1, <2>2
  <2>4. at[n + 1] = IF n + 1 = L THEN None ELSE s[(n + 1) + 1]
    BY <1>5, <2>1, <2>3
  <2> QED  BY <2>1, <2>4
<1> HIDE DEF P
<1>9. \A n \in 0 .. L : at[n] = IF n = L THEN None ELSE s[n + 1]
  <2>1. 0 .. L \subseteq P
    BY <1>3, <1>7, <1>8, InductionUpTo
  <2> QED  BY <2>1 DEF P
<1>10. k = L
  <2>1. at[L] = None /\ L \in 0 .. N
    BY <1>2, <1>3, <1>4, <1>9
  <2>2. ~(L < k)
    BY <1>1, <2>1
  <2>3. CASE L = 0
    BY <1>2, <2>2, <2>3
  <2>4. CASE L # 0
    <3>1. L - 1 \in 0 .. L /\ L - 1 # L /\ (L - 1) + 1 = L /\ L \in 1 .. L /\ L - 1 \in 0 .. N
      BY <1>2, <1>3, <1>4, <2>4
    <3>2. at[L - 1] = s[L] /\ at[L - 1] # None
      BY <1>2, <1>3, <1>9, <3>1
    <3>3. L - 1 < k
      BY <1>1, <3>1, <3>2
    <3> QED  BY <1>2, <1>3, <2>2, <3>3
  <2> QED  BY <2>3, <2>4
<1>11. \A i \in 1 .. L : at[i - 1] = s[i]
  <2> TAKE i \in 1 .. L
  <2>1. i - 1 \in 0 .. L /\ i - 1 # L /\ (i - 1) + 1 = i
    BY <1>3
  <2> QED  BY <1>9, <2>1
<1> QED  BY <1>1, <1>6, <1>10, <1>11

(* The entities below x, as deep as AllChildren looks. *)
Below(w, T) == UNION {Kids(w, c) : c \in T}

(* Who is collected has all its children collected: as long as one level   *)
(* adds somebody the levels have at least as many as there are levels, and *)
(* there are no more levels than entities.                                 *)
LEMMA AllChildrenClosed ==
  ASSUME Born, NEW w \in Worlds, NEW e \in Ents
  PROVE  /\ Kids(w, e) \subseteq Range(AllChildren(w, e))
         /\ \A c \in Range(AllChildren(w, e)) : Kids(w, c) \subseteq Range(AllChildren(w, e))
<1> DEFINE N == Cardinality(Ents)
<1>1. PICK below \in [0 .. N -> [Ents -> Seq(live)]] :
        /\ AllChildren(w, e) = below[N][e]
        /\ \A x \in Ents : below[0][x] = <<>>
        /\ \A n \in 1 .. N, x \in Ents : below[n][x] = Gathered(w, below[n - 1], x)
  BY AllChildrenRead
<1>2. N \in Nat /\ IsFiniteSet(Ents) /\ live \subseteq Ents
  BY RemovalConstants, FS_CardinalityType DEF Born
<1> HIDE DEF N
<1> DEFINE D(n, x) == Range(below[n][x])
           K(x) == Kids(w, x)
<1>3. \A x \in Ents : D(0, x) = {}
  <2>1. Range(<<>>) = {}
    <3>1. DOMAIN <<>> = {}
      OBVIOUS
    <3> QED  BY <3>1 DEF Range
  <2> QED  BY <1>1, <2>1
<1>4. \A n \in 0 .. N - 1, x \in Ents : D(n + 1, x) = K(x) \cup UNION {D(n, c) : c \in K(x)}
  <2> TAKE n \in 0 .. N - 1, x \in Ents
  <2>1. n + 1 \in 1 .. N /\ (n + 1) - 1 = n /\ n \in 0 .. N
    BY <1>2
  <2>2. below[n + 1][x] = Gathered(w, below[n], x) /\ below[n] \in [Ents -> Seq(live)]
    BY <1>1, <2>1
  <2> QED  BY <2>2, GatheredKids
<1>5. \A x \in Ents : K(x) \subseteq live
  BY KidsLive
<1>6. \A n \in 0 .. N, x \in Ents : D(n, x) \subseteq live
  <2> TAKE n \in 0 .. N, x \in Ents
  <2>1. below[n][x] \in Seq(live)
    OBVIOUS
  <2> QED  BY <2>1 DEF Range
<1> HIDE DEF D, K
<1> DEFINE B(T) == UNION {K(c) : c \in T}
           P == {n \in 0 .. N - 1 :
                   \A x \in Ents : D(n + 1, x) = K(x) \cup D(n, x) \cup B(D(n, x))}
<1>7. N >= 1
  <2>1. Cardinality({e}) = 1
    BY FS_Singleton
  <2>2. Cardinality({e}) <= N
    BY <1>2, FS_Subset DEF N
  <2> QED  BY <1>2, <2>1, <2>2
<1>8. 0 \in P
  <2>1. \A x \in Ents : UNION {D(0, c) : c \in K(x)} = {} /\ B(D(0, x)) = {}
    BY <1>2, <1>3, <1>5
  <2>2. 0 \in 0 .. N - 1
    BY <1>2, <1>7
  <2>3. \A x \in Ents : D(0 + 1, x) = K(x) \cup UNION {D(0, c) : c \in K(x)}
    BY <1>4, <2>2
  <2> HIDE DEF B
  <2>4. \A x \in Ents : D(0 + 1, x) = K(x) \cup D(0, x) \cup B(D(0, x))
    BY <1>3, <2>1, <2>3
  <2> QED  BY <2>2, <2>4
<1>9. ASSUME NEW n \in 0 .. (N - 1) - 1, n \in P  PROVE n + 1 \in P
  <2>1. n + 1 \in 0 .. N - 1 /\ n \in 0 .. N - 1
    BY <1>2
  <2> SUFFICES ASSUME NEW x \in Ents
               PROVE  D((n + 1) + 1, x) = K(x) \cup D(n + 1, x) \cup B(D(n + 1, x))
    BY <2>1
  <2>2. D((n + 1) + 1, x) = K(x) \cup UNION {D(n + 1, c) : c \in K(x)}
    BY <1>4, <2>1
  <2>3. D(n + 1, x) = K(x) \cup UNION {D(n, c) : c \in K(x)}
    BY <1>4, <2>1
  <2>4. \A c \in K(x) : D(n + 1, c) = K(c) \cup D(n, c) \cup B(D(n, c))
    BY <1>2, <1>5, <1>9
  <2> DEFINE UD == UNION {D(n, c) : c \in K(x)}
             UB == UNION {K(c) \cup B(D(n, c)) : c \in K(x)}
  <2>5. B(D(n + 1, x)) = UB
    BY <2>3
  <2> HIDE DEF B
  <2>6. UNION {D(n + 1, c) : c \in K(x)} = UD \cup UB
    <3>1. ASSUME NEW y, NEW c \in K(x)
          PROVE  y \in D(n + 1, c) <=> y \in D(n, c) \/ y \in K(c) \cup B(D(n, c))
      BY <2>4
    <3> QED  BY <3>1
  <2> HIDE DEF UB
  <2> QED  BY <2>2, <2>3, <2>5, <2>6
<1> HIDE DEF P
<1>10. \A n \in 0 .. N - 1 : D(n + 1, e) = K(e) \cup D(n, e) \cup B(D(n, e))
  <2>1. N - 1 \in Nat
    BY <1>2, <1>7
  <2>2. 0 .. N - 1 \subseteq P
    BY <1>8, <1>9, <2>1, InductionUpTo
  <2> QED  BY <2>2 DEF P
<1> DEFINE Closed(T) == K(e) \subseteq T /\ B(T) \subseteq T
           Q == {n \in 0 .. N : Closed(D(n, e)) \/ Cardinality(D(n, e)) >= n}
<1>11. \A n \in 0 .. N : IsFiniteSet(D(n, e)) /\ Cardinality(D(n, e)) \in Nat
  <2> TAKE n \in 0 .. N
  <2>1. D(n, e) \in SUBSET Ents
    BY <1>2, <1>6
  <2>2. IsFiniteSet(D(n, e))
    BY <1>2, <2>1, FS_Subset
  <2> QED  BY <2>2, FS_CardinalityType
<1> HIDE DEF B
<1>12. 0 \in Q
  <2>1. 0 \in 0 .. N
    BY <1>2
  <2> QED  BY <1>11, <2>1
<1>13. ASSUME NEW n \in 0 .. N - 1, n \in Q  PROVE n + 1 \in Q
  <2>1. D(n + 1, e) = K(e) \cup D(n, e) \cup B(D(n, e)) /\ n \in 0 .. N /\ n + 1 \in 0 .. N
    BY <1>2, <1>10
  <2>2. CASE Closed(D(n, e))
    <3>1. D(n + 1, e) = D(n, e)
      BY <2>1, <2>2
    <3> QED  BY <2>1, <2>2, <3>1
  <2>3. CASE ~Closed(D(n, e))
    <3>1. PICK y \in D(n + 1, e) : y \notin D(n, e)
      BY <2>1, <2>3
    <3>2. Cardinality(D(n, e)) >= n
      BY <1>13, <2>3
    <3>3. Cardinality(D(n, e) \cup {y}) = Cardinality(D(n, e)) + 1
      BY <1>11, <2>1, <3>1, FS_AddElement
    <3>4. D(n, e) \cup {y} \in SUBSET D(n + 1, e)
      BY <2>1, <3>1
    <3>5. Cardinality(D(n, e) \cup {y}) <= Cardinality(D(n + 1, e))
      BY <1>11, <2>1, <3>4, FS_Subset
    <3>6. Cardinality(D(n, e)) \in Nat /\ Cardinality(D(n + 1, e)) \in Nat
      BY <1>11, <2>1
    <3>7. Cardinality(D(n + 1, e)) >= n + 1
      BY <3>2, <3>3, <3>5, <3>6
    <3> QED  BY <2>1, <3>7
  <2> QED  BY <2>2, <2>3
<1> HIDE DEF Q
<1>14. N \in Q /\ N \in 0 .. N
  <2>1. 0 .. N \subseteq Q
    BY <1>2, <1>12, <1>13, InductionUpTo
  <2> QED  BY <1>2, <2>1
<1>15. Closed(D(N, e))
  <2>1. CASE Cardinality(D(N, e)) >= N
    <3>1. D(N, e) \in SUBSET Ents
      BY <1>2, <1>6, <1>14
    <3>2. Cardinality(D(N, e)) <= Cardinality(Ents)
      BY <1>2, <3>1, FS_Subset
    <3>3. Cardinality(D(N, e)) = Cardinality(Ents)
      BY <1>2, <1>11, <1>14, <2>1, <3>2 DEF N
    <3>4. D(N, e) = Ents
      BY <1>2, <3>1, <3>3, FS_Subset
    <3>5. \A c \in Ents : K(c) \subseteq Ents
      BY <1>2, <1>5
    <3> QED  BY <3>4, <3>5 DEF B
  <2> QED  BY <1>14, <2>1 DEF Q
<1> QED  BY <1>1, <1>15 DEF B, D, K

-----------------------------------------------------------------------------
(* Each list has those whose parent it is. *)
ListOf(w, p, s) ==
  Threads(w, p, s) /\ \A c \in live : (w.parent[c] = p <=> \E i \in 1 .. Len(s) : s[i] = c)
Linked(w) == \A p \in live : \E s : ListOf(w, p, s)
(* Who has a parent that lives, lives and is not marked. *)
MarkedAreRoots(w) ==
  \A e \in Ents : w.parent[e] \in live => e \in live \ w.killme
Tidy(w) == Linked(w) /\ MarkedAreRoots(w)

LEMMA LinkedSame ==
  ASSUME NEW w, NEW v, Linked(w), v.parent = w.parent, v.child = w.child, v.peer = w.peer
  PROVE  Linked(v)
<1> SUFFICES ASSUME NEW p \in live  PROVE \E s : ListOf(v, p, s)
  BY DEF Linked
<1>1. PICK s : ListOf(w, p, s)
  BY DEF Linked
<1>2. Threads(v, p, s)
  BY <1>1 DEF ListOf, Threads
<1>3. ListOf(v, p, s)
  BY <1>1, <1>2 DEF ListOf
<1> QED  BY <1>3

LEMMA TidySame ==
  ASSUME NEW w, NEW v, Tidy(w), v.parent = w.parent, v.child = w.child, v.peer = w.peer,
         v.killme = w.killme
  PROVE  Tidy(v)
  BY LinkedSame DEF Tidy, MarkedAreRoots

LEMMA ResolveTwice ==
  ASSUME Born  PROVE \A h : /\ Resolve(Resolve(h)) = Resolve(h)
                            /\ h \in live => Resolve(h) = h /\ h # None
                            /\ Resolve(None) = None
  BY RemovalConstants DEF Resolve, Born

(* The list of another parent is not touched. *)
LEMMA OtherList ==
  ASSUME Born, NEW w \in Worlds, NEW v \in Worlds, NEW q \in live, NEW s, ListOf(w, q, s),
         Resolve(v.child[q]) = Resolve(w.child[q]),
         \A x \in live : w.parent[x] = q => Resolve(v.peer[x]) = Resolve(w.peer[x]),
         \A x \in live : w.parent[x] = q <=> v.parent[x] = q
  PROVE  ListOf(v, q, s)
<1>1. \A i \in 1 .. Len(s) : s[i] \in live /\ w.parent[s[i]] = q
  <2> TAKE i \in 1 .. Len(s)
  <2>1. s[i] \in live
    BY DEF ListOf, Threads
  <2> QED  BY <2>1 DEF ListOf
<1>2. \A i \in 1 .. Len(s) : Resolve(v.peer[s[i]]) = Resolve(w.peer[s[i]])
  BY <1>1
<1>3. Threads(v, q, s)
  BY <1>2 DEF ListOf, Threads
<1> QED  BY <1>3 DEF ListOf

(* UnlinkChild patches the list around the child. *)
LEMMA UnlinkChildLinked ==
  ASSUME Born, NEW w \in Worlds, Linked(w), NEW p \in live, NEW c \in live, w.parent[c] = p
  PROVE  /\ Linked(UnlinkChild(w, p, c))
         /\ UnlinkChild(w, p, c).parent = [w.parent EXCEPT ![c] = None]
<1> DEFINE v == UnlinkChild(w, p, c)
           out == Loose(w, c)
           next == Resolve(w.peer[c])
<1>1. PICK s : ListOf(w, p, s)
  BY DEF Linked
<1>2. Children(w, p) = s
  BY <1>1, ThreadRead DEF ListOf, Born
<1> DEFINE L == Len(s)
<1>3. s \in Seq(live) /\ L \in Nat /\ DOMAIN s = 1 .. L /\ \A j \in 1 .. L : s[j] \in live
  BY <1>1 DEF ListOf, Threads
<1>4. PICK i \in 1 .. L : s[i] = c
  BY <1>1 DEF ListOf
<1>5. \A j, k \in 1 .. L : s[j] = s[k] => j = k
  BY <1>1 DEF ListOf, Threads
<1>6. (CHOOSE j \in DOMAIN s : s[j] = c) = i /\ c \in Range(s)
  <2>1. \A j \in DOMAIN s : s[j] = c => j = i
    BY <1>3, <1>4, <1>5
  <2>2. i \in DOMAIN s
    BY <1>3, <1>4
  <2> QED  BY <1>4, <2>1, <2>2 DEF Range
<1>7. s[1] = c <=> i = 1
  BY <1>3, <1>4, <1>5
<1>8. v = IF i = 1 THEN [out EXCEPT !.child[p] = next] ELSE [out EXCEPT !.peer[s[i - 1]] = next]
  BY <1>2, <1>6, <1>7 DEF UnlinkChild, Loose
<1>9. next \in Known /\ Resolve(next) = next
  BY ResolveType, ResolveTwice
<1>10. next = IF i = L THEN None ELSE s[i + 1]
  BY <1>1, <1>4 DEF ListOf, Threads
<1>11. c \in Ents /\ p \in Ents /\ live \subseteq Ents
  BY DEF Born
<1>12. /\ out \in Worlds
       /\ out.parent = [w.parent EXCEPT ![c] = None]
       /\ out.peer = [w.peer EXCEPT ![c] = None]
       /\ out.child = w.child
  BY <1>11, LooseType
<1> HIDE DEF out, next, v, L
<1>13. /\ v \in Worlds /\ v.parent = [w.parent EXCEPT ![c] = None]
       /\ i = 1 => v.child = [w.child EXCEPT ![p] = next] /\ v.peer = [w.peer EXCEPT ![c] = None]
       /\ i # 1 => /\ v.child = w.child
                   /\ v.peer = [[w.peer EXCEPT ![c] = None] EXCEPT ![s[i - 1]] = next]
  <2>1. CASE i = 1
    BY <1>8, <1>9, <1>12, <2>1, ChildSetType
  <2>2. CASE i # 1
    <3>1. s[i - 1] \in Ents
      BY <1>3, <1>4, <1>11, <2>2
    <3> QED  BY <1>8, <1>9, <1>12, <2>2, <3>1, PeerSetType
  <2> QED  BY <2>1, <2>2
<1>14. w.parent \in [Ents -> Known] /\ w.peer \in [Ents -> Known] /\ w.child \in [Ents -> Known]
  BY WorldFields
<1>15. \A x \in Ents : v.parent[x] = IF x = c THEN None ELSE w.parent[x]
  BY <1>13, <1>14
<1>16. \A x \in Ents : v.child[x] = IF i = 1 /\ x = p THEN next ELSE w.child[x]
  BY <1>13, <1>14
<1>17. \A x \in Ents : x # c => v.peer[x] = IF i # 1 /\ x = s[i - 1] THEN next ELSE w.peer[x]
  BY <1>13, <1>14
<1>18. ASSUME NEW q \in live, q # p  PROVE \E t : ListOf(v, q, t)
  <2>1. PICK t : ListOf(w, q, t)
    BY DEF Linked
  <2>2. Resolve(v.child[q]) = Resolve(w.child[q])
    BY <1>11, <1>16, <1>18
  <2>3. ASSUME NEW x \in live, w.parent[x] = q  PROVE Resolve(v.peer[x]) = Resolve(w.peer[x])
    <3>1. x # c
      BY <1>18, <2>3
    <3>2. i # 1 => x # s[i - 1]
      <4> SUFFICES ASSUME i # 1  PROVE x # s[i - 1]
        OBVIOUS
      <4>1. i - 1 \in 1 .. L
        BY <1>3, <1>4
      <4>2. w.parent[s[i - 1]] = p
        BY <1>1, <1>3, <4>1 DEF ListOf, L
      <4> QED  BY <1>18, <2>3, <4>2
    <3> QED  BY <1>11, <1>17, <3>1, <3>2
  <2>4. \A x \in live : w.parent[x] = q <=> v.parent[x] = q
    BY <1>11, <1>15, <1>18, RemovalConstants DEF Born
  <2>5. ListOf(v, q, t)
    BY <1>13, <2>1, <2>2, <2>3, <2>4, OtherList
  <2> QED  BY <2>5
<1>19. \E t : ListOf(v, p, t)
  <2> DEFINE t == [j \in 1 .. L - 1 |-> IF j < i THEN s[j] ELSE s[j + 1]]
  <2>1. L - 1 \in Nat
    BY <1>3, <1>4
  <2>2. \A j \in 1 .. L - 1 : t[j] = (IF j < i THEN s[j] ELSE s[j + 1]) /\ t[j] \in live
    BY <1>3
  <2>3. t \in Seq(live) /\ Len(t) = L - 1
    BY <2>1, <2>2
  <2> HIDE DEF t
  <2>4. \A j, k \in 1 .. L - 1 : t[j] = t[k] => j = k
    <3> TAKE j, k \in 1 .. L - 1
    <3>1. j \in 1 .. L /\ j + 1 \in 1 .. L /\ k \in 1 .. L /\ k + 1 \in 1 .. L
      BY <1>3
    <3> QED  BY <1>3, <1>4, <1>5, <2>2, <3>1
  <2>5. Resolve(v.child[p]) = IF L - 1 = 0 THEN None ELSE t[1]
    <3>1. Resolve(w.child[p]) = s[1]
      <4>1. Resolve(w.child[p]) = IF L = 0 THEN None ELSE s[1]
        BY <1>1 DEF ListOf, Threads, L
      <4> QED  BY <1>3, <1>4, <4>1
    <3>2. CASE i = 1
      <4>1. Resolve(v.child[p]) = next
        BY <1>9, <1>11, <1>16, <3>2
      <4>2. CASE L = 1
        BY <1>10, <3>2, <4>1, <4>2
      <4>3. CASE L # 1
        <5>1. 1 \in 1 .. L - 1 /\ ~(1 < i) /\ 1 + 1 = i + 1
          BY <1>3, <1>4, <3>2, <4>3
        <5>2. t[1] = s[i + 1]
          BY <2>2, <5>1
        <5> QED  BY <1>3, <1>10, <2>1, <3>2, <4>1, <4>3, <5>2
      <4> QED  BY <4>2, <4>3
    <3>3. CASE i # 1
      <4>1. 1 \in 1 .. L - 1 /\ 1 < i /\ L - 1 # 0
        BY <1>3, <1>4, <3>3
      <4>2. t[1] = s[1]
        BY <2>2, <4>1
      <4> QED  BY <1>11, <1>16, <3>1, <3>3, <4>1, <4>2
    <3> QED  BY <3>2, <3>3
  <2>6. ASSUME NEW j \in 1 .. L - 1
        PROVE  Resolve(v.peer[t[j]]) = IF j = L - 1 THEN None ELSE t[j + 1]
    <3>0. \A k \in 1 .. L : Resolve(w.peer[s[k]]) = IF k = L THEN None ELSE s[k + 1]
      BY <1>1 DEF ListOf, Threads, L
    <3>1. CASE j < i /\ j = i - 1
      <4>1. t[j] = s[j] /\ s[j] # c /\ s[j] \in Ents /\ i # 1
        BY <1>3, <1>4, <1>5, <1>11, <2>2, <3>1
      <4>2. Resolve(v.peer[t[j]]) = next
        BY <1>9, <1>17, <3>1, <4>1
      <4>3. j = L - 1 <=> i = L
        BY <1>3, <3>1
      <4>4. j # L - 1 => t[j + 1] = s[i + 1]
        <5> SUFFICES ASSUME j # L - 1  PROVE t[j + 1] = s[i + 1]
          OBVIOUS
        <5>1. j + 1 \in 1 .. L - 1 /\ ~(j + 1 < i) /\ (j + 1) + 1 = i + 1
          BY <1>3, <3>1
        <5> QED  BY <2>2, <5>1
      <4> QED  BY <1>10, <4>2, <4>3, <4>4
    <3>2. CASE j < i /\ j # i - 1
      <4>1. j \in 1 .. L /\ i - 1 \in 1 .. L /\ j + 1 \in 1 .. L - 1 /\ j + 1 < i /\ j # L /\ j # L - 1
        BY <1>3, <1>4, <3>2
      <4>2. t[j] = s[j] /\ t[j + 1] = s[j + 1] /\ s[j] \in Ents
        BY <1>3, <1>11, <2>2, <3>2, <4>1
      <4>3. s[j] # c /\ s[j] # s[i - 1]
        BY <1>3, <1>4, <1>5, <3>2, <4>1
      <4>4. v.peer[s[j]] = w.peer[s[j]]
        BY <1>17, <4>2, <4>3
      <4> QED  BY <3>0, <4>1, <4>2, <4>4
    <3>3. CASE ~(j < i)
      <4>1. j + 1 \in 1 .. L /\ j + 1 # i /\ (i # 1 => i - 1 \in 1 .. L /\ j + 1 # i - 1)
        BY <1>3, <1>4, <3>3
      <4>2. t[j] = s[j + 1] /\ s[j + 1] \in Ents
        BY <1>3, <1>11, <2>2, <3>3, <4>1
      <4>3. s[j + 1] # c /\ (i # 1 => s[j + 1] # s[i - 1])
        BY <1>4, <1>5, <4>1
      <4>4. v.peer[s[j + 1]] = w.peer[s[j + 1]]
        BY <1>17, <4>2, <4>3
      <4>5. Resolve(v.peer[t[j]]) = IF j + 1 = L THEN None ELSE s[(j + 1) + 1]
        BY <3>0, <4>1, <4>2, <4>4
      <4>6. j + 1 = L <=> j = L - 1
        BY <1>3
      <4>7. j # L - 1 => t[j + 1] = s[(j + 1) + 1]
        <5> SUFFICES ASSUME j # L - 1  PROVE t[j + 1] = s[(j + 1) + 1]
          OBVIOUS
        <5>1. j + 1 \in 1 .. L - 1 /\ ~(j + 1 < i)
          BY <1>3, <1>4, <3>3
        <5> QED  BY <2>2, <5>1
      <4> QED  BY <4>5, <4>6, <4>7
    <3> QED  BY <3>1, <3>2, <3>3
  <2>7. Threads(v, p, t)
    <3>1. \A j, k \in 1 .. Len(t) : t[j] = t[k] => j = k
      BY <2>3, <2>4
    <3>2. Resolve(v.child[p]) = IF Len(t) = 0 THEN None ELSE t[1]
      BY <2>3, <2>5
    <3>3. \A j \in 1 .. Len(t) : Resolve(v.peer[t[j]]) = IF j = Len(t) THEN None ELSE t[j + 1]
      BY <2>3, <2>6
    <3> QED  BY <2>3, <3>1, <3>2, <3>3 DEF Threads
  <2>8. ASSUME NEW x \in live
        PROVE  v.parent[x] = p <=> \E j \in 1 .. L - 1 : t[j] = x
    <3>0. w.parent[x] = p <=> \E j \in 1 .. L : s[j] = x
      BY <1>1 DEF ListOf, L
    <3>1. CASE x = c
      <4>1. v.parent[x] # p
        BY <1>11, <1>15, <3>1, RemovalConstants
      <4>2. ASSUME NEW j \in 1 .. L - 1  PROVE t[j] # c
        <5>1. j \in 1 .. L /\ j + 1 \in 1 .. L
          BY <1>3
        <5> QED  BY <1>3, <1>4, <1>5, <2>2, <5>1
      <4> QED  BY <3>1, <4>1, <4>2
    <3>2. CASE x # c
      <4>1. v.parent[x] = w.parent[x]
        BY <1>11, <1>15, <3>2
      <4>2. ASSUME NEW j \in 1 .. L, s[j] = x  PROVE \E k \in 1 .. L - 1 : t[k] = x
        <5>1. j # i
          BY <1>4, <3>2, <4>2
        <5>2. CASE j < i
          <6>1. j \in 1 .. L - 1 /\ t[j] = s[j]
            BY <1>3, <1>4, <2>2, <5>2
          <6> QED  BY <4>2, <6>1
        <5>3. CASE ~(j < i)
          <6>1. j - 1 \in 1 .. L - 1 /\ ~(j - 1 < i) /\ (j - 1) + 1 = j
            BY <1>3, <1>4, <5>1, <5>3
          <6>2. t[j - 1] = s[j]
            BY <2>2, <6>1
          <6> QED  BY <4>2, <6>1, <6>2
        <5> QED  BY <5>2, <5>3
      <4>3. ASSUME NEW k \in 1 .. L - 1, t[k] = x  PROVE \E j \in 1 .. L : s[j] = x
        <5>1. k \in 1 .. L /\ k + 1 \in 1 .. L
          BY <1>3
        <5> QED  BY <2>2, <4>3, <5>1
      <4> QED  BY <3>0, <4>1, <4>2, <4>3
    <3> QED  BY <3>1, <3>2
  <2>9. ListOf(v, p, t)
    BY <2>3, <2>7, <2>8 DEF ListOf
  <2> QED  BY <2>9
<1>20. Linked(v)
  BY <1>18, <1>19 DEF Linked
<1> QED  BY <1>13, <1>20 DEF v

(* LinkChild puts the child before the others. *)
LEMMA LinkChildLinked ==
  ASSUME Born, NEW w \in Worlds, Linked(w), NEW p \in live, NEW c \in live,
         w.parent[c] \notin live
  PROVE  Linked(LinkChild(w, p, c))
<1> DEFINE v == LinkChild(w, p, c)
<1>1. /\ v \in Worlds
      /\ \A x \in Ents : /\ v.parent[x] = IF x = c THEN p ELSE w.parent[x]
                         /\ v.peer[x] = IF x = c THEN Resolve(w.child[p]) ELSE w.peer[x]
                         /\ v.child[x] = IF x = p THEN c ELSE w.child[x]
  BY LinkChildType
<1> HIDE DEF v
<1>2. /\ c \in Ents /\ p \in Ents /\ live \subseteq Ents
      /\ w.parent \in [Ents -> Known] /\ w.peer \in [Ents -> Known] /\ w.child \in [Ents -> Known]
  BY WorldFields DEF Born
<1>3. \A x \in Ents : /\ v.parent[x] = IF x = c THEN p ELSE w.parent[x]
                      /\ v.peer[x] = IF x = c THEN Resolve(w.child[p]) ELSE w.peer[x]
                      /\ v.child[x] = IF x = p THEN c ELSE w.child[x]
  BY <1>1
<1>4. ASSUME NEW q \in live, q # p  PROVE \E t : ListOf(v, q, t)
  <2>1. PICK t : ListOf(w, q, t)
    BY DEF Linked
  <2>2. Resolve(v.child[q]) = Resolve(w.child[q])
    BY <1>2, <1>3, <1>4
  <2>3. \A x \in live : w.parent[x] = q => Resolve(v.peer[x]) = Resolve(w.peer[x])
    BY <1>2, <1>3, <1>4
  <2>4. \A x \in live : w.parent[x] = q <=> v.parent[x] = q
    BY <1>2, <1>3, <1>4
  <2>5. ListOf(v, q, t)
    BY <1>1, <2>1, <2>2, <2>3, <2>4, OtherList
  <2> QED  BY <2>5
<1>5. \E t : ListOf(v, p, t)
  <2>1. PICK s : ListOf(w, p, s)
    BY DEF Linked
  <2> DEFINE L == Len(s)
             t == [j \in 1 .. L + 1 |-> IF j = 1 THEN c ELSE s[j - 1]]
  <2>2. /\ s \in Seq(live) /\ L \in Nat /\ \A j \in 1 .. L : s[j] \in live
        /\ \A j, k \in 1 .. L : s[j] = s[k] => j = k
        /\ Resolve(w.child[p]) = IF L = 0 THEN None ELSE s[1]
        /\ \A j \in 1 .. L : Resolve(w.peer[s[j]]) = IF j = L THEN None ELSE s[j + 1]
        /\ \A x \in live : w.parent[x] = p <=> \E j \in 1 .. L : s[j] = x
    BY <2>1 DEF ListOf, Threads
  <2> HIDE DEF L
  <2>3. \A j \in 1 .. L : s[j] # c
    BY <2>2
  <2>4. \A j \in 1 .. L + 1 : t[j] = (IF j = 1 THEN c ELSE s[j - 1]) /\ t[j] \in live
    <3> TAKE j \in 1 .. L + 1
    <3>1. j # 1 => j - 1 \in 1 .. L
      BY <2>2
    <3> QED  BY <2>2, <3>1
  <2>5. t \in Seq(live) /\ Len(t) = L + 1
    BY <2>2, <2>4
  <2> HIDE DEF t
  <2>6. \A j, k \in 1 .. L + 1 : t[j] = t[k] => j = k
    <3> TAKE j, k \in 1 .. L + 1
    <3>1. (j # 1 => j - 1 \in 1 .. L) /\ (k # 1 => k - 1 \in 1 .. L)
      BY <2>2
    <3> QED  BY <2>2, <2>3, <2>4, <3>1
  <2>7. Resolve(v.child[p]) = t[1] /\ L + 1 # 0
    <3>1. 1 \in 1 .. L + 1
      BY <2>2
    <3>2. t[1] = c
      BY <2>4, <3>1
    <3>3. Resolve(v.child[p]) = c
      BY <1>2, <1>3, ResolveTwice
    <3> QED  BY <2>2, <3>2, <3>3
  <2>8. ASSUME NEW j \in 1 .. L + 1
        PROVE  Resolve(v.peer[t[j]]) = IF j = L + 1 THEN None ELSE t[j + 1]
    <3>1. CASE j = 1
      <4>1. t[j] = c /\ v.peer[c] = Resolve(w.child[p])
        BY <1>2, <1>3, <2>4, <3>1
      <4>2. Resolve(v.peer[t[j]]) = IF L = 0 THEN None ELSE s[1]
        BY <2>2, <4>1, ResolveTwice
      <4>3. L # 0 => j # L + 1 /\ j + 1 \in 1 .. L + 1 /\ j + 1 # 1 /\ (j + 1) - 1 = 1
        BY <2>2, <3>1
      <4>4. L # 0 => t[j + 1] = s[1]
        BY <2>4, <4>3
      <4> QED  BY <2>2, <3>1, <4>2, <4>3, <4>4
    <3>2. CASE j # 1
      <4>1. j - 1 \in 1 .. L
        BY <2>2, <3>2
      <4>2. t[j] = s[j - 1] /\ s[j - 1] # c /\ s[j - 1] \in Ents
        BY <1>2, <2>2, <2>3, <2>4, <3>2, <4>1
      <4>3. Resolve(v.peer[t[j]]) = IF j - 1 = L THEN None ELSE s[(j - 1) + 1]
        BY <1>3, <2>2, <4>1, <4>2
      <4>4. j - 1 = L <=> j = L + 1
        BY <2>2
      <4>5. j # L + 1 => t[j + 1] = s[(j - 1) + 1]
        <5> SUFFICES ASSUME j # L + 1  PROVE t[j + 1] = s[(j - 1) + 1]
          OBVIOUS
        <5>1. j + 1 \in 1 .. L + 1 /\ j + 1 # 1 /\ (j + 1) - 1 = (j - 1) + 1
          BY <2>2, <3>2
        <5> QED  BY <2>4, <5>1
      <4> QED  BY <4>3, <4>4, <4>5
    <3> QED  BY <3>1, <3>2
  <2>9. Threads(v, p, t)
    <3>1. \A j, k \in 1 .. Len(t) : t[j] = t[k] => j = k
      BY <2>5, <2>6
    <3>2. Resolve(v.child[p]) = IF Len(t) = 0 THEN None ELSE t[1]
      BY <2>5, <2>7
    <3>3. \A j \in 1 .. Len(t) : Resolve(v.peer[t[j]]) = IF j = Len(t) THEN None ELSE t[j + 1]
      BY <2>5, <2>8
    <3> QED  BY <2>5, <3>1, <3>2, <3>3 DEF Threads
  <2>10. ASSUME NEW x \in live
         PROVE  v.parent[x] = p <=> \E j \in 1 .. L + 1 : t[j] = x
    <3>1. CASE x = c
      <4>1. 1 \in 1 .. L + 1 /\ t[1] = c
        BY <2>2, <2>4
      <4> QED  BY <1>2, <1>3, <3>1, <4>1
    <3>2. CASE x # c
      <4>1. v.parent[x] = w.parent[x]
        BY <1>2, <1>3, <3>2
      <4>2. ASSUME NEW j \in 1 .. L, s[j] = x  PROVE \E k \in 1 .. L + 1 : t[k] = x
        <5>1. j + 1 \in 1 .. L + 1 /\ j + 1 # 1 /\ (j + 1) - 1 = j
          BY <2>2
        <5>2. t[j + 1] = x
          BY <2>4, <4>2, <5>1
        <5> QED  BY <5>1, <5>2
      <4>3. ASSUME NEW k \in 1 .. L + 1, t[k] = x  PROVE \E j \in 1 .. L : s[j] = x
        <5>1. k # 1
          BY <2>4, <3>2, <4>3
        <5>2. s[k - 1] = x
          BY <2>4, <4>3, <5>1
        <5>3. k - 1 \in 1 .. L
          BY <2>2, <5>1
        <5> QED  BY <5>2, <5>3
      <4> QED  BY <2>2, <4>1, <4>2, <4>3
    <3> QED  BY <3>1, <3>2
  <2>11. ListOf(v, p, t)
    BY <2>5, <2>9, <2>10 DEF ListOf
  <2> QED  BY <2>11
<1> QED  BY <1>4, <1>5 DEF Linked, v

LEMMA UnlinkFromParentLinked ==
  ASSUME Born, NEW w \in Worlds, Linked(w), NEW e \in live
  PROVE  /\ Linked(UnlinkFromParent(w, e))
         /\ UnlinkFromParent(w, e).parent[e] \notin live
         /\ \A x \in Ents : x # e => UnlinkFromParent(w, e).parent[x] = w.parent[x]
<1>1. None \notin live /\ e \in Ents /\ w.parent \in [Ents -> Known]
  BY RemovalConstants, WorldFields DEF Born
<1>2. CASE w.parent[e] \notin live
  BY <1>2 DEF UnlinkFromParent, Resolve
<1>3. CASE w.parent[e] \in live
  <2> DEFINE p == w.parent[e]
  <2>1. UnlinkFromParent(w, e) = UnlinkChild(w, p, e)
    BY <1>1, <1>3 DEF UnlinkFromParent, Resolve
  <2>2. p \in live /\ w.parent[e] = p
    BY <1>3
  <2> HIDE DEF p
  <2>3. /\ Linked(UnlinkChild(w, p, e))
        /\ UnlinkChild(w, p, e).parent = [w.parent EXCEPT ![e] = None]
    BY <2>2, UnlinkChildLinked
  <2> QED  BY <1>1, <2>1, <2>3
<1> QED  BY <1>2, <1>3

(* Only those that are marked change their parent. *)
Kept(w, v) == \A c \in Ents : v.parent[c] = w.parent[c] \/ c \in v.killme
(* Removals, of those in T, that leave the hierarchy in order. *)
TakesAway(w, v, T) == /\ Tidy(v) /\ Kept(w, v)
                      /\ w.killme \subseteq v.killme
                      /\ v.killme \subseteq w.killme \cup T

LEMMA TakesNothing == \A w, T : Tidy(w) => TakesAway(w, w, T)
  BY DEF TakesAway, Kept

LEMMA TakesTwice ==
  \A w, v, u, T : TakesAway(w, v, T) /\ TakesAway(v, u, T) => TakesAway(w, u, T)
  BY DEF TakesAway, Kept

LEMMA MarkTidy ==
  ASSUME Born, NEW w \in Worlds, Tidy(w), NEW e \in live, NEW T, e \in T
  PROVE  TakesAway(w, Mark(w, e), T)
<1> DEFINE v == [w EXCEPT !.killme = @ \cup {e}]
<1>1. /\ v \in Worlds /\ v.killme = w.killme \cup {e}
      /\ v.parent = w.parent /\ v.child = w.child /\ v.peer = w.peer
  BY DEF Worlds, Born
<1>2. Mark(w, e) = UnlinkFromParent(v, e) /\ e \in Ents
  BY DEF Mark, Born
<1> HIDE DEF v
<1>3. Linked(v)
  BY <1>1, LinkedSame DEF Tidy
<1>4. /\ Linked(Mark(w, e)) /\ Mark(w, e).parent[e] \notin live
      /\ \A x \in Ents : x # e => Mark(w, e).parent[x] = w.parent[x]
  BY <1>1, <1>2, <1>3, UnlinkFromParentLinked
<1>5. Mark(w, e).killme = w.killme \cup {e}
  BY MarkType
<1> HIDE DEF v
<1>6. MarkedAreRoots(Mark(w, e))
  BY <1>4, <1>5 DEF Tidy, MarkedAreRoots
<1>7. Kept(w, Mark(w, e))
  BY <1>4, <1>5 DEF Kept
<1> QED  BY <1>4, <1>5, <1>6, <1>7 DEF TakesAway, Tidy

(* One that is put on a list keeps its handles. *)
LEMMA ListedTidy ==
  ASSUME NEW w \in Worlds, NEW e \in Ents, NEW u, NEW T, TakesAway(u, w, T)
  PROVE  /\ TakesAway(u, [w EXCEPT !.delList = Append(@, e)], T)
         /\ TakesAway(u, [w EXCEPT !.queue = Append(@, e)], T)
<1> DEFINE d == [w EXCEPT !.delList = Append(@, e)]
           q == [w EXCEPT !.queue = Append(@, e)]
<1>1. /\ d.killme = w.killme /\ d.parent = w.parent /\ d.child = w.child /\ d.peer = w.peer
      /\ q.killme = w.killme /\ q.parent = w.parent /\ q.child = w.child /\ q.peer = w.peer
  BY ListedType
<1> HIDE DEF d, q
<1>2. Tidy(d) /\ Tidy(q)
  BY <1>1, TidySame DEF TakesAway
<1>3. TakesAway(u, d, T) /\ TakesAway(u, q, T)
  BY <1>1, <1>2 DEF TakesAway, Kept
<1> QED  BY <1>3 DEF d, q

LEMMA DeferTidy ==
  ASSUME Born, NEW w \in Worlds, Tidy(w), NEW e \in live, NEW T
  PROVE  TakesAway(w, Defer(w, e), T)
  BY ListedTidy, TakesNothing DEF Defer, Born

LEMMA RemoveLeafTidy ==
  ASSUME Born, NEW w \in Worlds, Tidy(w), NEW e \in live, NEW T, e \in T
  PROVE  TakesAway(w, RemoveLeaf(w, e), T)
<1>1. Mark(w, e) \in Worlds /\ e \in Ents
  BY MarkType DEF Born
<1>2. TakesAway(w, [Mark(w, e) EXCEPT !.delList = Append(@, e)], T)
  BY <1>1, MarkTidy, ListedTidy
<1> QED  BY <1>2, DeferTidy, TakesNothing DEF RemoveLeaf

LEMMA LeavesRemovedTidy ==
  ASSUME Born, NEW w \in Worlds, Tidy(w), NEW list \in Seq(live)
  PROVE  TakesAway(w, LeavesRemoved(w, list), Range(list))
<1> DEFINE N == Len(list)
           T == Range(list)
<1>1. N \in Nat
  OBVIOUS
<1>2. PICK after \in [0 .. N -> Worlds] :
        /\ after[0] = w
        /\ \A n \in 1 .. N : after[n] = RemoveLeaf(after[n - 1], list[N + 1 - n])
        /\ LeavesRemoved(w, list) = after[N]
  BY LeavesRemovedRead
<1>3. \A n \in 1 .. N : list[N + 1 - n] \in live /\ list[N + 1 - n] \in T
  <2> TAKE n \in 1 .. N
  <2>1. N + 1 - n \in DOMAIN list
    OBVIOUS
  <2> QED  BY <2>1 DEF Range
<1> DEFINE P == {n \in 0 .. N : TakesAway(w, after[n], T)}
<1> HIDE DEF N, T
<1>4. 0 \in P
  BY <1>1, <1>2, TakesNothing
<1>5. ASSUME NEW n \in 0 .. N - 1, n \in P  PROVE n + 1 \in P
  <2>1. n + 1 \in 1 .. N /\ n + 1 \in 0 .. N /\ (n + 1) - 1 = n /\ n \in 0 .. N
    BY <1>1
  <2> DEFINE c == list[N + 1 - (n + 1)]
  <2>2. after[n + 1] = RemoveLeaf(after[n], c) /\ c \in live /\ c \in T
    BY <1>2, <1>3, <2>1
  <2>3. TakesAway(w, after[n], T) /\ after[n] \in Worlds
    BY <1>5, <2>1
  <2> HIDE DEF c
  <2>4. TakesAway(after[n], after[n + 1], T)
    BY <2>2, <2>3, RemoveLeafTidy DEF TakesAway
  <2> QED  BY <2>1, <2>3, <2>4, TakesTwice
<1> HIDE DEF P
<1>6. N \in P
  <2>1. 0 .. N \subseteq P
    BY <1>1, <1>4, <1>5, InductionUpTo
  <2> QED  BY <1>1, <2>1
<1> QED  BY <1>2, <1>6 DEF P, T

(* In a tidy hierarchy the list has the children. *)
LEMMA KidsAreChildren ==
  ASSUME Born, NEW w \in Worlds, Linked(w), NEW p \in live
  PROVE  /\ Kids(w, p) = {c \in live : w.parent[c] = p}
         /\ IsInjective(Children(w, p))
<1>1. PICK s : ListOf(w, p, s)
  BY DEF Linked
<1>2. Children(w, p) = s
  BY <1>1, ThreadRead DEF ListOf, Born
<1>3. /\ s \in Seq(live) /\ DOMAIN s = 1 .. Len(s)
      /\ \A i, j \in 1 .. Len(s) : s[i] = s[j] => i = j
      /\ \A i \in 1 .. Len(s) : s[i] \in live
      /\ \A c \in live : w.parent[c] = p <=> \E i \in 1 .. Len(s) : s[i] = c
  BY <1>1 DEF ListOf, Threads
<1>4. IsInjective(s)
  BY <1>3 DEF IsInjective
<1>5. Range(s) = {c \in live : w.parent[c] = p}
  BY <1>3 DEF Range
<1> QED  BY <1>2, <1>4, <1>5 DEF Kids

(* With whoever gets marked go those whose parent it was. *)
Orphanless(w, v) ==
  \A c, p \in live : w.parent[c] = p /\ p \in v.killme \ w.killme => c \in Going(v)

LEMMA OrphanlessTwice ==
  ASSUME Born, NEW w, NEW v, NEW u, Orphanless(w, v), Orphanless(v, u), Later(v, u), Kept(w, v)
  PROVE  Orphanless(w, u)
<1> SUFFICES ASSUME NEW c \in live, NEW p \in live, w.parent[c] = p, p \in u.killme \ w.killme
             PROVE  c \in Going(u)
  BY DEF Orphanless
<1>1. Going(v) \subseteq Going(u)
  BY LaterGoing
<1>2. CASE p \in v.killme
  BY <1>1, <1>2 DEF Orphanless
<1>3. CASE p \notin v.killme /\ v.parent[c] = p
  BY <1>3 DEF Orphanless
<1>4. CASE v.parent[c] # p
  <2>1. c \in v.killme
    BY <1>4 DEF Kept, Born
  <2> QED  BY <1>1, <2>1 DEF Going
<1> QED  BY <1>2, <1>3, <1>4

LEMMA UpdateOnRemoveTidy ==
  ASSUME Born, NEW w, Sound(w, {}), Tidy(w), NEW e \in live \ w.killme
  PROVE  /\ TakesAway(w, UpdateOnRemove(w, e), live)
         /\ Orphanless(w, UpdateOnRemove(w, e))
<1> DEFINE m == Mark(w, e)
           list == AllChildren(m, e)
           v == UpdateOnRemove(w, e)
<1>1. w \in Worlds /\ m \in Worlds /\ m.killme = w.killme \cup {e} /\ e \in Ents
  BY MarkType DEF Sound, Born
<1>2. TakesAway(w, m, live) /\ Tidy(m) /\ Kept(w, m)
  BY <1>1, MarkTidy DEF TakesAway
<1>3. v = LeavesRemoved(m, list)
  BY DEF UpdateOnRemove
<1>4. Later(m, v) /\ Range(list) \subseteq Going(v)
  BY UpdateOnRemoveSound
<1> HIDE DEF m, v
<1>5. list \in Seq(live) /\ Range(list) \subseteq live
  <2>1. list \in Seq(live)
    BY <1>1, AllChildrenType
  <2>2. \A i \in DOMAIN list : list[i] \in live
    BY <2>1
  <2> QED  BY <2>1, <2>2 DEF Range
<1>6. /\ Kids(m, e) \subseteq Range(list)
      /\ \A c \in Range(list) : Kids(m, c) \subseteq Range(list)
  BY <1>1, AllChildrenClosed
<1> HIDE DEF list
<1>7. TakesAway(m, v, Range(list))
  BY <1>1, <1>2, <1>3, <1>5, LeavesRemovedTidy
<1>8. TakesAway(m, v, live)
  BY <1>5, <1>7 DEF TakesAway
<1>9. TakesAway(w, v, live)
  BY <1>2, <1>8, TakesTwice
<1>10. ASSUME NEW c \in live, NEW p \in live, w.parent[c] = p, p \in v.killme \ w.killme
       PROVE  c \in Going(v)
  <2>1. p = e \/ p \in Range(list)
    BY <1>1, <1>7, <1>10 DEF TakesAway
  <2>2. CASE m.parent[c] = p
    <3>1. c \in Kids(m, p)
      BY <1>1, <1>2, <2>2, KidsAreChildren DEF Tidy
    <3> QED  BY <1>4, <1>6, <2>1, <3>1
  <2>3. CASE m.parent[c] # p
    <3>1. c \in m.killme
      BY <1>2, <1>10, <2>3 DEF Kept, Born
    <3> QED  BY <1>4, <3>1 DEF Later, Going
  <2> QED  BY <2>2, <2>3
<1> QED  BY <1>9, <1>10 DEF Orphanless, v

LEMMA RemovedTidy ==
  ASSUME Born, NEW w, Sound(w, {}), Tidy(w), NEW e \in live
  PROVE  TakesAway(w, Removed(w, e), live) /\ Orphanless(w, Removed(w, e))
<1>1. w \in Worlds /\ e \in Ents
  BY DEF Sound, Born
<1>2. CASE e \in w.killme
  BY <1>2, TakesNothing DEF Removed, Orphanless
<1>3. CASE e \notin w.killme /\ inCallback
  <2>1. Defer(w, e).killme = w.killme
    BY <1>1, ListedType DEF Defer
  <2> QED  BY <1>1, <1>3, <2>1, DeferTidy DEF Removed, Orphanless
<1>4. CASE e \notin w.killme /\ ~inCallback
  <2> DEFINE u == UpdateOnRemove(w, e)
             v == [u EXCEPT !.delList = Append(@, e)]
  <2>1. TakesAway(w, u, live) /\ Orphanless(w, u)
    BY <1>4, UpdateOnRemoveTidy
  <2>2. Removed(w, e) = v
    BY <1>4 DEF Removed
  <2>3. u \in Worlds
    BY <1>1, UpdateOnRemoveType
  <2> HIDE DEF u
  <2>4. TakesAway(w, v, live) /\ v.killme = u.killme /\ v.queue = u.queue
    BY <1>1, <2>1, <2>3, ListedTidy, ListedType
  <2> HIDE DEF v
  <2> QED  BY <2>1, <2>2, <2>4 DEF Orphanless, Going
<1> QED  BY <1>2, <1>3, <1>4

LEMMA RemovedAllTidy ==
  ASSUME Born, NEW w, Sound(w, {}), Tidy(w), NEW list \in Seq(live)
  PROVE  TakesAway(w, RemovedAll(w, list), live) /\ Orphanless(w, RemovedAll(w, list))
<1> DEFINE N == Len(list)
<1>1. w \in Worlds /\ N \in Nat
  BY DEF Sound
<1>2. PICK after \in [0 .. N -> Worlds] :
        /\ after[0] = w
        /\ \A n \in 1 .. N : after[n] = Removed(after[n - 1], list[n])
        /\ RemovedAll(w, list) = after[N]
  BY <1>1, RemovedAllRead
<1>3. \A n \in 1 .. N : list[n] \in live
  OBVIOUS
<1> DEFINE P == {n \in 0 .. N : /\ Sound(after[n], {}) /\ TakesAway(w, after[n], live)
                                /\ Orphanless(w, after[n])}
<1> HIDE DEF N
<1>4. 0 \in P
  BY <1>1, <1>2, TakesNothing DEF Orphanless
<1>5. ASSUME NEW n \in 0 .. N - 1, n \in P  PROVE n + 1 \in P
  <2> DEFINE c == list[n + 1]
  <2>1. n + 1 \in 1 .. N /\ n + 1 \in 0 .. N /\ (n + 1) - 1 = n
    BY <1>1
  <2>2. after[n + 1] = Removed(after[n], c) /\ c \in live
    BY <1>2, <1>3, <2>1
  <2>3. Sound(after[n], {}) /\ TakesAway(w, after[n], live) /\ Orphanless(w, after[n])
    BY <1>5
  <2> HIDE DEF c
  <2>4. Tidy(after[n]) /\ Kept(w, after[n])
    BY <2>3 DEF TakesAway
  <2>5. Sound(after[n + 1], {}) /\ Later(after[n], after[n + 1])
    BY <2>2, <2>3, RemovedSound
  <2>6. TakesAway(after[n], after[n + 1], live) /\ Orphanless(after[n], after[n + 1])
    BY <2>2, <2>3, <2>4, RemovedTidy
  <2>7. TakesAway(w, after[n + 1], live)
    BY <2>3, <2>6, TakesTwice
  <2>8. Orphanless(w, after[n + 1])
    BY <2>3, <2>4, <2>5, <2>6, OrphanlessTwice
  <2> QED  BY <2>1, <2>5, <2>7, <2>8
<1> HIDE DEF P
<1>6. N \in P
  <2>1. 0 .. N \subseteq P
    BY <1>1, <1>4, <1>5, InductionUpTo
  <2> QED  BY <1>1, <2>1
<1> QED  BY <1>2, <1>6 DEF P

LEMMA FlushedTidy ==
  ASSUME Born, NEW w, Sound(w, {}), Tidy(w), ~inCallback
  PROVE  TakesAway(w, Flushed(w), live) /\ Orphanless(w, Flushed(w))
<1> DEFINE list == w.queue
           v == RemovedAll(w, list)
           u == Flushed(w)
<1>1. list \in Seq(live)
  <2>1. list \in Seq(Ents) /\ Range(list) \subseteq live
    BY DEF Sound, Worlds
  <2> HIDE DEF list
  <2>2. \A i \in 1 .. Len(list) : list[i] \in live
    BY <2>1 DEF Range
  <2> QED  BY <2>1, <2>2
<1>2. TakesAway(w, v, live) /\ Orphanless(w, v)
  BY <1>1, RemovedAllTidy
<1>3. u.parent = v.parent /\ u.child = v.child /\ u.peer = v.peer /\ u.killme = v.killme
  BY FlushedSound
<1> HIDE DEF u, v
<1>4. Tidy(u)
  BY <1>2, <1>3, TidySame DEF TakesAway
<1>5. TakesAway(w, u, live) /\ Orphanless(w, u)
  BY <1>2, <1>3, <1>4 DEF TakesAway, Kept, Orphanless, Going
<1> QED  BY <1>5 DEF u

(* TransferChildren takes a child from one list to another. *)
LEMMA MovedTidy ==
  ASSUME Born, NEW w \in Worlds, Tidy(w), NEW from \in live, NEW to \in live,
         NEW c \in live, w.parent[c] = from
  PROVE  /\ Tidy(Moved(w, c, from, to))
         /\ \A x \in Ents : x # c => Moved(w, c, from, to).parent[x] = w.parent[x]
<1> DEFINE u == UnlinkChild(w, from, c)
           v == LinkChild(u, to, c)
<1>1. c \in Ents /\ w.parent \in [Ents -> Known] /\ None \notin live
  BY WorldFields, RemovalConstants DEF Born
<1>2. /\ u \in Worlds /\ OnlyHandles(w, u) /\ Linked(u)
      /\ u.parent = [w.parent EXCEPT ![c] = None]
  BY <1>1, UnlinkChildType, UnlinkChildLinked DEF Tidy
<1> HIDE DEF u
<1>3. /\ u.parent[c] \notin live
      /\ \A x \in Ents : x # c => u.parent[x] = w.parent[x]
  BY <1>1, <1>2
<1>4. /\ Linked(v) /\ OnlyHandles(u, v)
      /\ \A x \in Ents : v.parent[x] = IF x = c THEN to ELSE u.parent[x]
  <2>1. Linked(v)
    BY <1>2, <1>3, LinkChildLinked
  <2>2. /\ OnlyHandles(u, v)
        /\ \A x \in Ents :
             /\ v.parent[x] = IF x = c THEN to ELSE u.parent[x]
             /\ v.peer[x] = IF x = c THEN Resolve(u.child[to]) ELSE u.peer[x]
             /\ v.child[x] = IF x = to THEN c ELSE u.child[x]
    <3> HIDE DEF v
    <3>1. u \in Worlds
      BY <1>2
    <3> QED  BY <3>1, LinkChildType DEF v
  <2> QED  BY <2>1, <2>2
<1> HIDE DEF v
<1>5. c \notin w.killme /\ v.killme = w.killme
  BY <1>1, <1>2, <1>4 DEF Tidy, MarkedAreRoots, OnlyHandles
<1>6. MarkedAreRoots(v)
  BY <1>3, <1>4, <1>5 DEF Tidy, MarkedAreRoots
<1> QED  BY <1>3, <1>4, <1>6 DEF Tidy, Moved, u, v

LEMMA TransferredTidy ==
  ASSUME Born, NEW w \in Worlds, Tidy(w), NEW from \in live, NEW to \in live
  PROVE  Tidy(Transferred(w, Children(w, from), from, to))
<1> DEFINE list == Children(w, from)
           N == Len(list)
<1>1. from \in Ents
  BY DEF Born
<1>2. list \in Seq(live) /\ N \in Nat
  BY <1>1, ChildrenType
<1>3. /\ \A i, j \in 1 .. N : list[i] = list[j] => i = j
      /\ \A i \in 1 .. N : list[i] \in live /\ w.parent[list[i]] = from
  <2>1. IsInjective(list) /\ Range(list) = {c \in live : w.parent[c] = from}
    BY KidsAreChildren DEF Kids, Tidy
  <2>2. DOMAIN list = 1 .. N
    BY <1>2
  <2> HIDE DEF list, N
  <2>3. \A i \in 1 .. N : list[i] \in Range(list)
    BY <2>2 DEF Range
  <2> QED  BY <2>1, <2>2, <2>3 DEF IsInjective
<1> HIDE DEF list
<1>4. PICK after : TransferPath(after, w, list, from, to)
  BY <1>2, TransferredRead
<1>5. /\ after \in [0 .. N -> Worlds]
      /\ after[0] = w
      /\ \A n \in 1 .. N : after[n] = Moved(after[n - 1], list[n], from, to)
      /\ Transferred(w, list, from, to) = after[N]
  BY <1>4 DEF TransferPath
<1> DEFINE P == {n \in 0 .. N : /\ Tidy(after[n])
                                /\ \A i \in n + 1 .. N : after[n].parent[list[i]] = from}
<1> HIDE DEF N
<1>6. 0 \in P
  BY <1>2, <1>3, <1>5
<1>7. ASSUME NEW n \in 0 .. N - 1, n \in P  PROVE n + 1 \in P
  <2> DEFINE c == list[n + 1]
  <2>1. n + 1 \in 1 .. N /\ n + 1 \in 0 .. N /\ (n + 1) - 1 = n /\ n + 1 \in n + 1 .. N
        /\ n \in 0 .. N
    BY <1>2
  <2>2. after[n + 1] = Moved(after[n], c, from, to) /\ c \in live /\ after[n] \in Worlds
    BY <1>3, <1>5, <2>1
  <2>3. Tidy(after[n]) /\ after[n].parent[c] = from
    BY <1>7, <2>1
  <2>4. \A i \in (n + 1) + 1 .. N : i \in n + 1 .. N /\ list[i] # c /\ list[i] \in Ents
    <3> TAKE i \in (n + 1) + 1 .. N
    <3>1. i \in n + 1 .. N /\ i \in 1 .. N /\ i # n + 1
      BY <1>2
    <3> QED  BY <1>3, <2>1, <3>1 DEF Born
  <2> HIDE DEF c
  <2>5. /\ Tidy(after[n + 1])
        /\ \A x \in Ents : x # c => after[n + 1].parent[x] = after[n].parent[x]
    BY <2>2, <2>3, MovedTidy
  <2>6. \A i \in (n + 1) + 1 .. N : after[n + 1].parent[list[i]] = from
    BY <1>7, <2>4, <2>5
  <2> QED  BY <2>1, <2>5, <2>6
<1> HIDE DEF P
<1>8. N \in P
  <2>1. 0 .. N \subseteq P
    BY <1>2, <1>6, <1>7, InductionUpTo
  <2> QED  BY <1>2, <2>1
<1> QED  BY <1>5, <1>8 DEF P, list

(* What a marked entity leaves when it is destroyed: no list has it. *)
LEMMA DestroyedTidy ==
  ASSUME Born, NEW w \in Worlds, Tidy(w), NEW e \in live, e \in w.killme,
         live' = live \ {e},
         World'.parent = w.parent, World'.peer = w.peer, World'.killme = w.killme,
         World'.child = [w.child EXCEPT ![e] = None]
  PROVE  Tidy(World)'
<1>1. w.parent[e] \notin live /\ e \in Ents /\ None # e
  BY RemovalConstants DEF Tidy, MarkedAreRoots, Born
<1>2. MarkedAreRoots(World)'
  BY DEF Tidy, MarkedAreRoots
<1>3. \A h : Resolve(h)' = IF h = e THEN None ELSE Resolve(h)
  BY DEF Resolve
<1>4. ASSUME NEW p \in live'  PROVE \E s : ListOf(World, p, s)'
  <2>1. p \in live /\ p # e /\ p \in Ents
    BY <1>4 DEF Born
  <2>2. PICK s : ListOf(w, p, s)
    BY <2>1 DEF Tidy, Linked
  <2>3. /\ s \in Seq(live)
        /\ \A i, j \in 1 .. Len(s) : s[i] = s[j] => i = j
        /\ Resolve(w.child[p]) = IF Len(s) = 0 THEN None ELSE s[1]
        /\ \A i \in 1 .. Len(s) : Resolve(w.peer[s[i]]) = IF i = Len(s) THEN None ELSE s[i + 1]
        /\ \A c \in live : w.parent[c] = p <=> \E i \in 1 .. Len(s) : s[i] = c
    BY <2>2 DEF ListOf, Threads
  <2>4. \A i \in 1 .. Len(s) : s[i] # e
    BY <1>1, <2>1, <2>3
  <2>5. s \in Seq(live') /\ Len(s) \in Nat
    <3>1. \A i \in 1 .. Len(s) : s[i] \in live'
      BY <2>3, <2>4
    <3> QED  BY <2>3, <3>1
  <2>6. Resolve(w.child[p]) # e
    BY <1>1, <2>3, <2>4, <2>5
  <2>7. ASSUME NEW i \in 1 .. Len(s)  PROVE Resolve(w.peer[s[i]]) # e
    <3>1. i # Len(s) => i + 1 \in 1 .. Len(s)
      BY <2>5
    <3> QED  BY <1>1, <2>3, <2>4, <3>1
  <2>8. \A h : Resolve(h) # e => Resolve(h)' = Resolve(h)
    BY <1>3 DEF Resolve
  <2>9. World'.child[p] = w.child[p]
    BY <2>1, WorldFields
  <2>10. Resolve(World.child[p])' = IF Len(s) = 0 THEN None ELSE s[1]
    BY <2>3, <2>6, <2>8, <2>9
  <2>11. \A i \in 1 .. Len(s) : Resolve(World.peer[s[i]])' = IF i = Len(s) THEN None ELSE s[i + 1]
    BY <2>3, <2>7, <2>8
  <2>12. \A c \in live' : World'.parent[c] = p <=> \E i \in 1 .. Len(s) : s[i] = c
    BY <2>3
  <2> QED  BY <2>3, <2>5, <2>10, <2>11, <2>12 DEF ListOf, Threads
<1> QED  BY <1>2, <1>4 DEF Tidy, Linked

-----------------------------------------------------------------------------
(* The hierarchy stays in order as long as marked entities are not given   *)
(* a parent.                                                               *)
HierarchyInv == RemovalInv /\ Tidy(World)

LEMMA InitHierarchy == Init => HierarchyInv
<1> SUFFICES ASSUME Init  PROVE HierarchyInv
  OBVIOUS
<1>1. live = {} /\ None \notin live
  BY DEF Init
<1>2. Tidy(World)
  BY <1>1, WorldOf DEF Tidy, Linked, MarkedAreRoots
<1> QED  BY <1>2, InitRemovals DEF HierarchyInv

(* A step of removals, or of handles, only. *)
LEMMA BecomesTidy ==
  ASSUME NEW w, Tidy(w), Becomes(w), live' = live  PROVE Tidy(World)'
<1>1. /\ World'.killme = w.killme /\ World'.parent = w.parent /\ World'.child = w.child
      /\ World'.peer = w.peer
  BY DEF World, Becomes
<1>2. \A h : Resolve(h)' = Resolve(h)
  BY DEF Resolve
<1>3. MarkedAreRoots(World)'
  BY <1>1 DEF Tidy, MarkedAreRoots
<1>4. ASSUME NEW p \in live'  PROVE \E s : ListOf(World, p, s)'
  <2>1. PICK s : ListOf(w, p, s)
    BY <1>4 DEF Tidy, Linked
  <2>2. ListOf(World, p, s)'
    BY <1>1, <1>2, <2>1 DEF ListOf, Threads
  <2> QED  BY <2>2
<1> QED  BY <1>3, <1>4 DEF Tidy, Linked

LEMMA SameTidy ==
  ASSUME Tidy(World), UNCHANGED <<live, killme, parent, child, peer>>  PROVE Tidy(World)'
<1>1. /\ World'.killme = World.killme /\ World'.parent = World.parent
      /\ World'.child = World.child /\ World'.peer = World.peer
  BY DEF World
<1>2. \A h : Resolve(h)' = Resolve(h)
  BY DEF Resolve
<1>3. MarkedAreRoots(World)'
  BY <1>1 DEF Tidy, MarkedAreRoots
<1>4. ASSUME NEW p \in live'  PROVE \E s : ListOf(World, p, s)'
  <2>1. PICK s : ListOf(World, p, s)
    BY <1>4 DEF Tidy, Linked
  <2>2. ListOf(World, p, s)'
    BY <1>1, <1>2, <2>1 DEF ListOf, Threads
  <2> QED  BY <2>2
<1> QED  BY <1>3, <1>4 DEF Tidy, Linked

(* No handle names what is created: it has no parent and no children. *)
LEMMA CreateTidy ==
  ASSUME HierarchyInv, NEW e \in Ents, Create(e)  PROVE Tidy(World)'
<1>1. /\ World \in Worlds /\ Born /\ e \in unborn /\ live' = live \cup {e}
      /\ None \notin live' /\ e \notin live
  BY RemovalConstants DEF HierarchyInv, RemovalInv, Sound, Born, Create
<1>2. PICK w : w = World
  OBVIOUS
<1>3. World' = w
  BY <1>2 DEF World, Create
<1>4. Tidy(w) /\ w \in Worlds
  BY <1>1, <1>2 DEF HierarchyInv
<1>5. /\ w.parent \in [Ents -> Known] /\ w.child \in [Ents -> Known] /\ w.peer \in [Ents -> Known]
      /\ w.child[e] = None /\ live \subseteq Ents /\ e \notin Known
  BY <1>1, <1>4, WorldFields, RemovalConstants DEF Known, Born
<1>6. \A h : h # e => Resolve(h)' = Resolve(h)
  BY <1>1 DEF Resolve
<1>7. \A x \in Ents : w.parent[x] \in live' => w.parent[x] \in live
  BY <1>1, <1>5
<1>8. MarkedAreRoots(World)'
  BY <1>1, <1>3, <1>4, <1>7 DEF Tidy, MarkedAreRoots
<1>9. w.parent[e] \notin live'
  BY <1>1, <1>4, <1>7 DEF Tidy, MarkedAreRoots
<1>10. ASSUME NEW p \in live, p # e  PROVE \E s : ListOf(World, p, s)'
  <2>1. PICK s : ListOf(w, p, s)
    BY <1>4 DEF Tidy, Linked
  <2>2. /\ s \in Seq(live)
        /\ \A i, j \in 1 .. Len(s) : s[i] = s[j] => i = j
        /\ Resolve(w.child[p]) = IF Len(s) = 0 THEN None ELSE s[1]
        /\ \A i \in 1 .. Len(s) : Resolve(w.peer[s[i]]) = IF i = Len(s) THEN None ELSE s[i + 1]
        /\ \A c \in live : w.parent[c] = p <=> \E i \in 1 .. Len(s) : s[i] = c
        /\ \A i \in 1 .. Len(s) : s[i] \in live
    BY <2>1 DEF ListOf, Threads
  <2>3. s \in Seq(live')
    BY <1>1, <2>2
  <2>4. Resolve(World.child[p])' = IF Len(s) = 0 THEN None ELSE s[1]
    BY <1>3, <1>5, <1>6, <2>2
  <2>5. \A i \in 1 .. Len(s) : Resolve(World.peer[s[i]])' = IF i = Len(s) THEN None ELSE s[i + 1]
    BY <1>3, <1>5, <1>6, <2>2
  <2>6. \A c \in live' : World'.parent[c] = p <=> \E i \in 1 .. Len(s) : s[i] = c
    BY <1>1, <1>3, <1>9, <2>2
  <2> QED  BY <2>2, <2>3, <2>4, <2>5, <2>6 DEF ListOf, Threads
<1>11. \E s : ListOf(World, e, s)'
  <2>1. Len(<<>>) = 0 /\ <<>> \in Seq(live') /\ \A i \in 1 .. Len(<<>>) : FALSE
    OBVIOUS
  <2>2. Resolve(World.child[e])' = None
    BY <1>1, <1>3, <1>5 DEF Resolve
  <2>3. \A c \in live' : World'.parent[c] # e
    BY <1>1, <1>3, <1>5
  <2>4. ListOf(World, e, <<>>)'
    BY <2>1, <2>2, <2>3 DEF ListOf, Threads
  <2> QED  BY <2>4
<1> QED  BY <1>1, <1>8, <1>10, <1>11 DEF Tidy, Linked

LEMMA SetParentTidy ==
  ASSUME ~ParentMarked, HierarchyInv, NEW c \in Ents, NEW p \in Ents \cup {None}, SetParent(c, p)
  PROVE  Tidy(World)'
<1> DEFINE out == UnlinkFromParent(World, c)
<1>1. /\ World \in Worlds /\ Born /\ c \in live /\ p \in live \cup {None} /\ c \notin killme
      /\ Tidy(World)
  BY DEF HierarchyInv, RemovalInv, Sound, SetParent
<1>2. /\ out \in Worlds /\ OnlyHandles(World, out) /\ Linked(out)
      /\ out.parent[c] \notin live
      /\ \A x \in Ents : x # c => out.parent[x] = World.parent[x]
  BY <1>1, UnlinkFromParentType, UnlinkFromParentLinked DEF Tidy
<1>3. PICK w : w = IF p \in {None, c} THEN out ELSE LinkChild(out, p, c)
  OBVIOUS
<1>4. Becomes(w) /\ live' = live
  BY <1>3 DEF SetParent
<1> HIDE DEF out
<1>5. CASE p \in {None, c}
  <2>1. Tidy(out)
    BY <1>1, <1>2, WorldOf DEF Tidy, MarkedAreRoots, OnlyHandles
  <2> QED  BY <1>3, <1>4, <1>5, <2>1, BecomesTidy
<1>6. CASE p \notin {None, c}
  <2>1. p \in live /\ w = LinkChild(out, p, c)
    BY <1>1, <1>3, <1>6
  <2>2. Linked(w)
    BY <1>1, <1>2, <2>1, LinkChildLinked
  <2>3. /\ OnlyHandles(out, w)
        /\ \A x \in Ents :
             /\ w.parent[x] = IF x = c THEN p ELSE out.parent[x]
             /\ w.peer[x] = IF x = c THEN Resolve(out.child[p]) ELSE out.peer[x]
             /\ w.child[x] = IF x = p THEN c ELSE out.child[x]
    BY <1>1, <1>2, <2>1, LinkChildType
  <2>4. w.killme = killme /\ World.killme = killme
    BY <1>2, <2>3, WorldOf DEF OnlyHandles
  <2>5. MarkedAreRoots(w)
    BY <1>1, <1>2, <2>3, <2>4 DEF Tidy, MarkedAreRoots
  <2> QED  BY <1>4, <2>2, <2>5, BecomesTidy DEF Tidy
<1> QED  BY <1>5, <1>6

LEMMA TransferChildrenTidy ==
  ASSUME HierarchyInv, NEW from \in Ents, NEW to \in Ents, TransferChildren(from, to)
  PROVE  Tidy(World)'
<1>1. PICK w : w = Transferred(World, Children(World, from), from, to)
  OBVIOUS
<1>2. /\ World \in Worlds /\ Born /\ from \in live /\ to \in live /\ Tidy(World)
      /\ Becomes(w) /\ live' = live
  BY <1>1 DEF HierarchyInv, RemovalInv, Sound, TransferChildren
<1>3. Tidy(w)
  BY <1>1, <1>2, TransferredTidy
<1> QED  BY <1>2, <1>3, BecomesTidy

LEMMA UTIL_RemoveImmediateTidy ==
  ASSUME HierarchyInv, NEW e \in Ents, UTIL_RemoveImmediate(e)  PROVE Tidy(World)'
<1>1. PICK w : w = UpdateOnRemove(World, e)
  OBVIOUS
<1>2. /\ Born /\ Sound(World, {}) /\ Tidy(World) /\ e \in live \ World.killme
      /\ live' = live \ {e}
  BY WorldOf DEF HierarchyInv, RemovalInv, UTIL_RemoveImmediate
<1>3. Tidy(w) /\ w \in Worlds /\ e \in w.killme
  <2>1. TakesAway(World, w, live)
    BY <1>1, <1>2, UpdateOnRemoveTidy
  <2>2. /\ Sound(w, {e}) /\ Later(Mark(World, e), w)
        /\ Mark(World, e).killme = World.killme \cup {e}
    BY <1>1, <1>2, UpdateOnRemoveSound
  <2> QED  BY <2>1, <2>2 DEF TakesAway, Sound, Later
<1> DEFINE h == [w EXCEPT !.child[e] = None]
<1>4. /\ h.killme = w.killme /\ h.parent = w.parent /\ h.peer = w.peer
      /\ h.child = [w.child EXCEPT ![e] = None]
  BY <1>2, <1>3, ChildSetType DEF OnlyHandles, Known
<1>5. Becomes(h)
  BY <1>1 DEF UTIL_RemoveImmediate
<1> HIDE DEF h
<1>6. /\ World'.killme = w.killme /\ World'.parent = w.parent /\ World'.peer = w.peer
      /\ World'.child = [w.child EXCEPT ![e] = None]
  BY <1>4, <1>5 DEF World, Becomes
<1> QED  BY <1>2, <1>3, <1>6, DestroyedTidy

LEMMA ReleaseTidy == HierarchyInv /\ Release => Tidy(World)'
<1> SUFFICES ASSUME HierarchyInv, Release  PROVE Tidy(World)'
  OBVIOUS
<1>1. PICK e : e = delList[cursor]
  OBVIOUS
<1>2. PICK w : w = World
  OBVIOUS
<1>3. cursor \in DOMAIN delList
  BY DEF Release
<1>4. e \in Pending(delList) /\ Pending(delList) = live \cap killme
  <2>1. delList \in Seq(Ents) /\ Pending(delList) = live \cap killme
    BY WorldOf, WorldFields DEF HierarchyInv, RemovalInv, Sound
  <2>2. cursor \in {j \in DOMAIN delList : j >= cursor}
    BY <1>3, <2>1
  <2> QED  BY <1>1, <2>1, <2>2 DEF Pending
<1>5. e \in live /\ e \in w.killme /\ w \in Worlds /\ Tidy(w) /\ Born
  BY <1>2, <1>4, WorldOf DEF HierarchyInv, RemovalInv, Sound
<1>6. /\ live' = live \ {e}
      /\ World'.parent = w.parent /\ World'.peer = w.peer /\ World'.killme = w.killme
      /\ World'.child = [w.child EXCEPT ![e] = None]
  BY <1>1, <1>2, WorldOf DEF World, Release
<1> QED  BY <1>5, <1>6, DestroyedTidy

(* What UTIL_Remove and the clean-ups leave. *)
LEMMA RemovalsTidy ==
  ASSUME HierarchyInv, [Next]_vars,
         \/ \E e \in Ents : UTIL_Remove(e)
         \/ FlushQueue \/ BeginCleanup
         \/ \E o \in Orders(live) : Clear(o)
  PROVE  /\ Tidy(World)'
         /\ \A c, p \in live : parent[c] = p /\ p \in killme' \ killme
              => c \in killme' \cup Range(queue')
<1>1. Born /\ Sound(World, {}) /\ Tidy(World) /\ World.killme = killme /\ World.parent = parent
  BY WorldOf DEF HierarchyInv, RemovalInv
<1>2. ASSUME NEW e \in Ents, UTIL_Remove(e)
      PROVE  \E w : TakesAway(World, w, live) /\ Orphanless(World, w) /\ Becomes(w)
  <2>1. PICK w : w = Removed(World, e)
    OBVIOUS
  <2>2. Becomes(w) /\ e \in live
    BY <1>2, <2>1 DEF UTIL_Remove
  <2> QED  BY <1>1, <2>1, <2>2, RemovedTidy
<1>3. ASSUME FlushQueue \/ BeginCleanup
      PROVE  \E w : TakesAway(World, w, live) /\ Orphanless(World, w) /\ Becomes(w)
  <2>1. PICK w : w = Flushed(World)
    OBVIOUS
  <2>2. Becomes(w) /\ ~inCallback
    BY <1>3, <2>1 DEF FlushQueue, BeginCleanup
  <2> QED  BY <1>1, <2>1, <2>2, FlushedTidy
<1>4. ASSUME NEW o \in Orders(live), Clear(o)
      PROVE  \E w : TakesAway(World, w, live) /\ Orphanless(World, w) /\ Becomes(w)
  <2>1. PICK v : v = RemovedAll(World, o)
    OBVIOUS
  <2>2. PICK w : w = Flushed(v)
    OBVIOUS
  <2>3. Becomes(w) /\ ~inCallback
    BY <1>4, <2>1, <2>2 DEF Clear, CleanupAfter
  <2>4. o \in Seq(live) /\ Range(o) = live
    BY <1>1, OrderHasAll
  <2>5. /\ Sound(v, {}) /\ live \subseteq v.killme
        /\ TakesAway(World, v, live)
    BY <1>1, <2>1, <2>3, <2>4, RemovedAllSound, RemovedAllTidy DEF Going
  <2>6. TakesAway(v, w, live)
    BY <1>1, <2>2, <2>3, <2>5, FlushedTidy DEF TakesAway
  <2>7. TakesAway(World, w, live)
    BY <2>5, <2>6, TakesTwice
  <2>8. live \subseteq w.killme
    BY <2>5, <2>6 DEF TakesAway
  <2> QED  BY <2>3, <2>7, <2>8 DEF Orphanless, Going
<1>5. PICK w : TakesAway(World, w, live) /\ Orphanless(World, w) /\ Becomes(w)
  BY <1>2, <1>3, <1>4
<1>6. live' = live
  BY DEF UTIL_Remove, FlushQueue, BeginCleanup, Clear, CleanupAfter
<1>7. Tidy(World)'
  BY <1>5, <1>6, BecomesTidy DEF TakesAway
<1>8. killme' = w.killme /\ queue' = w.queue
  BY <1>5 DEF Becomes
<1> QED  BY <1>1, <1>5, <1>7, <1>8 DEF Orphanless, Going

LEMMA NextHierarchy == ~ParentMarked /\ HierarchyInv /\ [Next]_vars => HierarchyInv'
<1> SUFFICES ASSUME ~ParentMarked, HierarchyInv, [Next]_vars  PROVE HierarchyInv'
  OBVIOUS
<1>1. RemovalInv'
  BY NextRemovals DEF HierarchyInv
<1>2. CASE UNCHANGED vars
  BY <1>2, SameTidy, <1>1 DEF vars, HierarchyInv
<1>3. CASE \E e \in Ents : Create(e)
  BY <1>1, <1>3, CreateTidy DEF HierarchyInv
<1>4. CASE \/ \E e \in Ents : UTIL_Remove(e)
           \/ FlushQueue \/ BeginCleanup
           \/ \E o \in Orders(live) : Clear(o)
  BY <1>1, <1>4, RemovalsTidy DEF HierarchyInv
<1>5. CASE \E e \in Ents : UTIL_RemoveImmediate(e)
  BY <1>1, <1>5, UTIL_RemoveImmediateTidy DEF HierarchyInv
<1>6. CASE \E c \in Ents, p \in Ents \cup {None} : SetParent(c, p)
  BY <1>1, <1>6, SetParentTidy DEF HierarchyInv
<1>7. CASE \E from, to \in Ents : TransferChildren(from, to)
  BY <1>1, <1>7, TransferChildrenTidy DEF HierarchyInv
<1>8. CASE Callback \/ EndCleanup
  BY <1>1, <1>8, SameTidy DEF HierarchyInv, Callback, EndCleanup
<1>9. CASE Release
  BY <1>1, <1>9, ReleaseTidy DEF HierarchyInv
<1> QED  BY <1>2, <1>3, <1>4, <1>5, <1>6, <1>7, <1>8, <1>9 DEF Next

LEMMA HierarchyInductive ==
  ASSUME ~ParentMarked  PROVE Spec => []HierarchyInv
<1>1. HierarchyInv /\ [Next]_vars => HierarchyInv'
  BY NextHierarchy
<1> QED  BY <1>1, InitHierarchy, PTL DEF Spec

(* ListsMatchParents: unless marked entities are given a parent, the child *)
(* lists hold those whose parent it is, once each, through every removal   *)
(* (UnlinkChild's Assert never fails).                                     *)
THEOREM ListsHoldChildren ==
  ASSUME ~ParentMarked  PROVE Spec => []ListsMatchParents
<1>1. HierarchyInv => ListsMatchParents
  <2> SUFFICES ASSUME HierarchyInv  PROVE ListsMatchParents
    OBVIOUS
  <2>1. World \in Worlds /\ Linked(World) /\ Born /\ World.parent = parent
    BY WorldOf DEF HierarchyInv, RemovalInv, Sound, Tidy
  <2>2. ASSUME NEW p \in live
        PROVE  /\ Range(Children(World, p)) = {c \in live : parent[c] = p}
               /\ IsInjective(Children(World, p))
    BY <2>1, KidsAreChildren DEF Kids
  <2> QED  BY <2>2 DEF ListsMatchParents
<1> QED  BY <1>1, HierarchyInductive, PTL

(* NoOrphans: unless marked entities are given a parent, who is attached to *)
(* an entity goes with it (CBaseEntity::UpdateOnRemove).                    *)
THEOREM NoneIsOrphaned ==
  ASSUME ~ParentMarked  PROVE Spec => NoOrphans
<1>1. HierarchyInv /\ [Next]_vars =>
        [\A c, p \in live : (Resolve(parent[c]) = p /\ p \in killme' \ killme)
            => c \in killme' \cup Range(queue')]_vars
  <2> SUFFICES ASSUME HierarchyInv, [Next]_vars, NEW c \in live, NEW p \in live,
                      Resolve(parent[c]) = p, p \in killme' \ killme
               PROVE  c \in killme' \cup Range(queue')
    OBVIOUS
  <2>1. parent[c] = p
    BY RemovalConstants DEF Resolve, HierarchyInv, RemovalInv, Born
  <2>2. CASE \/ \E e \in Ents : UTIL_Remove(e)
             \/ FlushQueue \/ BeginCleanup
             \/ \E o \in Orders(live) : Clear(o)
    BY <2>1, <2>2, RemovalsTidy
  <2>3. ASSUME NEW e \in Ents, UTIL_RemoveImmediate(e)  PROVE c \in killme' \cup Range(queue')
    <3>1. PICK w : w = UpdateOnRemove(World, e)
      OBVIOUS
    <3>2. /\ Born /\ Sound(World, {}) /\ Tidy(World) /\ e \in live \ World.killme
          /\ World.parent = parent /\ World.killme = killme
      BY <2>3, WorldOf DEF HierarchyInv, RemovalInv, UTIL_RemoveImmediate
    <3>3. Orphanless(World, w) /\ w \in Worlds
      BY <3>1, <3>2, UpdateOnRemoveTidy, UpdateOnRemoveType DEF Sound
    <3> DEFINE h == [w EXCEPT !.child[e] = None]
    <3>4. h.killme = w.killme /\ h.queue = w.queue
      BY <3>2, <3>3, ChildSetType DEF OnlyHandles, Known
    <3>5. Becomes(h)
      BY <2>3, <3>1 DEF UTIL_RemoveImmediate
    <3> HIDE DEF h
    <3>6. killme' = w.killme /\ queue' = w.queue
      BY <3>4, <3>5 DEF Becomes
    <3> QED  BY <2>1, <3>2, <3>3, <3>6 DEF Orphanless, Going
  <2>4. CASE killme' = killme
    BY <2>4
  <2>5. killme' = killme \/ (\E e \in Ents : UTIL_Remove(e) \/ UTIL_RemoveImmediate(e))
          \/ FlushQueue \/ BeginCleanup \/ \E o \in Orders(live) : Clear(o)
    <3>1. CASE \E x \in Ents, q \in Ents \cup {None} : SetParent(x, q)
      <4>1. PICK x \in Ents, q \in Ents \cup {None} : SetParent(x, q)
        BY <3>1
      <4> DEFINE out == UnlinkFromParent(World, x)
      <4>2. PICK w : w = IF q \in {None, x} THEN out ELSE LinkChild(out, q, x)
        OBVIOUS
      <4>3. /\ Becomes(w) /\ World \in Worlds /\ Born /\ x \in live /\ q \in live \cup {None}
        BY <4>1, <4>2 DEF HierarchyInv, RemovalInv, Sound, SetParent
      <4>4. out \in Worlds /\ out.killme = killme
        BY <4>3, UnlinkFromParentType, WorldOf DEF OnlyHandles
      <4> HIDE DEF out
      <4>5. q \notin {None, x} => LinkChild(out, q, x).killme = killme
        <5> SUFFICES ASSUME q \notin {None, x}  PROVE LinkChild(out, q, x).killme = killme
          OBVIOUS
        <5>1. q \in live
          BY <4>3
        <5>2. OnlyHandles(out, LinkChild(out, q, x))
          BY <4>3, <4>4, <5>1, LinkChildType
        <5> QED  BY <4>4, <5>2 DEF OnlyHandles
      <4> QED  BY <4>2, <4>3, <4>4, <4>5 DEF Becomes
    <3>2. CASE \E from, to \in Ents : TransferChildren(from, to)
      <4>1. PICK from \in Ents, to \in Ents : TransferChildren(from, to)
        BY <3>2
      <4>2. PICK w : w = Transferred(World, Children(World, from), from, to)
        OBVIOUS
      <4>3. Becomes(w) /\ World \in Worlds /\ Born /\ from \in live /\ to \in live
        BY <4>1, <4>2 DEF HierarchyInv, RemovalInv, Sound, TransferChildren
      <4>4. w.killme = killme
        <5>1. Children(World, from) \in Seq(live)
          BY <4>3, ChildrenType
        <5>2. OnlyHandles(World, w)
          BY <4>2, <4>3, <5>1, TransferredType
        <5> QED  BY <5>2, WorldOf DEF OnlyHandles
      <4> QED  BY <4>3, <4>4 DEF Becomes
    <3> QED  BY <3>1, <3>2 DEF Next, vars, Create, Callback, Release, EndCleanup
  <2> QED  BY <2>2, <2>3, <2>4, <2>5
<1> QED  BY <1>1, HierarchyInductive, PTL DEF Spec, NoOrphans

=============================================================================
