--------------------------- MODULE EventQueueProofs ---------------------------
(***************************************************************************)
(* Proofs about EventQueue: what the queue promises for any number of      *)
(* entities, events and frames, and that it implements TimedEvents.        *)
(***************************************************************************)
EXTENDS EventQueue, SelectionProofs

(***************************************************************************)
(* Lists of events.                                                        *)
(***************************************************************************)
InOrder(q) == \A i, j \in DOMAIN q : i < j => Before(q[i], q[j])
NoTwice(q) == \A i, j \in DOMAIN q : q[i].id = q[j].id => i = j
Elements(q) == {q[i] : i \in DOMAIN q}

LEMMA EventType ==
  ASSUME NEW ev \in Event
  PROVE  ev.id \in 1 .. MaxEvents /\ ev.id \in Nat /\ ev.time \in Nat
BY DEF Event

(* There is a place for a new event: in front of the first that is later.  *)
LEMMA PlaceProperties ==
  ASSUME NEW q \in Seq(Event), NEW ev \in Event
  PROVE  LET i == Place(q, ev) IN
         /\ i \in 1 .. Len(q) + 1
         /\ i <= Len(q) => q[i].time > ev.time
         /\ \A j \in 1 .. i - 1 : q[j].time <= ev.time
<1> DEFINE T == {i \in 1 .. Len(q) + 1 : i <= Len(q) => q[i].time > ev.time}
<1>1. Len(q) + 1 \in T /\ T \in SUBSET Nat
  OBVIOUS
<1>2. PICK i \in T : \A j \in T : i <= j
  BY <1>1, LeastNumber
<1>3. \A j \in 1 .. Len(q) : q[j].time \in Nat /\ ev.time \in Nat
  BY EventType
<1>4. \A j \in 1 .. i - 1 : q[j].time <= ev.time
  BY <1>2, <1>3
<1>5. \E k \in 1 .. Len(q) + 1 : /\ k <= Len(q) => q[k].time > ev.time
                                 /\ \A j \in 1 .. k - 1 : q[j].time <= ev.time
  BY <1>2, <1>4
<1> QED  BY <1>5, Zenon DEF Place

(* Where the elements are after an insertion at i. *)
LEMMA InsertedElements ==
  ASSUME NEW q \in Seq(Event), NEW ev \in Event
  PROVE  LET i == Place(q, ev)
             r == Inserted(q, ev) IN
         /\ r \in Seq(Event)
         /\ Len(r) = Len(q) + 1
         /\ r[i] = ev
         /\ \A k \in 1 .. i - 1 : r[k] = q[k]
         /\ \A k \in i + 1 .. Len(q) + 1 : r[k] = q[k - 1]
<1> DEFINE i == Place(q, ev)
           r == Inserted(q, ev)
           a == SubSeq(q, 1, i - 1)
           b == SubSeq(q, i, Len(q))
<1>1. i \in 1 .. Len(q) + 1
  BY PlaceProperties
<1>4. r = a \o <<ev>> \o b
  BY DEF Inserted
<1> HIDE DEF i, r
<1>2. /\ a \in Seq(Event) /\ Len(a) = i - 1
      /\ \A k \in 1 .. i - 1 : a[k] = q[k]
  BY <1>1
<1>3. /\ b \in Seq(Event) /\ Len(b) = Len(q) - i + 1
      /\ \A k \in 1 .. Len(q) - i + 1 : b[k] = q[i + k - 1]
  BY <1>1
<1> HIDE DEF a, b
<1> DEFINE c == a \o <<ev>>
<1>5. /\ c \in Seq(Event) /\ Len(c) = i
      /\ c[i] = ev /\ \A k \in 1 .. i - 1 : c[k] = q[k]
  BY <1>1, <1>2
<1>6. r = c \o b
  BY <1>4
<1> HIDE DEF c
<1>7. r \in Seq(Event) /\ Len(r) = Len(q) + 1
  BY <1>1, <1>3, <1>5, <1>6
<1>8. \A k \in 1 .. i : r[k] = c[k]
  BY <1>1, <1>3, <1>5, <1>6
<1>9. \A k \in i + 1 .. Len(q) + 1 : r[k] = b[k - i]
  <2>1. \A k \in Len(c) + 1 .. Len(c) + Len(b) : (c \o b)[k] = b[k - Len(c)]
    BY <1>3, <1>5
  <2>2. Len(c) + Len(b) = Len(q) + 1
    BY <1>1, <1>3, <1>5
  <2> QED  BY <1>5, <1>6, <2>1, <2>2
<1>10. ASSUME NEW k \in i + 1 .. Len(q) + 1  PROVE r[k] = q[k - 1]
  <2>1. k - i \in 1 .. Len(q) - i + 1 /\ i + (k - i) - 1 = k - 1
    BY <1>1
  <2> QED  BY <1>3, <1>9, <2>1
<1> QED  BY <1>1, <1>5, <1>7, <1>8, <1>10 DEF i, r

(* An event with a new number comes behind its equals: the order stays.    *)
LEMMA InsertedProperties ==
  ASSUME NEW q \in Seq(Event), NEW ev \in Event, InOrder(q), NoTwice(q),
         \A old \in Elements(q) : old.id < ev.id
  PROVE  LET r == Inserted(q, ev) IN
         r \in Seq(Event) /\ InOrder(r) /\ NoTwice(r)
         /\ Elements(r) = Elements(q) \cup {ev}
<1> DEFINE i == Place(q, ev)
           r == Inserted(q, ev)
<1>1. /\ i \in 1 .. Len(q) + 1
      /\ i <= Len(q) => q[i].time > ev.time
      /\ \A j \in 1 .. i - 1 : q[j].time <= ev.time
  BY PlaceProperties
<1>2. /\ r \in Seq(Event) /\ Len(r) = Len(q) + 1 /\ r[i] = ev
      /\ \A k \in 1 .. i - 1 : r[k] = q[k]
      /\ \A k \in i + 1 .. Len(q) + 1 : r[k] = q[k - 1]
  BY InsertedElements
<1> HIDE DEF i, r
<1>3. DOMAIN q = 1 .. Len(q) /\ DOMAIN r = 1 .. Len(q) + 1 /\ Len(q) \in Nat
  BY <1>2
<1> DEFINE old(k) == IF k < i THEN k ELSE k - 1
<1>4. \A k \in 1 .. Len(q) + 1 : k /= i => old(k) \in 1 .. Len(q) /\ r[k] = q[old(k)]
  <2> TAKE k \in 1 .. Len(q) + 1
  <2>1. CASE k < i
    BY <1>1, <1>2, <2>1
  <2>2. CASE k > i
    <3>1. k \in i + 1 .. Len(q) + 1 /\ old(k) = k - 1 /\ k - 1 \in 1 .. Len(q)
      BY <1>1, <2>2
    <3> QED  BY <1>2, <3>1
  <2> QED  BY <1>1, <2>1, <2>2
<1>5. \A k \in 1 .. Len(q) : /\ q[k] \in Event /\ q[k].time \in Nat
                             /\ q[k].id \in Nat /\ q[k].id < ev.id
  <2>1. \A k \in 1 .. Len(q) : q[k] \in Event /\ q[k] \in Elements(q)
    BY <1>3 DEF Elements
  <2> QED  BY <2>1, EventType
<1>6. ev.time \in Nat /\ ev.id \in Nat
  BY EventType
<1>7. \A k \in 1 .. Len(q) : k >= i => ev.time < q[k].time
  <2> TAKE k \in 1 .. Len(q)
  <2> SUFFICES ASSUME k >= i  PROVE ev.time < q[k].time
    OBVIOUS
  <2>1. i \in 1 .. Len(q) /\ ev.time < q[i].time
    BY <1>1, <1>3, <1>5, <1>6
  <2>2. CASE k = i
    BY <2>1, <2>2
  <2>3. CASE k > i
    <3>1. q[i].time < q[k].time \/ q[i].time = q[k].time
      BY <1>3, <2>1, <2>3 DEF InOrder, Before
    <3> QED  BY <1>5, <1>6, <2>1, <3>1
  <2> QED  BY <1>1, <2>2, <2>3
<1>8. InOrder(r)
  <2> SUFFICES ASSUME NEW k \in 1 .. Len(q) + 1, NEW l \in 1 .. Len(q) + 1, k < l
               PROVE  Before(r[k], r[l])
    BY <1>3 DEF InOrder
  <2>1. CASE k = i
    <3>1. l - 1 \in 1 .. Len(q) /\ l - 1 >= i /\ r[l] = q[l - 1]
      BY <1>1, <1>2, <2>1
    <3> QED  BY <1>2, <1>7, <2>1, <3>1 DEF Before
  <2>2. CASE l = i
    <3>1. k \in 1 .. i - 1 /\ k \in 1 .. Len(q)
      BY <1>1, <2>2
    <3> QED  BY <1>1, <1>2, <1>5, <1>6, <2>2, <3>1 DEF Before
  <2>3. CASE k /= i /\ l /= i
    <3>1. old(k) \in 1 .. Len(q) /\ old(l) \in 1 .. Len(q) /\ old(k) < old(l)
      BY <1>1, <2>3
    <3>2. r[k] = q[old(k)] /\ r[l] = q[old(l)]
      BY <1>4, <2>3
    <3> HIDE DEF old
    <3> QED  BY <1>3, <3>1, <3>2 DEF InOrder
  <2> QED  BY <2>1, <2>2, <2>3
<1>9. NoTwice(r)
  <2> SUFFICES ASSUME NEW k \in 1 .. Len(q) + 1, NEW l \in 1 .. Len(q) + 1,
                      k < l, r[k].id = r[l].id
               PROVE  FALSE
    <3>1. \A k, l \in 1 .. Len(q) + 1 : k = l \/ k < l \/ l < k
      OBVIOUS
    <3> QED  BY <1>3, <3>1, Zenon DEF NoTwice
  <2>1. CASE k /= i /\ l /= i
    <3>1. old(k) \in 1 .. Len(q) /\ old(l) \in 1 .. Len(q) /\ old(k) < old(l)
      BY <1>1, <2>1
    <3>2. r[k] = q[old(k)] /\ r[l] = q[old(l)]
      BY <1>4, <2>1
    <3>3. old(k) /= old(l)
      BY <3>1
    <3> HIDE DEF old
    <3> QED  BY <1>3, <3>1, <3>2, <3>3 DEF NoTwice
  <2>2. CASE k = i \/ l = i
    <3>1. \A m \in 1 .. Len(q) + 1 : m /= i => r[m].id < ev.id /\ r[m].id \in Nat
      BY <1>4, <1>5
    <3>2. \E m \in 1 .. Len(q) + 1 : m /= i /\ r[m].id = ev.id
      BY <1>2, <2>2
    <3> QED  BY <1>6, <3>1, <3>2
  <2> QED  BY <2>1, <2>2
<1>10. Elements(r) = Elements(q) \cup {ev}
  <2>1. \A k \in 1 .. Len(q) + 1 : r[k] = ev \/ \E l \in 1 .. Len(q) : r[k] = q[l]
    BY <1>2, <1>4
  <2>2. \A l \in 1 .. Len(q) : \E k \in 1 .. Len(q) + 1 : r[k] = q[l]
    <3> TAKE l \in 1 .. Len(q)
    <3>1. CASE l < i
      BY <1>1, <1>2, <3>1
    <3>2. CASE l >= i
      <4>1. l + 1 \in i + 1 .. Len(q) + 1 /\ l + 1 - 1 = l
        BY <3>2, <1>1
      <4>2. r[l + 1] = q[l]
        BY <1>2, <4>1
      <4> QED  BY <4>1, <4>2, <1>1
    <3> QED  BY <3>1, <3>2, <1>1
  <2>3. r[i] = ev /\ i \in 1 .. Len(q) + 1
    BY <1>1, <1>2
  <2>4. \A x : x \in Elements(r) <=> \E k \in 1 .. Len(q) + 1 : x = r[k]
    BY <1>3 DEF Elements
  <2>5. \A x : x \in Elements(q) <=> \E l \in 1 .. Len(q) : x = q[l]
    BY <1>3 DEF Elements
  <2>6. ASSUME NEW x \in Elements(r)  PROVE x \in Elements(q) \cup {ev}
    BY <2>1, <2>4, <2>5
  <2>7. ASSUME NEW x \in Elements(q) \cup {ev}  PROVE x \in Elements(r)
    BY <2>2, <2>3, <2>4, <2>5
  <2> QED  BY <2>6, <2>7
<1> QED  BY <1>2, <1>8, <1>9, <1>10 DEF r
(* Leaving elements out does not change the order of the others.           *)
LEMMA Subsequence ==
  ASSUME NEW q \in Seq(Event), InOrder(q), NoTwice(q), NEW r \in Seq(Event),
         NEW from \in [1 .. Len(r) -> 1 .. Len(q)],
         \A i \in 1 .. Len(r) : r[i] = q[from[i]],
         \A i, j \in 1 .. Len(r) : i < j => from[i] < from[j]
  PROVE  InOrder(r) /\ NoTwice(r)
<1>1. DOMAIN q = 1 .. Len(q) /\ DOMAIN r = 1 .. Len(r)
  OBVIOUS
<1>2. InOrder(r)
  BY <1>1 DEF InOrder
<1>3. NoTwice(r)
  <2> SUFFICES ASSUME NEW i \in 1 .. Len(r), NEW j \in 1 .. Len(r),
                      r[i].id = r[j].id, i /= j
               PROVE  FALSE
    BY <1>1 DEF NoTwice
  <2>1. from[i] /= from[j]
    <3>1. i < j \/ j < i
      OBVIOUS
    <3>2. from[i] < from[j] \/ from[j] < from[i]
      BY <3>1
    <3>3. from[i] \in Int /\ from[j] \in Int
      OBVIOUS
    <3> QED  BY <3>2, <3>3
  <2> QED  BY <1>1, <2>1 DEF NoTwice
<1> QED  BY <1>2, <1>3

(* The walk that deletes events.                                           *)
LEMMA SelectedEvents ==
  ASSUME NEW q \in Seq(Event), InOrder(q), NoTwice(q), NEW S
  PROVE  LET r == Selected(q, S) IN
         r \in Seq(Event) /\ InOrder(r) /\ NoTwice(r)
         /\ Elements(r) = Elements(q) \cap S
<1> DEFINE r == Selected(q, S)
<1>1. r \in Seq(Event) /\ \E from : Picks(from, r, Len(q), q, S)
  BY SelectedProperties
<1>2. Elements(r) = Elements(q) \cap S
  BY SelectedRange DEF Elements
<1> HIDE DEF r
<1>3. PICK from : Picks(from, r, Len(q), q, S)
  BY <1>1
<1>4. /\ from \in [1 .. Len(r) -> 1 .. Len(q)]
      /\ \A i \in 1 .. Len(r) : r[i] = q[from[i]]
      /\ \A i, j \in 1 .. Len(r) : i < j => from[i] < from[j]
  BY <1>3 DEF Picks
<1>5. InOrder(r) /\ NoTwice(r)
  BY <1>1, <1>4, Subsequence
<1> QED  BY <1>1, <1>2, <1>5 DEF r

(* What is behind a place in the list.                                     *)
LEMMA SuffixProperties ==
  ASSUME NEW q \in Seq(Event), InOrder(q), NoTwice(q), NEW n \in 1 .. Len(q)
  PROVE  LET r == SubSeq(q, n, Len(q)) IN
         r \in Seq(Event) /\ InOrder(r) /\ NoTwice(r)
         /\ Elements(r) \subseteq Elements(q)
<1> DEFINE r == SubSeq(q, n, Len(q))
           from == [i \in 1 .. Len(r) |-> i + n - 1]
<1>1. r \in Seq(Event) /\ Len(r) = Len(q) - n + 1
      /\ \A i \in 1 .. Len(r) : r[i] = q[i + n - 1]
  OBVIOUS
<1> HIDE DEF r
<1>2. /\ from \in [1 .. Len(r) -> 1 .. Len(q)]
      /\ \A i \in 1 .. Len(r) : r[i] = q[from[i]]
      /\ \A i, j \in 1 .. Len(r) : i < j => from[i] < from[j]
  BY <1>1
<1> HIDE DEF from
<1>3. InOrder(r) /\ NoTwice(r)
  BY <1>1, <1>2, Subsequence
<1>4. DOMAIN q = 1 .. Len(q) /\ DOMAIN r = 1 .. Len(r)
  BY <1>1
<1>5. Elements(r) \subseteq Elements(q)
  BY <1>2, <1>4 DEF Elements
<1> QED  BY <1>1, <1>3, <1>5 DEF r

(* A restored queue is the one that was saved.                             *)
LEMMA RestoredIsSaved ==
  ASSUME NEW q \in Seq(Event), InOrder(q)
  PROVE  Restored(q) = q
<1> DEFINE Walks(g) == g = [i \in 0 .. Len(q) |->
                              IF i = 0 THEN <<>> ELSE Inserted(g[i - 1], q[i])]
           K == CHOOSE g : Walks(g)
           upTo == [i \in 0 .. Len(q) |-> SubSeq(q, 1, i)]
<1>1. Restored(q) = K[Len(q)]
  BY DEF Restored
<1>2. ASSUME NEW i \in 1 .. Len(q)
      PROVE  Inserted(upTo[i - 1], q[i]) = upTo[i]
  <2> DEFINE p == SubSeq(q, 1, i - 1)
             k == Place(p, q[i])
             r == Inserted(p, q[i])
  <2>1. p \in Seq(Event) /\ Len(p) = i - 1 /\ \A j \in 1 .. i - 1 : p[j] = q[j]
    OBVIOUS
  <2>2. q[i] \in Event
    OBVIOUS
  <2> HIDE DEF p
  <2>3. /\ k \in 1 .. i
        /\ k <= i - 1 => p[k].time > q[i].time
    <3>1. /\ k \in 1 .. Len(p) + 1
          /\ k <= Len(p) => p[k].time > q[i].time
      BY <2>1, <2>2, PlaceProperties
    <3> HIDE DEF k
    <3>2. Len(p) = i - 1 /\ Len(p) + 1 = i
      BY <2>1
    <3> QED  BY <3>1, <3>2
  <2>4. /\ r \in Seq(Event) /\ Len(r) = i /\ r[k] = q[i]
        /\ \A j \in 1 .. k - 1 : r[j] = p[j]
    <3>1. /\ r \in Seq(Event) /\ Len(r) = Len(p) + 1 /\ r[k] = q[i]
          /\ \A j \in 1 .. k - 1 : r[j] = p[j]
      BY <2>1, <2>2, InsertedElements
    <3> HIDE DEF k, r
    <3>2. Len(p) + 1 = i
      BY <2>1
    <3> QED  BY <3>1, <3>2
  <2> HIDE DEF k, r
  <2>5. k = i
    <3> SUFFICES ASSUME k <= i - 1  PROVE FALSE
      BY <2>3
    <3>1. k \in 1 .. i - 1 /\ k \in DOMAIN q /\ i \in DOMAIN q /\ k < i
      BY <2>3
    <3>2. q[k].time > q[i].time /\ Before(q[k], q[i])
      BY <2>1, <2>3, <3>1 DEF InOrder
    <3>3. q[k].time \in Nat /\ q[i].time \in Nat
      BY <3>1, EventType
    <3> QED  BY <3>2, <3>3 DEF Before
  <2>6. \A j \in 1 .. i : r[j] = q[j]
    BY <2>1, <2>4, <2>5
  <2>7. SubSeq(q, 1, i) \in Seq(Event) /\ Len(SubSeq(q, 1, i)) = i
        /\ \A j \in 1 .. i : SubSeq(q, 1, i)[j] = q[j]
    OBVIOUS
  <2>8. r = SubSeq(q, 1, i)
    BY <2>4, <2>6, <2>7
  <2>9. upTo[i - 1] = p /\ upTo[i] = SubSeq(q, 1, i)
    BY DEF p
  <2> QED  BY <2>8, <2>9 DEF r
<1>3. upTo[0] = <<>> /\ upTo = [i \in 0 .. Len(q) |-> upTo[i]]
  OBVIOUS
<1>4. upTo[Len(q)] = q
  OBVIOUS
<1> HIDE DEF upTo
<1>5. Walks(upTo)
  BY <1>2, <1>3
<1>6. Walks(K)
  BY <1>5
<1> HIDE DEF K
<1>7. K[0] = <<>> /\ \A i \in 1 .. Len(q) : K[i] = Inserted(K[i - 1], q[i])
  BY <1>6
<1> DEFINE P == {i \in 0 .. Len(q) : K[i] = upTo[i]}
<1>8. 0 \in P
  BY <1>3, <1>7
<1>9. ASSUME NEW i \in 0 .. Len(q) - 1, i \in P
      PROVE  i + 1 \in P
  <2>1. i + 1 \in 1 .. Len(q) /\ i + 1 - 1 = i
    OBVIOUS
  <2>2. K[i + 1] = Inserted(K[i], q[i + 1]) /\ upTo[i + 1] = Inserted(upTo[i], q[i + 1])
    BY <1>2, <1>7, <2>1
  <2> QED  BY <1>9, <2>1, <2>2
<1> HIDE DEF P
<1>10. 0 .. Len(q) \subseteq P
  BY <1>8, <1>9, InductionUpTo
<1> QED  BY <1>1, <1>4, <1>10 DEF P
-----------------------------------------------------------------------------
(***************************************************************************)
(* The inductive invariant.                                                *)
(***************************************************************************)
Delivering == {"byName", "direct", "byClass", "remove"}

(* Events are numbered as they are posted. *)
Numbered == Queued \cup FiredIds \cup cancelled \subseteq 1 .. posted

(* The event being delivered is in the queue until it is removed from it, *)
(* or was deleted under the loop.                                          *)
Delivery ==
  /\ cur = NULL <=> pc \in {"commands", "think", "service", "frameEnd"}
  /\ cur = NULL => freed = NULL
  /\ handling /= NULL => pc \in Delivering
  /\ cur /= NULL => cur.id \in FiredIds
  /\ cur /= NULL /\ freed = NULL => cur \in Events
  /\ freed /= NULL => MaySelfCancel /\ cur.id \in cancelled

(* Until a handler deletes the event that called it no event is lost.      *)
Conserved == FiredIds \cap cancelled = {} => NothingLost

(* A name is only ever lost, and with the mark. *)
Naming ==
  \A e \in Entities :
    name[e] \in {FirstName[e], NULL} /\ (life[e] /= "alive" => name[e] = NULL)

(* An event is for a name or for an entity. *)
Addressed ==
  \A ev \in Events \cup ({cur} \ {NULL}) : ev.target = NULL \/ ev.ent = NULL

(* The searches so far: who got the input had the name, until the search   *)
(* by classname begins with nobody reached.                                *)
Searching ==
  /\ pc \in {"byName", "byClass"} => cur.target /= NULL
  /\ pc \in Delivering => (found <=> reached /= {})
  /\ pc \in {"byName", "direct"} /\ cur.target /= NULL => reached = named
  /\ pc = "byName" =>
       \A e \in Entities : e <= at /\ name[e] = cur.target => e \in reached
  /\ pc \in {"direct", "remove"} /\ cur.target /= NULL =>
       \A e \in Entities : name[e] = cur.target => e \in reached
  /\ pc = "byClass" =>
       /\ named = {}
       /\ \A e \in Entities : name[e] /= cur.target
       /\ \A e \in reached : Classname[e] = cur.target
       /\ \A e \in Entities :
            e <= at /\ Classname[e] = cur.target /\ life[e] /= "gone" => e \in reached

(* What the searches promise when they are over. *)
Reaching == TargetsReached /\ ClassnameIsFallback

(* While paused an event is taken only with a step left, and there are no  *)
(* more steps left than were asked for or are there from the start; the    *)
(* step of the event being delivered is counted down when it is done.      *)
StepsLeft ==
  LET busy == paused /\ pc \in Delivering \cup {"undefined"}
  IN  /\ busy \/ (paused /\ pc = "service") => steps > 0
      /\ granted + FirstSteps >= IF busy THEN steps - 1 ELSE steps

QInv ==
  /\ QueueInOrder
  /\ NoTwice(queue)
  /\ Numbered
  /\ Delivery
  /\ CancelledNeverFires
  /\ Conserved

SInv ==
  /\ Naming
  /\ Addressed
  /\ Searching
  /\ Reaching
  /\ StepsLeft

IInv == TypeOK /\ QInv /\ SInv
-----------------------------------------------------------------------------
LEMMA InitInvariant == Init => IInv
<1> SUFFICES ASSUME Init  PROVE IInv
  OBVIOUS
<1> USE ConstantsAssumption, NullAssumption DEF Init
<1>1. TypeOK
  <2>1. queue \in Seq(Event) /\ fired \in Seq([event : Event, at : Nat])
    OBVIOUS
  <2>2. MaxEvents \in Nat /\ MaxTime \in Nat /\ MaxPauses \in Nat
    OBVIOUS
  <2>3. curtime \in 0 .. MaxTime /\ pauses \in 0 .. MaxPauses /\ posted \in 0 .. MaxEvents
        /\ cancelled \in SUBSET (1 .. MaxEvents)
    BY <2>2
  <2>4. life \in [Entities -> {"alive", "marked", "gone"}] /\ name \in [Entities -> Names \cup {NULL}]
    OBVIOUS
  <2>5. reached \in SUBSET Entities /\ named \in SUBSET Entities /\ granted \in Int /\ steps \in Nat
    OBVIOUS
  <2> QED  BY <2>1, <2>3, <2>4, <2>5 DEF TypeOK, Places
<1>2. QInv
  BY DEF QInv, QueueInOrder, NoTwice, Numbered, Delivery, CancelledNeverFires, Conserved,
         NothingLost, Queued, FiredIds, Delivering
<1>3. SInv
  BY DEF SInv, Naming, Addressed, Searching, Reaching, TargetsReached, ClassnameIsFallback,
         StepsLeft, Delivering, Events
<1> QED  BY <1>1, <1>2, <1>3 DEF IInv

(* The numbers in the queue are those of its elements.                     *)
LEMMA QueuedElements ==
  /\ Events = Elements(queue)
  /\ Queued = {ev.id : ev \in Elements(queue)}
  /\ QueueInOrder <=> InOrder(queue)
BY DEF Events, Elements, Queued, QueueInOrder, InOrder

(* What the searches rely on when none of it changes.                      *)
LEMMA SearchUnchanged ==
  ASSUME SInv, UNCHANGED <<entities, pc, cur, at, found, reached, named, paused, steps,
                         granted>>
  PROVE  Naming' /\ Searching' /\ Reaching' /\ StepsLeft'
<1> USE DEF SInv, entities
<1>1. Naming'
  BY DEF Naming
<1>2. Searching'
  BY DEF Searching
<1>3. Reaching'
  BY DEF Reaching, TargetsReached, ClassnameIsFallback, Resolves
<1>4. StepsLeft'
  BY DEF StepsLeft
<1> QED  BY <1>1, <1>2, <1>3, <1>4

(* What adding an event changes. *)
LEMMA PostEvents ==
  ASSUME IInv, NEW target \in Names \cup {NULL}, NEW ent \in Entities \cup {NULL},
         NEW d \in Delays, NEW c \in Entities,
         target = NULL \/ ent = NULL,
         Post(target, ent, d, c)
  PROVE  LET ev == [id |-> posted + 1, time |-> curtime + d, target |-> target,
                    ent |-> ent, caller |-> c]
         IN  /\ ev \in Event /\ queue' \in Seq(Event) /\ InOrder(queue') /\ NoTwice(queue')
             /\ Events' = Events \cup {ev} /\ Queued' = Queued \cup {posted + 1}
<1> DEFINE ev == [id |-> posted + 1, time |-> curtime + d, target |-> target,
                  ent |-> ent, caller |-> c]
<1>1. /\ posted < MaxEvents /\ posted' = posted + 1
      /\ queue' = Inserted(queue, ev)
      /\ UNCHANGED <<curtime, entities, service, debug, fired, cancelled>>
  BY DEF Post
<1>2. /\ posted \in 0 .. MaxEvents /\ MaxEvents \in Nat /\ curtime \in Nat /\ d \in Nat
      /\ queue \in Seq(Event) /\ cancelled \subseteq 1 .. MaxEvents
  BY ConstantsAssumption DEF IInv, TypeOK
<1>3. ev \in Event
  BY <1>1, <1>2 DEF Event
<1>4. ev.id = posted + 1 /\ (ev.target = NULL \/ ev.ent = NULL)
  OBVIOUS
<1> HIDE DEF ev
<1>5. \A old \in Elements(queue) : old.id < ev.id
  <2>1. \A old \in Elements(queue) : old.id \in 1 .. posted
    BY QueuedElements DEF IInv, QInv, Numbered
  <2> QED  BY <1>2, <1>4, <2>1
<1>6. InOrder(queue) /\ NoTwice(queue)
  BY QueuedElements DEF IInv, QInv
<1>7. queue' \in Seq(Event) /\ InOrder(queue') /\ NoTwice(queue')
      /\ Elements(queue') = Elements(queue) \cup {ev}
  BY <1>1, <1>2, <1>3, <1>5, <1>6, InsertedProperties
<1>8. Events' = Events \cup {ev} /\ Queued' = Queued \cup {posted + 1}
  <2>1. Events' = Elements(queue') /\ Queued' = {e.id : e \in Elements(queue')}
    BY DEF Events, Elements, Queued
  <2> QED  BY <1>4, <1>7, <2>1, QueuedElements
<1> QED  BY <1>3, <1>7, <1>8 DEF ev

LEMMA PostStep ==
  ASSUME IInv, NEW target \in Names \cup {NULL}, NEW ent \in Entities \cup {NULL},
         NEW d \in Delays, NEW c \in Entities,
         target = NULL \/ ent = NULL,
         Post(target, ent, d, c)
  PROVE  IInv'
<1> DEFINE ev == [id |-> posted + 1, time |-> curtime + d, target |-> target,
                  ent |-> ent, caller |-> c]
<1>1. /\ posted < MaxEvents /\ posted' = posted + 1
      /\ queue' = Inserted(queue, ev)
      /\ UNCHANGED <<curtime, entities, service, debug, fired, cancelled>>
  BY DEF Post
<1>2. /\ posted \in 0 .. MaxEvents /\ MaxEvents \in Nat /\ curtime \in Nat /\ d \in Nat
      /\ queue \in Seq(Event) /\ cancelled \subseteq 1 .. MaxEvents
  BY ConstantsAssumption DEF IInv, TypeOK
<1>3. ev.id = posted + 1 /\ (ev.target = NULL \/ ev.ent = NULL)
  OBVIOUS
<1>7. queue' \in Seq(Event) /\ InOrder(queue') /\ NoTwice(queue')
  BY PostEvents
<1>8. Events' = Events \cup {ev} /\ Queued' = Queued \cup {posted + 1}
  BY PostEvents
<1> HIDE DEF ev
<1>9. TypeOK'
  BY <1>1, <1>2, <1>7 DEF IInv, TypeOK, entities, service, debug
<1>10. QInv'
  <2> USE <1>1 DEF IInv, QInv, service
  <2>1. FiredIds' = FiredIds
    BY DEF FiredIds
  <2>2. QueueInOrder'
    BY <1>7 DEF QueueInOrder, InOrder
  <2>3. Numbered'
    BY <1>2, <1>8, <2>1 DEF Numbered
  <2>4. Delivery'
    BY <1>8, <2>1 DEF Delivery
  <2>5. posted + 1 \notin FiredIds \cup cancelled
    BY <1>2 DEF Numbered
  <2>6. CancelledNeverFires'
    BY <1>8, <2>1, <2>5 DEF CancelledNeverFires
  <2>7. Conserved'
    <3>1. 1 .. posted + 1 = (1 .. posted) \cup {posted + 1}
      BY <1>2
    <3> QED  BY <1>8, <2>1, <3>1 DEF Conserved, NothingLost
  <2> QED  BY <1>7, <2>2, <2>3, <2>4, <2>6, <2>7
<1>11. SInv'
  <2> USE <1>1 DEF IInv, SInv, service, debug
  <2>1. Naming' /\ Searching' /\ Reaching' /\ StepsLeft'
    BY SearchUnchanged
  <2>2. Addressed'
    BY <1>3, <1>8 DEF Addressed
  <2> QED  BY <2>1, <2>2
<1> QED  BY <1>9, <1>10, <1>11 DEF IInv

(* What deleting events changes. *)
LEMMA DeleteStep ==
  ASSUME IInv, NEW hit, hit \subseteq Queued, DeleteEvents(hit)
  PROVE  IInv'
<1> DEFINE kept == {ev \in Events : ev.id \notin hit}
           hitsCur == cur /= NULL /\ freed = NULL /\ cur.id \in hit
<1>1. /\ hit /= {}
      /\ hitsCur => MaySelfCancel
      /\ queue' = Selected(queue, kept)
      /\ cancelled' = cancelled \cup hit
      /\ freed' = IF ~hitsCur THEN freed ELSE IF Len(queue) = 1 THEN 0 ELSE queue[2].id
      /\ UNCHANGED <<curtime, entities, pc, cur, at, found, handling, reached, named, debug,
                     posted, fired>>
  BY DEF DeleteEvents
<1>2. /\ queue \in Seq(Event) /\ InOrder(queue) /\ NoTwice(queue)
      /\ posted \in 0 .. MaxEvents /\ MaxEvents \in Nat
  BY ConstantsAssumption, QueuedElements DEF IInv, TypeOK, QInv
<1>3. queue' \in Seq(Event) /\ InOrder(queue') /\ NoTwice(queue')
      /\ Elements(queue') = Elements(queue) \cap kept
  BY <1>1, <1>2, SelectedEvents
<1>4. Events' = kept /\ Queued' = Queued \ hit
  <2>1. Events' = Elements(queue') /\ Queued' = {e.id : e \in Elements(queue')}
    BY DEF Events, Elements, Queued
  <2>2. Elements(queue') = kept
    BY <1>3, QueuedElements
  <2> QED  BY <2>1, <2>2, QueuedElements
<1>5. hit \subseteq 1 .. posted /\ hit \subseteq 1 .. MaxEvents
  BY <1>2 DEF IInv, QInv, Numbered
<1>6. hitsCur => freed' \in 0 .. MaxEvents
  <2>1. \E i \in 1 .. Len(queue) : TRUE
    BY <1>1, <1>2 DEF Queued
  <2>2. Len(queue) /= 1 => queue[2] \in Event
    <3>1. Len(queue) \in Nat /\ Len(queue) >= 1
      BY <1>2, <2>1
    <3>2. \A i \in 1 .. Len(queue) : queue[i] \in Event
      BY <1>2
    <3>3. ASSUME Len(queue) /= 1  PROVE 2 \in 1 .. Len(queue)
      <4>1. PICK n \in Nat : n = Len(queue)
        BY <3>1
      <4>2. n >= 1 /\ n /= 1
        BY <3>1, <3>3, <4>1, Zenon
      <4> QED  BY <4>1, <4>2
    <3> QED  BY <3>2, <3>3
  <2> QED  BY <1>1, <1>2, <2>2, EventType
<1>7. TypeOK'
  BY <1>1, <1>2, <1>3, <1>5, <1>6 DEF IInv, TypeOK, entities, debug
<1>8. QInv'
  <2> USE <1>1 DEF IInv, QInv
  <2>1. FiredIds' = FiredIds
    BY DEF FiredIds
  <2>2. QueueInOrder'
    BY <1>3 DEF QueueInOrder, InOrder
  <2>3. Numbered'
    BY <1>4, <1>5, <2>1 DEF Numbered
  <2>4. freed' = NULL <=> freed = NULL /\ ~hitsCur
    BY <1>2, <1>6, NullAssumption
  <2>5. Delivery'
    BY <1>4, <2>1, <2>4 DEF Delivery
  <2>6. CancelledNeverFires'
    <3>1. Queued' \cap cancelled' = {}
      BY <1>4 DEF CancelledNeverFires
    <3>2. Queued' \cap FiredIds' \subseteq IF cur' = NULL THEN {} ELSE {cur'.id}
      BY <1>4, <2>1 DEF CancelledNeverFires
    <3>3. ASSUME NEW id \in FiredIds' \cap cancelled'  PROVE MaySelfCancel'
      <4>1. CASE id \in cancelled
        BY <2>1, <3>3, <4>1 DEF CancelledNeverFires
      <4>2. CASE id \in hit
        BY <2>1, <3>3, <4>2 DEF CancelledNeverFires, Delivery
      <4> QED  BY <3>3, <4>1, <4>2
    <3> QED  BY <3>1, <3>2, <3>3 DEF CancelledNeverFires
  <2>7. Conserved'
    BY <1>4, <2>1 DEF Conserved, NothingLost
  <2> QED  BY <1>3, <2>2, <2>3, <2>5, <2>6, <2>7
<1>9. SInv'
  <2> USE <1>1 DEF IInv, SInv, debug
  <2>1. Naming' /\ Searching' /\ Reaching' /\ StepsLeft'
    BY SearchUnchanged
  <2>2. Addressed'
    BY <1>4 DEF Addressed
  <2> QED  BY <2>1, <2>2
<1> QED  BY <1>7, <1>8, <1>9 DEF IInv

(* The other things running code does. *)
LEMMA RemoveStep ==
  ASSUME IInv, NEW e \in Entities, NEW by \in Entities, RemoveEntity(e, by)
  PROVE  IInv'
<1>1. /\ life[e] = "alive"
      /\ life' = [life EXCEPT ![e] = "marked"]
      /\ name' = [name EXCEPT ![e] = NULL]
      /\ UNCHANGED <<curtime, queue, service, debug, history>>
  BY DEF RemoveEntity
<1>2. /\ name \in [Entities -> Names \cup {NULL}]
      /\ life \in [Entities -> {"alive", "marked", "gone"}]
  BY DEF IInv, TypeOK
<1>3. /\ \A d \in Entities : name'[d] \in {name[d], NULL}
      /\ \A d \in Entities : d /= e => name'[d] = name[d] /\ life'[d] = life[d]
      /\ name'[e] = NULL
      /\ \A d \in Entities : life'[d] = "gone" <=> life[d] = "gone"
  BY <1>1, <1>2
<1>4. TypeOK'
  BY <1>1, <1>2 DEF IInv, TypeOK, service, debug, history
<1>5. QInv'
  <2> USE <1>1 DEF IInv, QInv, service, history
  <2>1. Queued' = Queued /\ FiredIds' = FiredIds /\ Events' = Events
    BY DEF Queued, FiredIds, Events
  <2>2. QueueInOrder' /\ NoTwice(queue') /\ Numbered' /\ Conserved'
    BY <2>1 DEF QueueInOrder, NoTwice, Numbered, Conserved, NothingLost
  <2>3. Delivery' /\ CancelledNeverFires'
    BY <2>1 DEF Delivery, CancelledNeverFires
  <2> QED  BY <2>2, <2>3
<1>6. SInv'
  <2> USE <1>1, <1>3 DEF IInv, SInv, service, history, debug
  <2>1. Naming'
    BY DEF Naming
  <2>2. Addressed'
    BY DEF Addressed, Events
  <2>3. cur /= NULL => cur.target = NULL \/ ~(NULL = cur.target)
    OBVIOUS
  <2>4. pc \in {"byName", "direct", "byClass", "remove"} /\ cur.target /= NULL =>
          \A d \in Entities : name'[d] = cur.target => name[d] = cur.target
    OBVIOUS
  <2>5. Searching'
    BY <2>4 DEF Searching, Delivering
  <2>6. Reaching'
    BY <2>4 DEF Reaching, TargetsReached, ClassnameIsFallback, Resolves
  <2>7. StepsLeft'
    BY DEF StepsLeft
  <2> QED  BY <2>1, <2>2, <2>5, <2>6, <2>7
<1> QED  BY <1>4, <1>5, <1>6 DEF IInv

(* What a step that leaves the queue alone keeps. *)
LEMMA QueueUnchanged ==
  ASSUME QInv, UNCHANGED <<queue, history>>
  PROVE  /\ Queued' = Queued /\ FiredIds' = FiredIds /\ Events' = Events
         /\ QueueInOrder' /\ NoTwice(queue') /\ Numbered' /\ Conserved'
         /\ cur' = cur => CancelledNeverFires'
<1> USE DEF history
<1>1. Queued' = Queued /\ FiredIds' = FiredIds /\ Events' = Events
  BY DEF Queued, FiredIds, Events
<1>2. QueueInOrder' /\ NoTwice(queue') /\ Numbered' /\ Conserved'
  BY <1>1 DEF QInv, QueueInOrder, NoTwice, Numbered, Conserved, NothingLost
<1>3. cur' = cur => CancelledNeverFires'
  BY <1>1 DEF QInv, CancelledNeverFires
<1> QED  BY <1>1, <1>2, <1>3

LEMMA RestoreStep ==
  ASSUME IInv, SaveAndRestore  PROVE queue' = queue /\ UNCHANGED vars
<1>1. queue \in Seq(Event) /\ InOrder(queue)
  BY QueuedElements DEF IInv, TypeOK, QInv
<1>2. queue' = Restored(queue)
  BY DEF SaveAndRestore
<1>3. queue' = queue
  BY <1>1, <1>2, RestoredIsSaved
<1> QED  BY <1>3 DEF SaveAndRestore, vars

LEMMA ClearStep ==
  ASSUME IInv, Clear  PROVE IInv'
<1>1. /\ pc = "commands" /\ queue' = <<>>
      /\ cancelled' = cancelled \cup {queue[i].id : i \in DOMAIN queue}
      /\ name' = FirstName
      /\ life' = [e \in Entities |-> "alive"]
      /\ UNCHANGED <<curtime, service, debug, posted, fired>>
  BY DEF Clear
<1>2. cancelled' = cancelled \cup Queued
  BY <1>1 DEF Queued
<1>3. Queued' = {} /\ Events' = {} /\ FiredIds' = FiredIds
  BY <1>1 DEF Queued, Events, FiredIds
<1>4. posted \in 0 .. MaxEvents /\ MaxEvents \in Nat /\ Queued \subseteq 1 .. posted
  BY ConstantsAssumption DEF IInv, TypeOK, QInv, Numbered
<1>5. cur = NULL /\ cur' = NULL /\ pc' = "commands"
  BY <1>1 DEF IInv, QInv, Delivery, service
<1>6. TypeOK'
  <2>1. queue' \in Seq(Event)
    BY <1>1
  <2>2. cancelled' \in SUBSET (1 .. MaxEvents)
    BY <1>2, <1>4 DEF IInv, TypeOK
  <2>3. name' \in [Entities -> Names \cup {NULL}]
        /\ life' \in [Entities -> {"alive", "marked", "gone"}]
    BY <1>1, ConstantsAssumption
  <2> QED  BY <1>1, <2>1, <2>2, <2>3 DEF IInv, TypeOK, service, debug
<1>7. QInv'
  <2> USE <1>3 DEF IInv, QInv
  <2>1. QueueInOrder' /\ NoTwice(queue')
    BY <1>1 DEF QueueInOrder, NoTwice
  <2>2. Numbered'
    BY <1>1, <1>2 DEF Numbered
  <2>3. Delivery'
    BY <1>1, <1>5 DEF Delivery, service, Delivering
  <2>4. CancelledNeverFires'
    BY <1>1, <1>2, <1>5 DEF CancelledNeverFires
  <2>5. Conserved'
    BY <1>1, <1>2 DEF Conserved, NothingLost
  <2> QED  BY <2>1, <2>2, <2>3, <2>4, <2>5
<1>8. SInv'
  <2>1. Naming'
    BY <1>1, ConstantsAssumption DEF Naming
  <2>2. Addressed' /\ Searching' /\ Reaching'
    BY <1>3, <1>5 DEF Addressed, Searching, Reaching, TargetsReached, ClassnameIsFallback,
                      Delivering
  <2>3. StepsLeft'
    BY <1>1 DEF IInv, SInv, StepsLeft, service, debug
  <2> QED  BY <2>1, <2>2, <2>3 DEF SInv
<1> QED  BY <1>6, <1>7, <1>8 DEF IInv

LEMMA HandlerReturnsStep ==
  ASSUME IInv, HandlerReturns  PROVE IInv'
<1> USE DEF IInv, HandlerReturns
<1>1. TypeOK'
  BY DEF TypeOK, entities, debug, history
<1>2. QInv'
  <2>1. UNCHANGED <<queue, history>>
    OBVIOUS
  <2>2. Delivery'
    BY <2>1, QueueUnchanged DEF QInv, Delivery, history
  <2> QED  BY <2>1, <2>2, QueueUnchanged DEF QInv
<1>3. SInv'
  <2>1. Naming' /\ Searching' /\ Reaching' /\ StepsLeft'
    BY SearchUnchanged DEF debug
  <2>2. Addressed'
    BY DEF Addressed, Events, SInv
  <2> QED  BY <2>1, <2>2 DEF SInv
<1> QED  BY <1>1, <1>2, <1>3 DEF IInv

LEMMA DebugStep ==
  ASSUME IInv, EntPause \/ \E n \in 1 .. 2 : EntStep(n)  PROVE IInv'
<1>1. /\ pc = "commands" /\ UNCHANGED <<curtime, queue, entities, service, history>>
      /\ paused' \in BOOLEAN /\ steps' \in Nat /\ pauses' \in 0 .. MaxPauses
      /\ granted' \in Int /\ granted' + FirstSteps >= steps'
  <2>1. /\ pauses \in 0 .. MaxPauses /\ MaxPauses \in Nat /\ paused \in BOOLEAN
        /\ steps \in Nat /\ granted \in Int /\ FirstSteps \in Nat
        /\ pc = "commands" => granted + FirstSteps >= steps
    BY ConstantsAssumption DEF IInv, TypeOK, SInv, StepsLeft, Delivering
  <2>2. CASE EntPause
    BY <2>1, <2>2 DEF EntPause
  <2>3. CASE \E n \in 1 .. 2 : EntStep(n)
    BY <2>1, <2>3 DEF EntStep
  <2> QED  BY <2>2, <2>3
<1>2. TypeOK'
  BY <1>1 DEF IInv, TypeOK, entities, service, history
<1>3. QInv'
  <2>1. Delivery'
    BY <1>1, QueueUnchanged DEF IInv, QInv, Delivery, service
  <2> QED  BY <1>1, <2>1, QueueUnchanged DEF IInv, QInv, service
<1>4. SInv'
  <2> USE <1>1 DEF IInv, SInv, entities, service
  <2>1. Naming'
    BY DEF Naming
  <2>2. Addressed'
    BY DEF Addressed, Events
  <2>3. Searching' /\ Reaching'
    BY DEF Searching, Reaching, TargetsReached, ClassnameIsFallback, Delivering
  <2>4. StepsLeft'
    BY DEF StepsLeft, Delivering
  <2> QED  BY <2>1, <2>2, <2>3, <2>4
<1> QED  BY <1>2, <1>3, <1>4 DEF IInv
-----------------------------------------------------------------------------
(***************************************************************************)
(* The steps of the frame.                                                 *)
(***************************************************************************)
(* CleanupDeleteList leaves the names. *)
LEMMA CleanupNaming ==
  ASSUME TypeOK, Naming, CleanupDeleteList, name' = name
  PROVE  Naming' /\ life' \in [Entities -> {"alive", "marked", "gone"}]
BY DEF TypeOK, Naming, CleanupDeleteList

LEMMA FrameStep ==
  ASSUME IInv, BeginFrame \/ BeginService \/ NoMoreDue \/ NextFrame
  PROVE  IInv'
<1> DEFINE Outside == {"commands", "think", "service", "frameEnd"}
<1>1. /\ pc \in Outside /\ pc' \in Outside
      /\ pc' = "service" => pc = "think" /\ ShouldStep
      /\ UNCHANGED <<queue, name, cur, at, found, handling, reached, named, freed, debug, history>>
      /\ curtime' \in 0 .. MaxTime
      /\ CleanupDeleteList \/ life' = life
  BY ConstantsAssumption
     DEF IInv, TypeOK, BeginFrame, BeginService, NoMoreDue, NextFrame, entities
<1>2. cur = NULL /\ handling = NULL
  BY <1>1 DEF IInv, QInv, Delivery, Delivering
<1>3. Naming' /\ life' \in [Entities -> {"alive", "marked", "gone"}]
  BY <1>1, CleanupNaming DEF IInv, SInv, TypeOK, Naming
<1>4. TypeOK'
  BY <1>1, <1>3 DEF IInv, TypeOK, debug, history, Places
<1>5. QInv'
  <2>1. Delivery'
    BY <1>1, <1>2, QueueUnchanged DEF IInv, QInv, Delivery, Delivering, history
  <2> QED  BY <1>1, <2>1, QueueUnchanged DEF IInv, QInv
<1>6. SInv'
  <2>1. Addressed'
    BY <1>1 DEF IInv, SInv, Addressed, Events
  <2>2. Searching' /\ Reaching'
    BY <1>1 DEF Searching, Reaching, TargetsReached, ClassnameIsFallback, Delivering
  <2>3. StepsLeft'
    BY <1>1 DEF IInv, SInv, StepsLeft, ShouldStep, Delivering, debug
  <2> QED  BY <1>3, <2>1, <2>2, <2>3 DEF SInv
<1> QED  BY <1>4, <1>5, <1>6 DEF IInv

LEMMA TakeEventStep ==
  ASSUME IInv, TakeEvent  PROVE IInv'
<1> DEFINE ev == Head(queue)
<1>1. /\ pc = "service" /\ HeadIsDue /\ cur' = ev /\ found' = FALSE /\ at' = 0 /\ reached' = {}
      /\ named' = {}
      /\ pc' = IF ev.target /= NULL THEN "byName" ELSE "direct"
      /\ fired' = Append(fired, [event |-> ev, at |-> curtime])
      /\ granted' = IF paused THEN granted - 1 ELSE granted
      /\ UNCHANGED <<curtime, queue, entities, handling, freed, paused, steps, pauses, posted,
                     cancelled>>
  BY DEF TakeEvent
<1>2. /\ queue \in Seq(Event) /\ queue /= <<>> /\ curtime \in Nat
      /\ fired \in Seq([event : Event, at : Nat])
  BY <1>1, ConstantsAssumption DEF IInv, TypeOK, HeadIsDue
<1>3. ev \in Event /\ ev \in Events /\ ev.id \in Queued /\ ev /= NULL
  <2>1. 1 \in DOMAIN queue /\ ev = queue[1]
    BY <1>2
  <2> QED  BY <1>2, <2>1, NullAssumption DEF Events, Queued
<1> HIDE DEF ev
<1>4. FiredIds' = FiredIds \cup {ev.id}
  <2> DEFINE f == [event |-> ev, at |-> curtime]
             n == Len(fired)
  <2>1. n \in Nat /\ DOMAIN fired = 1 .. n /\ DOMAIN fired' = 1 .. n + 1
        /\ fired'[n + 1] = f /\ \A i \in 1 .. n : fired'[i] = fired[i]
    BY <1>1, <1>2
  <2>2. f.event = ev
    OBVIOUS
  <2> HIDE DEF f, n
  <2> QED  BY <2>1, <2>2 DEF FiredIds
<1>5. cur = NULL /\ freed = NULL /\ handling = NULL
  BY <1>1 DEF IInv, QInv, Delivery, Delivering
<1>6. TypeOK'
  <2>1. fired' \in Seq([event : Event, at : Nat])
    BY <1>1, <1>2, <1>3
  <2>2. granted' \in Int
    BY <1>1 DEF IInv, TypeOK
  <2> QED  BY <1>1, <1>3, <2>1, <2>2 DEF IInv, TypeOK, entities, Places
<1>7. QInv'
  <2> USE <1>1, <1>3, <1>4, <1>5 DEF IInv, QInv
  <2>1. Queued' = Queued /\ Events' = Events
    BY DEF Queued, Events
  <2>2. QueueInOrder' /\ NoTwice(queue')
    BY DEF QueueInOrder, NoTwice
  <2>3. Numbered'
    BY <2>1 DEF Numbered
  <2>4. Delivery'
    BY <2>1 DEF Delivery, Delivering
  <2>5. CancelledNeverFires'
    BY <2>1 DEF CancelledNeverFires
  <2>6. Conserved'
    BY <2>1 DEF Conserved, NothingLost
  <2> QED  BY <2>2, <2>3, <2>4, <2>5, <2>6
<1>8. SInv'
  <2> USE <1>1, <1>3 DEF IInv, SInv, entities
  <2>1. Naming'
    BY DEF Naming
  <2>2. Addressed'
    BY DEF Addressed, Events
  <2>3. \A e \in Entities : ~(e <= 0)
    BY ConstantsAssumption
  <2>4. Searching'
    BY <2>3 DEF Searching, Delivering
  <2>5. Reaching'
    BY DEF Reaching, TargetsReached, ClassnameIsFallback
  <2>6. StepsLeft'
    <3>1. paused \in BOOLEAN /\ granted \in Int /\ steps \in Nat /\ FirstSteps \in Nat
      BY ConstantsAssumption DEF TypeOK
    <3> QED  BY <3>1 DEF StepsLeft, Delivering
  <2> QED  BY <2>1, <2>2, <2>4, <2>5, <2>6
<1> QED  BY <1>6, <1>7, <1>8 DEF IInv

(* A search finds the next entity of the table that matches, or none does. *)
LEMMA NextWithProperties ==
  ASSUME TypeOK, NEW attribute
  PROVE  LET n == NextWith(attribute) IN
         \/ /\ n = 0
            /\ \A e \in Entities : e > at /\ life[e] /= "gone" => attribute[e] /= cur.target
         \/ /\ n \in Entities /\ n /= 0 /\ n > at
            /\ life[n] /= "gone" /\ attribute[n] = cur.target
            /\ \A e \in Entities :
                 e > at /\ e < n /\ life[e] /= "gone" => attribute[e] /= cur.target
<1> DEFINE later == {e \in Entities :
                       e > at /\ life[e] /= "gone" /\ attribute[e] = cur.target}
           n == NextWith(attribute)
<1>1. n = IF later = {} THEN 0 ELSE CHOOSE e \in later : \A d \in later : e <= d
  BY DEF NextWith
<1>2. CASE later = {}
  BY <1>1, <1>2
<1>3. CASE later /= {}
  <2>1. later \in SUBSET Nat
    BY ConstantsAssumption
  <2>2. \E e \in later : \A d \in later : e <= d
    BY <1>3, <2>1, LeastNumber
  <2>3. n \in later /\ \A d \in later : n <= d
    BY <1>1, <1>3, <2>2
  <2>4. n \in Entities /\ n /= 0 /\ n > at /\ life[n] /= "gone" /\ attribute[n] = cur.target
    BY <2>3, ConstantsAssumption
  <2>5. ASSUME NEW e \in Entities, e > at, e < n, life[e] /= "gone"
        PROVE  attribute[e] /= cur.target
    <3>1. e \in Nat /\ n \in Nat
      BY <2>4, ConstantsAssumption
    <3> QED  BY <2>3, <2>5, <3>1
  <2> QED  BY <2>4, <2>5
<1> QED  BY <1>2, <1>3

(* The parts of the invariant that the searches only read. *)
LEMMA SearchKeeps ==
  ASSUME IInv, UNCHANGED <<curtime, queue, entities, cur, freed, debug, history>>,
         pc \in Delivering, pc' \in Delivering,
         at' \in Entities \cup {0}, found' \in BOOLEAN,
         handling' \in Entities \cup {NULL}, reached' \in SUBSET Entities,
         named' \in SUBSET Entities
  PROVE  TypeOK' /\ QInv' /\ Naming' /\ Addressed' /\ StepsLeft'
<1>1. TypeOK'
  BY DEF IInv, TypeOK, entities, debug, history, Delivering, Places
<1>2. Delivery'
  BY QueueUnchanged DEF IInv, QInv, Delivery, Delivering, history
<1>3. QInv'
  BY <1>2, QueueUnchanged DEF IInv, QInv
<1>4. Naming' /\ Addressed'
  BY DEF IInv, SInv, Naming, Addressed, entities, Events, Delivering
<1>5. StepsLeft'
  BY DEF IInv, SInv, StepsLeft, debug
<1> QED  BY <1>1, <1>3, <1>4, <1>5

LEMMA SearchByNameStep ==
  ASSUME IInv, SearchByName  PROVE IInv'
<1> DEFINE n == NextWith(name)
<1>1. /\ pc = "byName"
      /\ IF n /= 0 THEN Call(n, "byName")
         ELSE pc' = "direct" /\ UNCHANGED <<at, found, handling, reached, named>>
      /\ UNCHANGED <<curtime, queue, entities, cur, freed, debug, history>>
  BY DEF SearchByName
<1>2. /\ TypeOK /\ at \in Entities \cup {0} /\ Entities \subseteq Nat
      /\ reached \subseteq Entities /\ named \subseteq Entities
  BY ConstantsAssumption DEF IInv, TypeOK
<1>3. \/ /\ n = 0
         /\ \A e \in Entities : e > at /\ life[e] /= "gone" => name[e] /= cur.target
      \/ /\ n \in Entities /\ n /= 0 /\ n > at
         /\ life[n] /= "gone" /\ name[n] = cur.target
         /\ \A e \in Entities :
              e > at /\ e < n /\ life[e] /= "gone" => name[e] /= cur.target
  BY <1>2, NextWithProperties
<1> HIDE DEF n
<1>4. /\ cur.target /= NULL
      /\ \A e \in Entities : name[e] = cur.target => life[e] /= "gone"
      /\ reached = named
  BY <1>1 DEF IInv, SInv, Searching, Naming
<1>5. CASE n /= 0
  <2>1. /\ at' = n /\ found' = TRUE /\ handling' = n /\ reached' = reached \cup {n}
        /\ pc' = "byName"
        /\ named' = named \cup {d \in Entities : d = n /\ name[d] = cur.target}
    BY <1>1, <1>5 DEF Call
  <2>2. n \in Entities /\ life[n] /= "gone" /\ name[n] = cur.target /\ named' = reached'
    BY <1>3, <1>4, <1>5, <2>1
  <2>3. TypeOK' /\ QInv' /\ Naming' /\ Addressed' /\ StepsLeft'
    BY <1>1, <1>2, <2>1, <2>2, SearchKeeps DEF Delivering
  <2>4. ASSUME NEW e \in Entities, e <= n, name[e] = cur.target
        PROVE  e \in reached \cup {n}
    <3>1. e \in Nat /\ n \in Nat /\ at \in Nat
      BY <1>2, <2>2
    <3>2. CASE e <= at
      BY <1>1, <2>4, <3>2 DEF IInv, SInv, Searching
    <3>3. CASE e > at
      BY <1>3, <1>4, <1>5, <2>4, <3>1, <3>3
    <3> QED  BY <3>1, <3>2, <3>3
  <2>5. Searching'
    BY <1>1, <1>4, <2>1, <2>2, <2>4 DEF IInv, SInv, Searching, Delivering, entities
  <2>6. Reaching'
    BY <2>1 DEF Reaching, TargetsReached, ClassnameIsFallback
  <2> QED  BY <2>3, <2>5, <2>6 DEF IInv, SInv
<1>6. CASE n = 0
  <2>1. pc' = "direct" /\ UNCHANGED <<at, found, handling, reached, named>>
    BY <1>1, <1>6
  <2>2. TypeOK' /\ QInv' /\ Naming' /\ Addressed' /\ StepsLeft'
    <3>1. found \in BOOLEAN /\ handling \in Entities \cup {NULL}
      BY <1>2 DEF TypeOK
    <3> QED  BY <1>1, <1>2, <2>1, <3>1, SearchKeeps DEF Delivering
  <2>3. ASSUME NEW e \in Entities, name[e] = cur.target  PROVE e \in reached
    <3>1. e \in Nat /\ at \in Nat
      BY <1>2
    <3>2. ~(e > at)
      BY <1>3, <1>4, <1>6, <2>3
    <3> QED  BY <1>1, <2>3, <3>1, <3>2 DEF IInv, SInv, Searching
  <2>4. Searching'
    BY <1>1, <2>1, <2>3 DEF IInv, SInv, Searching, Delivering, entities
  <2>5. Reaching'
    BY <2>1 DEF Reaching, TargetsReached, ClassnameIsFallback
  <2> QED  BY <2>2, <2>4, <2>5 DEF IInv, SInv
<1> QED  BY <1>5, <1>6

LEMMA CallDirectTargetStep ==
  ASSUME IInv, CallDirectTarget  PROVE IInv'
<1>1. /\ pc = "direct"
      /\ IF Resolves(cur.ent) THEN Call(cur.ent, "remove")
         ELSE /\ pc' = IF ~found /\ cur.target /= NULL THEN "byClass" ELSE "remove"
              /\ at' = 0
              /\ UNCHANGED <<found, handling, reached, named>>
      /\ UNCHANGED <<curtime, queue, entities, cur, freed, debug, history>>
  BY DEF CallDirectTarget
<1>2. /\ cur \in Event /\ cur /= NULL /\ (cur.target = NULL \/ cur.ent = NULL)
      /\ cur.ent \in Entities \cup {NULL}
      /\ reached \subseteq Entities /\ named \subseteq Entities
      /\ found \in BOOLEAN /\ handling \in Entities \cup {NULL}
  BY <1>1 DEF IInv, TypeOK, SInv, Addressed, QInv, Delivery, Event
<1>3. /\ found <=> reached /= {}
      /\ cur.target /= NULL =>
           /\ reached = named
           /\ \A e \in Entities : name[e] = cur.target => e \in reached
  BY <1>1 DEF IInv, SInv, Searching, Delivering
<1>4. Resolves(cur.ent)' = Resolves(cur.ent)
  BY <1>1 DEF Resolves, entities
<1>5. CASE Resolves(cur.ent)
  <2>1. /\ at' = cur.ent /\ found' = TRUE /\ handling' = cur.ent
        /\ reached' = reached \cup {cur.ent} /\ pc' = "remove"
        /\ named' \in {named, named \cup {cur.ent}}
    BY <1>1, <1>5 DEF Call
  <2>2. cur.ent \in Entities /\ cur.target = NULL
    BY <1>2, <1>5 DEF Resolves
  <2>3. TypeOK' /\ QInv' /\ Naming' /\ Addressed' /\ StepsLeft'
    BY <1>1, <1>2, <2>1, <2>2, SearchKeeps DEF Delivering
  <2>4. Searching' /\ Reaching'
    BY <1>1, <2>1, <2>2
       DEF Searching, Reaching, TargetsReached, ClassnameIsFallback, Delivering
  <2> QED  BY <2>3, <2>4 DEF IInv, SInv
<1>6. CASE ~Resolves(cur.ent)
  <2>1. /\ pc' = IF ~found /\ cur.target /= NULL THEN "byClass" ELSE "remove"
        /\ at' = 0 /\ UNCHANGED <<found, handling, reached, named>>
    BY <1>1, <1>6
  <2>2. TypeOK' /\ QInv' /\ Naming' /\ Addressed' /\ StepsLeft'
    BY <1>1, <1>2, <2>1, SearchKeeps DEF Delivering
  <2>3. Searching'
    <3>1. \A e \in Entities : ~(e <= 0)
      BY ConstantsAssumption
    <3> QED  BY <1>1, <1>3, <2>1, <3>1 DEF Searching, Delivering, entities
  <2>4. Reaching'
    BY <1>1, <1>3, <1>4, <1>6, <2>1 DEF Reaching, TargetsReached, ClassnameIsFallback, entities
  <2> QED  BY <2>2, <2>3, <2>4 DEF IInv, SInv
<1> QED  BY <1>5, <1>6

LEMMA SearchByClassStep ==
  ASSUME IInv, SearchByClass  PROVE IInv'
<1> DEFINE n == NextWith(Classname)
<1>1. /\ pc = "byClass"
      /\ IF n /= 0 THEN Call(n, "byClass")
         ELSE pc' = "remove" /\ UNCHANGED <<at, found, handling, reached, named>>
      /\ UNCHANGED <<curtime, queue, entities, cur, freed, debug, history>>
  BY DEF SearchByClass
<1>2. /\ TypeOK /\ at \in Entities \cup {0} /\ Entities \subseteq Nat \ {0}
      /\ reached \subseteq Entities /\ named \subseteq Entities
      /\ found \in BOOLEAN /\ handling \in Entities \cup {NULL}
  BY ConstantsAssumption DEF IInv, TypeOK
<1>3. \/ /\ n = 0
         /\ \A e \in Entities : e > at /\ life[e] /= "gone" => Classname[e] /= cur.target
      \/ /\ n \in Entities /\ n /= 0 /\ n > at
         /\ life[n] /= "gone" /\ Classname[n] = cur.target
         /\ \A e \in Entities :
              e > at /\ e < n /\ life[e] /= "gone" => Classname[e] /= cur.target
  BY <1>2, NextWithProperties
<1> HIDE DEF n
<1>4. /\ cur.target /= NULL /\ cur.ent = NULL
      /\ found <=> reached /= {}
      /\ named = {}
      /\ \A e \in Entities : name[e] /= cur.target
      /\ \A e \in reached : Classname[e] = cur.target
      /\ \A e \in Entities :
           e <= at /\ Classname[e] = cur.target /\ life[e] /= "gone" => e \in reached
  BY <1>1 DEF IInv, SInv, Searching, Delivering, Addressed, QInv, Delivery
<1>5. CASE n /= 0
  <2>1. /\ at' = n /\ found' = TRUE /\ handling' = n /\ reached' = reached \cup {n}
        /\ pc' = "byClass"
        /\ named' = named \cup {d \in Entities : d = n /\ name[d] = cur.target}
    BY <1>1, <1>5 DEF Call
  <2>2. n \in Entities /\ life[n] /= "gone" /\ Classname[n] = cur.target /\ named' = {}
    BY <1>3, <1>4, <1>5, <2>1
  <2>3. TypeOK' /\ QInv' /\ Naming' /\ Addressed' /\ StepsLeft'
    BY <1>1, <1>2, <2>1, <2>2, SearchKeeps DEF Delivering
  <2>4. ASSUME NEW e \in Entities, e <= n, Classname[e] = cur.target, life[e] /= "gone"
        PROVE  e \in reached \cup {n}
    <3>1. e \in Nat /\ n \in Nat /\ at \in Nat
      BY <1>2, <2>2
    <3>2. CASE e <= at
      BY <1>4, <2>4, <3>2
    <3>3. CASE e > at
      BY <1>3, <1>5, <2>4, <3>1, <3>3
    <3> QED  BY <3>1, <3>2, <3>3
  <2>5. Searching'
    BY <1>1, <1>4, <2>1, <2>2, <2>4 DEF Searching, Delivering, entities
  <2>6. Reaching'
    BY <2>1 DEF Reaching, TargetsReached, ClassnameIsFallback
  <2> QED  BY <2>3, <2>5, <2>6 DEF IInv, SInv
<1>6. CASE n = 0
  <2>1. pc' = "remove" /\ UNCHANGED <<at, found, handling, reached, named>>
    BY <1>1, <1>6
  <2>2. TypeOK' /\ QInv' /\ Naming' /\ Addressed' /\ StepsLeft'
    BY <1>1, <1>2, <2>1, SearchKeeps DEF Delivering
  <2>3. Searching'
    BY <1>1, <1>4, <2>1 DEF Searching, Delivering, entities
  <2>4. ASSUME NEW e \in Entities, Classname[e] = cur.target, life[e] /= "gone"
        PROVE  e \in reached
    <3>1. e \in Nat /\ at \in Nat
      BY <1>2
    <3>2. ~(e > at)
      BY <1>3, <1>6, <2>4
    <3> QED  BY <1>4, <2>4, <3>1, <3>2
  <2>5. TargetsReached'
    BY <1>1, <1>4, <2>1, <2>4 DEF TargetsReached, Resolves, entities
  <2>6. ClassnameIsFallback'
    BY <1>1, <1>4, <2>1 DEF ClassnameIsFallback
  <2> QED  BY <2>2, <2>3, <2>5, <2>6 DEF IInv, SInv, Reaching
<1> QED  BY <1>5, <1>6

(* What is left of the queue when a deleted event is unlinked. *)
LEMMA FromProperties ==
  ASSUME queue \in Seq(Event), InOrder(queue), NoTwice(queue), NEW id
  PROVE  LET r == From(id) IN
         r \in Seq(Event) /\ InOrder(r) /\ NoTwice(r) /\ Elements(r) \subseteq Elements(queue)
<1> DEFINE at_id == {i \in DOMAIN queue : queue[i].id = id}
<1>1. CASE at_id = {}
  <2>1. From(id) = <<>>
    BY <1>1 DEF From
  <2> QED  BY <2>1 DEF InOrder, NoTwice, Elements
<1>2. CASE at_id /= {}
  <2>1. PICK i \in at_id : From(id) = SubSeq(queue, i, Len(queue))
    BY <1>2 DEF From
  <2>2. i \in 1 .. Len(queue)
    OBVIOUS
  <2> QED  BY <2>1, <2>2, SuffixProperties
<1> QED  BY <1>1, <1>2

LEMMA FinishEventStep ==
  ASSUME IInv, FinishEvent  PROVE IInv'
<1>1. /\ pc = "remove" /\ handling = NULL /\ handling' = NULL
      /\ queue' = IF freed = NULL THEN Without(cur.id) ELSE From(freed)
      /\ cur' = NULL /\ freed' = NULL /\ at' = 0 /\ found' = FALSE /\ reached' = {} /\ named' = {}
      /\ UNCHANGED <<curtime, entities, paused, granted, pauses, history>>
  BY DEF FinishEvent
<1>2. /\ pc' \in {"service", "frameEnd"} /\ steps' \in Nat
      /\ pc' = "service" /\ paused => steps' > 0
      /\ granted + FirstSteps >= steps'
  <2>1. paused \in BOOLEAN /\ granted \in Int /\ steps \in Nat /\ FirstSteps \in Nat
    BY ConstantsAssumption DEF IInv, TypeOK
  <2>2. granted + FirstSteps >= IF paused THEN steps - 1 ELSE steps
    BY <1>1, <2>1 DEF IInv, SInv, StepsLeft, Delivering
  <2>3. paused => steps > 0
    BY <1>1, <2>1 DEF IInv, SInv, StepsLeft, Delivering
  <2> QED  BY <2>1, <2>2, <2>3 DEF FinishEvent
<1>3. queue \in Seq(Event) /\ InOrder(queue) /\ NoTwice(queue) /\ paused \in BOOLEAN
  BY QueuedElements DEF IInv, TypeOK, QInv
<1>4. cur /= NULL /\ cur.id \in FiredIds /\ (freed /= NULL => cur.id \in cancelled)
  BY <1>1 DEF IInv, QInv, Delivery
<1>5. /\ queue' \in Seq(Event) /\ InOrder(queue') /\ NoTwice(queue')
      /\ Elements(queue') \subseteq Elements(queue)
      /\ freed = NULL => Elements(queue') = {ev \in Elements(queue) : ev.id /= cur.id}
  <2>1. CASE freed = NULL
    <3>1. queue' = Selected(queue, {ev \in Events : ev.id /= cur.id})
      BY <1>1, <2>1 DEF Without
    <3> QED  BY <1>3, <3>1, SelectedEvents, QueuedElements
  <2>2. CASE freed /= NULL
    BY <1>1, <1>3, <2>2, FromProperties
  <2> QED  BY <2>1, <2>2
<1>6. /\ Events' \subseteq Events /\ Queued' \subseteq Queued
      /\ freed = NULL => Queued' = Queued \ {cur.id}
  <2>1. Events' = Elements(queue') /\ Queued' = {e.id : e \in Elements(queue')}
    BY DEF Events, Elements, Queued
  <2> QED  BY <1>5, <2>1, QueuedElements
<1>7. TypeOK'
  BY <1>1, <1>2, <1>5 DEF IInv, TypeOK, entities, history, Places
<1>8. QInv'
  <2> USE <1>1, <1>4, <1>6 DEF IInv, QInv, history
  <2>1. FiredIds' = FiredIds
    BY DEF FiredIds
  <2>2. QueueInOrder' /\ NoTwice(queue')
    BY <1>5 DEF QueueInOrder, InOrder
  <2>3. Numbered'
    BY <2>1 DEF Numbered
  <2>4. Delivery'
    BY <1>2, <2>1 DEF Delivery, Delivering
  <2>5. Queued' \cap FiredIds = {}
    BY DEF CancelledNeverFires
  <2>6. CancelledNeverFires'
    BY <2>1, <2>5 DEF CancelledNeverFires
  <2>7. Conserved'
    BY <2>1 DEF Conserved, NothingLost
  <2> QED  BY <1>5, <2>2, <2>3, <2>4, <2>6, <2>7
<1>9. SInv'
  <2> USE <1>1, <1>2 DEF IInv, SInv, entities
  <2>1. Naming'
    BY DEF Naming
  <2>2. Addressed'
    BY <1>6 DEF Addressed
  <2>3. Searching' /\ Reaching' /\ StepsLeft'
    BY DEF Searching, Reaching, TargetsReached, ClassnameIsFallback, StepsLeft, Delivering
  <2> QED  BY <2>1, <2>2, <2>3
<1> QED  BY <1>7, <1>8, <1>9 DEF IInv

LEMMA UsesDeletedEventStep ==
  ASSUME IInv, UsesDeletedEvent  PROVE IInv'
<1>1. /\ freed /= NULL /\ handling = NULL /\ pc' = "undefined"
      /\ UNCHANGED <<curtime, queue, entities, cur, at, found, handling, reached, named,
                     freed, debug, history>>
  BY DEF UsesDeletedEvent
<1>2. TypeOK'
  BY <1>1 DEF IInv, TypeOK, entities, debug, history, Places
<1>3. QInv'
  <2>1. Delivery'
    BY <1>1, QueueUnchanged DEF IInv, QInv, Delivery, history, Delivering
  <2> QED  BY <1>1, <2>1, QueueUnchanged DEF IInv, QInv
<1>4. SInv'
  <2> USE <1>1 DEF IInv, SInv
  <2>1. Naming' /\ Addressed'
    BY DEF Naming, Addressed, Events, entities
  <2>2. Searching' /\ Reaching'
    BY DEF Searching, Reaching, TargetsReached, ClassnameIsFallback, Delivering
  <2>3. pc \in Delivering \cup {"undefined"}
    BY ConstantsAssumption DEF QInv, Delivery, TypeOK, Places, Delivering
  <2>4. StepsLeft'
    BY <2>3 DEF StepsLeft, debug
  <2> QED  BY <2>1, <2>2, <2>4
<1> QED  BY <1>2, <1>3, <1>4 DEF IInv

(* Every step keeps the invariant. *)
LEMMA NextStep == IInv /\ [Next]_vars => IInv'
<1> SUFFICES ASSUME IInv, [Next]_vars  PROVE IInv'
  OBVIOUS
<1>1. ASSUME UNCHANGED vars  PROVE IInv'
  <2> USE <1>1 DEF vars, IInv
  <2>1. TypeOK'
    BY DEF TypeOK, entities, service, debug, history
  <2>2. QInv'
    BY QueueUnchanged DEF QInv, Delivery, service, history
  <2>3. SInv'
    BY SearchUnchanged DEF SInv, Addressed, Events, service, debug
  <2> QED  BY <2>1, <2>2, <2>3
<1>2. CASE RunningCode
  <2>1. ASSUME NEW c \in Entities, NEW n \in Names, NEW d \in Delays, AddEventToName(n, d, c)
        PROVE  IInv'
    BY <2>1, PostStep DEF AddEventToName
  <2>2. ASSUME NEW c \in Entities, NEW e \in Entities, NEW d \in Delays,
               AddEventToEntity(e, d, c)
        PROVE  IInv'
    BY <2>2, PostStep DEF AddEventToEntity
  <2>3. ASSUME NEW c \in Entities, CancelEvents(c)  PROVE IInv'
    <3>1. PostedBy(c) \subseteq Queued
      BY DEF PostedBy, Queued
    <3> QED  BY <2>3, <3>1, DeleteStep DEF CancelEvents
  <2>4. ASSUME NEW c \in Entities, NEW e \in Entities, CancelEventOn(e, c)  PROVE IInv'
    <3>1. PostedTo(e) \subseteq Queued
      BY DEF PostedTo, Queued
    <3> QED  BY <2>4, <3>1, DeleteStep DEF CancelEventOn
  <2>5. ASSUME NEW c \in Entities, NEW e \in Entities, RemoveEntity(e, c)  PROVE IInv'
    BY <2>5, RemoveStep
  <2>6. CASE Clear
    BY <2>6, ClearStep
  <2>7. CASE SaveAndRestore
    BY <1>1, <2>7, RestoreStep
  <2>8. CASE EntPause \/ \E n \in 1 .. 2 : EntStep(n)
    BY <2>8, DebugStep
  <2> QED
    BY <1>2, <2>1, <2>2, <2>3, <2>4, <2>5, <2>6, <2>7, <2>8 DEF RunningCode
<1>3. CASE ServiceLoop
  BY <1>3, FrameStep, TakeEventStep, SearchByNameStep, CallDirectTargetStep, SearchByClassStep,
     HandlerReturnsStep, FinishEventStep, UsesDeletedEventStep
     DEF ServiceLoop
<1> QED  BY <1>1, <1>2, <1>3 DEF Next

THEOREM Inductive == Spec => []IInv
BY InitInvariant, NextStep, PTL DEF Spec

(* The types of the queue's variables. *)
THEOREM Typing == Spec => []TypeOK
BY Inductive, PTL DEF IInv

(* The queue is in order of time and posting: AddEvent inserts behind its  *)
(* equals, no walk reorders, and Restore rebuilds what Save wrote.         *)
THEOREM OrderKept == Spec => []QueueInOrder
BY Inductive, PTL DEF IInv, QInv

(* An event cancelled is not delivered, and one delivered is not delivered *)
(* again, except by a handler that cancels the event that called it.       *)
THEOREM CancelledIsGone == Spec => []CancelledNeverFires
BY Inductive, PTL DEF IInv, QInv

(* Every event posted is in the queue, delivered or cancelled as long as   *)
(* no handler cancels the event that called it.                            *)
THEOREM EventsKept == ASSUME ~MaySelfCancel PROVE Spec => []NothingLost
<1>1. IInv => NothingLost
  BY DEF IInv, QInv, CancelledNeverFires, Conserved
<1> QED  BY Inductive, <1>1, PTL

(* ServiceEvents reaches every entity of the name, or every entity of the  *)
(* classname if nobody had the name, whatever its handlers remove meanwhile. *)
THEOREM AllTargetsReached == Spec => []TargetsReached
BY Inductive, PTL DEF IInv, SInv, Reaching

(* ServiceEvents takes the target for a classname only if the search by    *)
(* name reached nobody.                                                    *)
THEOREM NamesComeFirst == Spec => []ClassnameIsFallback
BY Inductive, PTL DEF IInv, SInv, Reaching

(* While entity I/O is paused, no more events are delivered than ent_step  *)
(* allowed, and before the first ent_step no more than m_nDebugSteps       *)
(* starts with.                                                            *)
THEOREM StepsAreSpent == Spec => []StepsCoverDeliveries
<1>1. IInv => StepsCoverDeliveries
  <2> SUFFICES ASSUME IInv  PROVE granted + FirstSteps >= 0
    BY DEF StepsCoverDeliveries
  <2>1. granted \in Int /\ steps \in Nat /\ FirstSteps \in Nat
    BY ConstantsAssumption DEF IInv, TypeOK
  <2> QED  BY <2>1 DEF IInv, SInv, StepsLeft
<1> QED  BY Inductive, <1>1, PTL
-----------------------------------------------------------------------------
(***************************************************************************)
(* The queue implements TimedEvents.                                       *)
(***************************************************************************)
(* A step after which fewer events wait is a cancellation. *)
LEMMA FewerIsCancel ==
  ASSUME UNCHANGED <<curtime, posted, fired>>, Undelivered' \subseteq Undelivered
  PROVE  Timed!Next
<1> DEFINE gone == Undelivered \ Undelivered'
<1>1. Order' = Order
  BY DEF Order
<1>2. gone \in SUBSET Undelivered /\ Undelivered' = Undelivered \ gone
  OBVIOUS
<1>3. Timed!Cancel(gone)
  BY <1>1, <1>2 DEF Timed!Cancel
<1> QED  BY <1>2, <1>3 DEF Timed!Next

(* A step that changes nothing TimedEvents sees. *)
LEMMA SameIsStutter ==
  ASSUME UNCHANGED <<curtime, queue, cur, posted, fired>>
  PROVE  UNCHANGED Timed!vars
BY DEF Timed!vars, Undelivered, Order, Events

LEMMA PostRefines ==
  ASSUME IInv, NEW target \in Names \cup {NULL}, NEW ent \in Entities \cup {NULL},
         NEW d \in Delays, NEW c \in Entities,
         target = NULL \/ ent = NULL,
         Post(target, ent, d, c)
  PROVE  Timed!Next
<1> DEFINE ev == [id |-> posted + 1, time |-> curtime + d, target |-> target,
                  ent |-> ent, caller |-> c]
<1>1. ev \in Event /\ Events' = Events \cup {ev}
  BY PostEvents
<1>2. ev.id = posted + 1 /\ ev.time = curtime + d
  OBVIOUS
<1> HIDE DEF ev
<1>3. /\ posted' = posted + 1 /\ posted < MaxEvents
      /\ UNCHANGED <<curtime, cur, fired>>
  BY DEF Post, service
<1>4. /\ posted \in 0 .. MaxEvents /\ MaxEvents \in Nat /\ curtime \in 0 .. MaxTime
      /\ MaxTime \in Nat /\ d \in Nat
  BY ConstantsAssumption DEF IInv, TypeOK
<1>5. ev /= cur
  <2>1. cur = NULL \/ cur.id \in 1 .. posted
    BY DEF IInv, QInv, Delivery, Numbered
  <2> QED  BY <1>1, <1>2, <1>4, <2>1, NullAssumption
<1>6. Undelivered' = Undelivered \cup {Key(ev)}
  BY <1>1, <1>3, <1>5 DEF Undelivered
<1>7. Order' = Order
  BY <1>3 DEF Order
<1>8. Key(ev).id = posted + 1 /\ Key(ev).time = curtime + d
  BY <1>2 DEF Key
<1>9. Key(ev) \in [id : 1 .. MaxEvents, time : {t + e : t \in 0 .. MaxTime, e \in Delays}]
  <2>1. posted + 1 \in 1 .. MaxEvents
    BY <1>3, <1>4
  <2>2. curtime + d \in {t + e : t \in 0 .. MaxTime, e \in Delays}
    BY <1>4
  <2> QED  BY <1>2, <2>1, <2>2 DEF Key
<1>10. Timed!Post(Key(ev))
  BY <1>3, <1>4, <1>6, <1>7, <1>8 DEF Timed!Post
<1> QED  BY <1>9, <1>10 DEF Timed!Next

LEMMA TakeRefines ==
  ASSUME IInv, TakeEvent  PROVE Timed!Next
<1> DEFINE ev == Head(queue)
<1>1. /\ pc = "service" /\ queue /= <<>> /\ ev.time <= curtime /\ cur' = ev
      /\ fired' = Append(fired, [event |-> ev, at |-> curtime])
      /\ UNCHANGED <<curtime, queue, posted>>
  BY DEF TakeEvent, HeadIsDue
<1>2. queue \in Seq(Event) /\ QueueInOrder /\ NoTwice(queue)
      /\ fired \in Seq([event : Event, at : Nat])
  BY DEF IInv, TypeOK, QInv
<1>3. 1 \in DOMAIN queue /\ ev = queue[1] /\ DOMAIN queue = 1 .. Len(queue)
  BY <1>1, <1>2
<1> HIDE DEF ev
<1>4. cur = NULL
  BY <1>1 DEF IInv, QInv, Delivery
<1>5. ASSUME NEW other \in Events \ {ev}
      PROVE  other \in Event /\ other /= NULL /\ Before(ev, other) /\ other.id /= ev.id
  <2>1. PICK i \in DOMAIN queue : other = queue[i]
    BY DEF Events
  <2>2. i /= 1 /\ 1 < i
    BY <1>3, <2>1
  <2> QED  BY <1>2, <1>3, <2>1, <2>2, NullAssumption DEF QueueInOrder, NoTwice
<1>6. ev \in Events /\ ev \in Event /\ ev /= NULL
  BY <1>2, <1>3, NullAssumption DEF Events
<1>7. Undelivered = {Key(e) : e \in Events}
  BY <1>2, <1>4, <1>5, <1>6 DEF Undelivered
<1>8. Undelivered' = Undelivered \ {Key(ev)}
  <2>1. Events' = Events
    BY <1>1 DEF Events
  <2>2. Undelivered' = {Key(e) : e \in Events \ {ev}}
    BY <1>1, <2>1 DEF Undelivered
  <2>3. \A e \in Events \ {ev} : Key(e) /= Key(ev)
    BY <1>5 DEF Key
  <2> QED  BY <1>6, <1>7, <2>2, <2>3
<1>9. Order' = Append(Order, ev.id)
  <2> DEFINE n == Len(fired)
             f == [event |-> ev, at |-> curtime]
  <2>1. n \in Nat /\ DOMAIN fired = 1 .. n /\ DOMAIN fired' = 1 .. n + 1
        /\ fired'[n + 1] = f /\ \A i \in 1 .. n : fired'[i] = fired[i]
    BY <1>1, <1>2
  <2>2. f.event.id = ev.id
    OBVIOUS
  <2>3. \A i \in 1 .. n : fired[i].event.id \in Nat
    <3>1. \A i \in 1 .. n : fired[i].event \in Event
      <4> DEFINE F == [event : Event, at : Nat]
      <4>1. \A i \in 1 .. n : fired[i] \in F
        <5>1. fired \in Seq(F)
          BY <1>2
        <5> HIDE DEF F
        <5> QED  BY <5>1
      <4>2. \A x \in F : x.event \in Event
        OBVIOUS
      <4> HIDE DEF F
      <4> QED  BY <4>1, <4>2
    <3> QED  BY <3>1, EventType
  <2> HIDE DEF f, n
  <2>4. Order = [i \in 1 .. n |-> fired[i].event.id]
        /\ Order' = [i \in 1 .. n + 1 |-> fired'[i].event.id]
    BY <2>1 DEF Order
  <2>5. Order \in Seq(Nat) /\ Len(Order) = n
    BY <2>1, <2>3, <2>4
  <2>6. ev.id \in Nat
    BY <1>6, EventType
  <2>7. \A i \in 1 .. n + 1 : Order'[i] = Append(Order, ev.id)[i]
    BY <2>1, <2>2, <2>4, <2>5, <2>6
  <2>8. Append(Order, ev.id) = [i \in 1 .. n + 1 |-> Append(Order, ev.id)[i]]
    BY <2>1, <2>5, <2>6
  <2>9. Order' = [i \in 1 .. n + 1 |-> Order'[i]]
    BY <2>4
  <2> QED  BY <2>7, <2>8, <2>9
<1>10. \A other \in Undelivered \ {Key(ev)} : Timed!Before(Key(ev), other)
  <2> SUFFICES ASSUME NEW e \in Events, Key(e) /= Key(ev)
               PROVE  Timed!Before(Key(ev), Key(e))
    BY <1>7
  <2>1. Before(ev, e)
    BY <1>5
  <2> QED  BY <2>1 DEF Before, Timed!Before, Key
<1>11. Key(ev).time = ev.time /\ Key(ev).id = ev.id /\ Key(ev) \in Undelivered
  BY <1>6, <1>7 DEF Key
<1>12. Timed!Fire(Key(ev))
  BY <1>1, <1>8, <1>9, <1>10, <1>11 DEF Timed!Fire
<1> QED  BY <1>11, <1>12 DEF Timed!Next

LEMMA FinishRefines ==
  ASSUME IInv, FinishEvent  PROVE Timed!Next
<1>1. /\ pc = "remove" /\ cur' = NULL
      /\ queue' = IF freed = NULL THEN Without(cur.id) ELSE From(freed)
      /\ UNCHANGED <<curtime, posted, fired>>
  BY DEF FinishEvent, history
<1>2. queue \in Seq(Event) /\ InOrder(queue) /\ NoTwice(queue)
  BY QueuedElements DEF IInv, TypeOK, QInv
<1>3. Events' = Elements(queue')
  BY DEF Events, Elements
<1>4. Events' \subseteq Events \ {cur}
  <2>1. CASE freed = NULL
    <3>1. queue' = Selected(queue, {ev \in Events : ev.id /= cur.id})
      BY <1>1, <2>1 DEF Without
    <3> QED  BY <1>2, <1>3, <3>1, SelectedEvents
  <2>2. CASE freed /= NULL
    <3>1. Events' \subseteq Events
      BY <1>1, <1>2, <1>3, <2>2, FromProperties, QueuedElements
    <3>2. cur.id \notin Queued
      BY <2>2 DEF IInv, QInv, Delivery, CancelledNeverFires
    <3> QED  BY <3>1, <3>2, QueuedElements
  <2> QED  BY <2>1, <2>2
<1>5. Undelivered' \subseteq Undelivered
  BY <1>4 DEF Undelivered
<1> QED  BY <1>1, <1>5, FewerIsCancel

LEMMA DeleteRefines ==
  ASSUME IInv, NEW hit, DeleteEvents(hit)  PROVE Timed!Next
<1>1. queue \in Seq(Event) /\ InOrder(queue) /\ NoTwice(queue)
  BY QueuedElements DEF IInv, TypeOK, QInv
<1>2. /\ queue' = Selected(queue, {ev \in Events : ev.id \notin hit})
      /\ UNCHANGED <<curtime, cur, posted, fired>>
  BY DEF DeleteEvents
<1>3. Events' = Elements(queue')
  BY DEF Events, Elements
<1>4. Events' \subseteq Events
  BY <1>1, <1>2, <1>3, SelectedEvents
<1>5. Undelivered' \subseteq Undelivered
  BY <1>2, <1>4 DEF Undelivered
<1> QED  BY <1>2, <1>5, FewerIsCancel

(* Whatever handlers do, an event leaves the queue by a cancellation or by *)
(* being the first that is due: every step of the queue is one of          *)
(* TimedEvents or changes nothing of it.                                   *)
THEOREM QueueImplementsTimedEvents == Spec => ImplementsTimedEvents
<1>1. Init => Timed!Init
  <2> SUFFICES ASSUME Init  PROVE Timed!Init
    OBVIOUS
  <2>1. Undelivered = {} /\ Order = <<>>
    BY DEF Init, Undelivered, Events, Order
  <2> QED  BY <2>1 DEF Init, Timed!Init
<1>2. IInv /\ [Next]_vars => [Timed!Next]_(Timed!vars)
  <2> SUFFICES ASSUME IInv, [Next]_vars  PROVE Timed!Next \/ UNCHANGED Timed!vars
    OBVIOUS
  <2>1. CASE UNCHANGED vars
    BY <2>1, SameIsStutter DEF vars, service, history
  <2>2. CASE RunningCode
    <3>1. ASSUME NEW c \in Entities, NEW n \in Names, NEW d \in Delays,
                 AddEventToName(n, d, c)
          PROVE  Timed!Next
      BY <3>1, PostRefines DEF AddEventToName
    <3>2. ASSUME NEW c \in Entities, NEW e \in Entities, NEW d \in Delays,
                 AddEventToEntity(e, d, c)
          PROVE  Timed!Next
      BY <3>2, PostRefines DEF AddEventToEntity
    <3>3. ASSUME NEW c \in Entities, NEW e \in Entities,
                 CancelEvents(c) \/ CancelEventOn(e, c)
          PROVE  Timed!Next
      BY <3>3, DeleteRefines DEF CancelEvents, CancelEventOn
    <3>4. ASSUME NEW c \in Entities, CancelEvents(c)  PROVE Timed!Next
      BY <3>4, DeleteRefines DEF CancelEvents
    <3>5. ASSUME NEW c \in Entities, NEW e \in Entities, RemoveEntity(e, c)
          PROVE  UNCHANGED Timed!vars
      BY <3>5, SameIsStutter DEF RemoveEntity, service, history
    <3>6. CASE Clear
      <4>1. Undelivered' = {}
        BY <3>6 DEF Clear, Undelivered, Events
      <4> QED  BY <3>6, <4>1, FewerIsCancel DEF Clear
    <3>7. CASE SaveAndRestore
      BY <3>7, RestoreStep, SameIsStutter DEF vars, service, history
    <3>8. CASE EntPause \/ \E n \in 1 .. 2 : EntStep(n)
      BY <3>8, SameIsStutter DEF EntPause, EntStep, service, history
    <3> QED
      BY <2>2, <3>1, <3>2, <3>3, <3>4, <3>5, <3>6, <3>7, <3>8 DEF RunningCode
  <2>3. CASE ServiceLoop
    <3>1. CASE TakeEvent
      BY <3>1, TakeRefines
    <3>2. CASE FinishEvent
      BY <3>2, FinishRefines
    <3>3. CASE NextFrame
      <4>1. /\ curtime < MaxTime /\ curtime' = curtime + 1
            /\ UNCHANGED <<queue, cur, posted, fired>>
        BY <3>3 DEF NextFrame, history
      <4>2. UNCHANGED <<Undelivered, posted, Order>>
        BY <4>1 DEF Undelivered, Order, Events
      <4> QED  BY <4>1, <4>2 DEF Timed!Next, Timed!Tick
    <3>4. CASE BeginFrame \/ BeginService \/ NoMoreDue \/ SearchByName \/ CallDirectTarget
               \/ SearchByClass \/ HandlerReturns \/ UsesDeletedEvent
      BY <3>4, SameIsStutter
         DEF BeginFrame, BeginService, NoMoreDue, SearchByName, CallDirectTarget, SearchByClass,
             HandlerReturns, UsesDeletedEvent, history
    <3> QED  BY <2>3, <3>1, <3>2, <3>3, <3>4 DEF ServiceLoop
  <2> QED  BY <2>1, <2>2, <2>3 DEF Next
<1> QED  BY Inductive, <1>1, <1>2, PTL DEF Spec, ImplementsTimedEvents, Timed!Spec
=============================================================================
