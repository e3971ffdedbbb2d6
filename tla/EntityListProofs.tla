--------------------------- MODULE EntityListProofs ---------------------------
(***************************************************************************)
(* Proofs about EntityList, for every size of the table, every mask and    *)
(* every set of entities and holders.                                      *)
(***************************************************************************)
EXTENDS EntityList, SelectionProofs, FiniteSetTheorems

(* The values a list can have. *)
Lists == [prev : [Slots -> Pointer], next : [Slots -> Pointer],
          head : Pointer, tail : Pointer]

(* No list runs in a circle: some numbering of the slots grows along it.   *)
(* Without this the links of two nodes could close on themselves and       *)
(* unlinking one would leave the other linked to itself.                   *)
Grows(rank, l, S) ==
  \A s \in S : l.prev[s] /= NULL => rank[l.prev[s]] < rank[s]

Ordered(l, S) == \E rank \in [Slots -> Nat] : Grows(rank, l, S)

(* The null pointer is no slot. *)
LEMMA NullNoSlot == NULL \notin Slots
BY NullAssumption DEF Slots

(* The list an operation is given is well typed. *)
LEMMA ListOfType ==
  ASSUME NEW p \in [Slots -> Pointer], NEW n \in [Slots -> Pointer],
         NEW ends \in [head : Pointer, tail : Pointer]
  PROVE  ListOf(p, n, ends) \in Lists
BY DEF ListOf, Lists

(* Unlinking a node of S leaves a list of the others, and detaches it. *)
LEMMA UnlinkedList ==
  ASSUME NEW l \in Lists, NEW S \in SUBSET Slots, NEW s \in S,
         WellLinked(l, S), Ordered(l, S)
  PROVE  /\ Unlinked(l, s) \in Lists
         /\ WellLinked(Unlinked(l, s), S \ {s})
         /\ Ordered(Unlinked(l, s), S \ {s})
         /\ Detached(Unlinked(l, s), {s})
<1> DEFINE p == l.prev[s]
           n == l.next[s]
           u == Unlinked(l, s)
<1>1. /\ p \in (S \ {s}) \cup {NULL}
      /\ n \in (S \ {s}) \cup {NULL}
  BY DEF WellLinked
<1>2. /\ \A t \in Slots : u.prev[t] = IF t = s THEN s
                                      ELSE IF t = n THEN p ELSE l.prev[t]
      /\ \A t \in Slots : u.next[t] = IF t = s THEN s
                                      ELSE IF t = p THEN n ELSE l.next[t]
      /\ u.head = IF p = NULL THEN n ELSE l.head
      /\ u.tail = IF n = NULL THEN p ELSE l.tail
  BY DEF Unlinked
<1>3. u \in Lists
  BY <1>1, NullNoSlot DEF Unlinked, Lists, Pointer
<1>4. Detached(u, {s})
  BY <1>2 DEF Detached
<1>a. PICK rank \in [Slots -> Nat] : Grows(rank, l, S)
  BY DEF Ordered
<1>b. p /= n \/ p = NULL
  <2> SUFFICES ASSUME p = n, p /= NULL PROVE FALSE
    OBVIOUS
  <2>1. l.prev[p] = s /\ p \in S /\ s /= NULL
    BY <1>1, NullNoSlot DEF WellLinked
  <2>2. rank[p] < rank[s] /\ rank[s] < rank[p]
    BY <1>a, <2>1 DEF Grows
  <2>3. rank[p] \in Nat /\ rank[s] \in Nat
    BY <2>1
  <2> QED
    BY <2>2, <2>3
<1>5. WellLinked(u, S \ {s})
  <2> HIDE DEF p, n, u
  <2> USE NullNoSlot
  <2>1. /\ u.head \in (S \ {s}) \cup {NULL}
        /\ u.tail \in (S \ {s}) \cup {NULL}
        /\ u.head = NULL <=> u.tail = NULL
    BY <1>1, <1>2, <1>b DEF WellLinked, p, n
  <2>2. ASSUME NEW t \in S \ {s}
        PROVE  /\ u.prev[t] \in ((S \ {s}) \ {t}) \cup {NULL}
               /\ u.prev[t] /= NULL => u.next[u.prev[t]] = t
               /\ u.prev[t] = NULL <=> u.head = t
    BY <1>1, <1>2, <1>b DEF WellLinked, p, n
  <2>3. ASSUME NEW t \in S \ {s}
        PROVE  /\ u.next[t] \in ((S \ {s}) \ {t}) \cup {NULL}
               /\ u.next[t] /= NULL => u.prev[u.next[t]] = t
               /\ u.next[t] = NULL <=> u.tail = t
    BY <1>1, <1>2, <1>b DEF WellLinked, p, n
  <2> QED
    BY <2>1, <2>2, <2>3 DEF WellLinked
<1>6. Ordered(u, S \ {s})
  <2> SUFFICES ASSUME NEW t \in S \ {s}, u.prev[t] /= NULL
               PROVE  rank[u.prev[t]] < rank[t]
    BY DEF Ordered, Grows
  <2>1. CASE t = n
    <3>1. u.prev[t] = p /\ l.prev[t] = s
      BY <1>1, <1>2, <2>1, NullNoSlot DEF WellLinked
    <3>2. rank[p] < rank[s] /\ rank[s] < rank[t]
      BY <1>a, <3>1, NullNoSlot DEF Grows
    <3>3. rank[p] \in Nat /\ rank[s] \in Nat /\ rank[t] \in Nat
      BY <1>1, <3>1
    <3> QED
      BY <3>1, <3>2, <3>3
  <2>2. CASE t /= n
    BY <1>2, <1>a, <2>2 DEF Grows
  <2> QED
    BY <2>1, <2>2
<1> QED
  BY <1>3, <1>4, <1>5, <1>6

(* Appending a node that is not in S makes a list of S and the node. *)
LEMMA AppendedList ==
  ASSUME NEW l \in Lists, NEW S \in SUBSET Slots, NEW s \in Slots \ S,
         WellLinked(l, S), Ordered(l, S)
  PROVE  /\ Appended(l, s) \in Lists
         /\ WellLinked(Appended(l, s), S \cup {s})
         /\ Ordered(Appended(l, s), S \cup {s})
<1> DEFINE a == Appended(l, s)
<1> USE NullNoSlot
<1>1. /\ \A t \in Slots : a.prev[t] = IF t = s THEN l.tail ELSE l.prev[t]
      /\ \A t \in Slots : a.next[t] = IF t = s THEN NULL
                                      ELSE IF t = l.tail THEN s ELSE l.next[t]
      /\ a.head = IF l.tail = NULL THEN s ELSE l.head
      /\ a.tail = s
  BY DEF Appended
<1>2. a \in Lists
  BY DEF Appended, Lists, Pointer
<1>3. WellLinked(a, S \cup {s})
  <2> HIDE DEF a
  <2>1. /\ a.head \in S \cup {s} \cup {NULL}
        /\ a.tail \in S \cup {s} \cup {NULL}
        /\ a.head = NULL <=> a.tail = NULL
    BY <1>1 DEF WellLinked
  <2>2. ASSUME NEW t \in S \cup {s}
        PROVE  /\ a.prev[t] \in ((S \cup {s}) \ {t}) \cup {NULL}
               /\ a.prev[t] /= NULL => a.next[a.prev[t]] = t
               /\ a.prev[t] = NULL <=> a.head = t
    BY <1>1 DEF WellLinked
  <2>3. ASSUME NEW t \in S \cup {s}
        PROVE  /\ a.next[t] \in ((S \cup {s}) \ {t}) \cup {NULL}
               /\ a.next[t] /= NULL => a.prev[a.next[t]] = t
               /\ a.next[t] = NULL <=> a.tail = t
    BY <1>1 DEF WellLinked
  <2> QED
    BY <2>1, <2>2, <2>3 DEF WellLinked
<1>4. Ordered(a, S \cup {s})
  <2>1. PICK rank \in [Slots -> Nat] : Grows(rank, l, S)
    BY DEF Ordered
  <2> DEFINE higher == IF l.tail = NULL THEN 0 ELSE rank[l.tail] + 1
             new == [rank EXCEPT ![s] = higher]
  <2>2. l.tail \in S \cup {NULL}
    BY DEF WellLinked
  <2>3. new \in [Slots -> Nat]
    BY <2>2
  <2>4. ASSUME NEW t \in S \cup {s}, a.prev[t] /= NULL
        PROVE  new[a.prev[t]] < new[t]
    <3>1. CASE t = s
      <4>1. a.prev[t] = l.tail
        BY <1>1, <3>1
      <4>2. new[t] = rank[l.tail] + 1 /\ new[l.tail] = rank[l.tail]
        BY <2>2, <2>4, <3>1, <4>1
      <4>3. rank[l.tail] \in Nat
        BY <2>2, <2>4, <4>1
      <4> QED
        BY <4>1, <4>2, <4>3
    <3>2. CASE t /= s
      <4>1. a.prev[t] = l.prev[t] /\ l.prev[t] \in S
        BY <1>1, <2>4, <3>2 DEF WellLinked
      <4>2. new[t] = rank[t] /\ new[l.prev[t]] = rank[l.prev[t]]
        BY <3>2, <4>1
      <4> QED
        BY <2>1, <2>4, <3>2, <4>1, <4>2 DEF Grows
    <3> QED
      BY <3>1, <3>2
  <2> QED
    BY <2>3, <2>4 DEF Ordered, Grows
<1> QED
  BY <1>2, <1>3, <1>4

(* Neither operation touches a slot outside the list (and the node).       *)
LEMMA UnlinkedElsewhere ==
  ASSUME NEW l \in Lists, NEW S \in SUBSET Slots, NEW s \in S,
         WellLinked(l, S), NEW t \in Slots \ S
  PROVE  /\ Unlinked(l, s).prev[t] = l.prev[t]
         /\ Unlinked(l, s).next[t] = l.next[t]
<1>1. l.prev[s] \in S \cup {NULL} /\ l.next[s] \in S \cup {NULL}
  BY DEF WellLinked
<1> QED
  BY <1>1, NullNoSlot DEF Unlinked

(* Appending leaves the nodes of other lists as they are. *)
LEMMA AppendedElsewhere ==
  ASSUME NEW l \in Lists, NEW S \in SUBSET Slots, NEW s \in Slots \ S,
         WellLinked(l, S), NEW t \in Slots \ (S \cup {s})
  PROVE  /\ Appended(l, s).prev[t] = l.prev[t]
         /\ Appended(l, s).next[t] = l.next[t]
<1>1. l.tail \in S \cup {NULL}
  BY DEF WellLinked
<1> QED
  BY <1>1, NullNoSlot DEF Appended

(* A list depends on the links of its own nodes only. *)
LEMMA SameNodes ==
  ASSUME NEW l \in Lists, NEW m \in Lists, NEW S \in SUBSET Slots,
         WellLinked(l, S), Ordered(l, S),
         m.head = l.head, m.tail = l.tail,
         \A t \in S : m.prev[t] = l.prev[t] /\ m.next[t] = l.next[t]
  PROVE  WellLinked(m, S) /\ Ordered(m, S)
<1>1. WellLinked(m, S)
  BY NullNoSlot DEF WellLinked
<1>2. Ordered(m, S)
  BY DEF Ordered, Grows
<1> QED
  BY <1>1, <1>2

-----------------------------------------------------------------------------
(***************************************************************************)
(* The inductive invariant.                                                *)
(***************************************************************************)

(* No list has a cycle. *)
ListsOrdered ==
  /\ Ordered(ListOf(prev, next, active), ActiveSlots)
  /\ Ordered(ListOf(prev, next, free), FreeSlots)

(* Slot MAX_EDICTS is never used. *)
UnusedSlot == pEntity[MaxEdicts] = NULL

(* An entity's own handle is invalid or resolves to it. *)
RefResolves ==
  \A e \in Entities : ref[e] /= InvalidHandle =>
    /\ pEntity[ref[e].entry] = e
    /\ serial[ref[e].entry] = ref[e].serial

(* The serial number age removals after it was k. *)
SerialAfter(k, age) ==
  IF k + age <= SerialMask THEN k + age ELSE k + age - (SerialMask + 1)

(* A kept handle remembers how far its slot's serial number has moved.     *)
HeldCounts ==
  \A c \in Holders :
    LET h == held[c].handle
        age == removals[h.entry] - held[c].removals
    IN  h /= InvalidHandle =>
          /\ held[c].of \in Entities
          /\ held[c].removals <= removals[h.entry]
          /\ age <= SerialMask =>
                serial[h.entry] = SerialAfter(h.serial, age)
          /\ age = 0 => pEntity[h.entry] = held[c].of

IInv ==
  /\ TypeOK
  /\ NoDanglingEntry
  /\ ListsConsistent
  /\ ListsOrdered
  /\ UnusedSlot
  /\ RefResolves
  /\ HeldCounts

(* A handle other than the invalid one names a slot. *)
LEMMA InvalidNoEntry == \A h \in Handle : h /= InvalidHandle =>
                          h.entry \in Slots /\ h.serial \in 0 .. SerialMask
BY DEF Handle

(* The constructor leaves an empty table with its free list. *)
LEMMA InitIInv == Init => IInv
<1> SUFFICES ASSUME Init PROVE IInv
  OBVIOUS
<1> USE SizesAssumption, NullAssumption
<1>1. TypeOK
  <2>1. InvalidHandle \in Handle
    BY DEF Handle
  <2>2. prev \in [Slots -> Pointer] /\ next \in [Slots -> Pointer]
    BY DEF Init, Slots, Pointer, FirstFree
  <2>3. /\ active \in [head : Pointer, tail : Pointer]
        /\ free \in [head : Pointer, tail : Pointer]
    BY DEF Init, Slots, Pointer, FirstFree
  <2>4. serial \in [Slots -> 0 .. SerialMask]
    BY DEF Init
  <2>5. held \in [Holders -> [handle : Handle, of : Entities \cup {NULL},
                             removals : Nat]]
    BY <2>1 DEF Init, NothingHeld
  <2> QED
    BY <2>1, <2>2, <2>3, <2>4, <2>5 DEF Init, TypeOK
<1>2. NoDanglingEntry /\ UnusedSlot
  BY DEF Init, NoDanglingEntry, UnusedSlot, Slots
<1>3. RefResolves /\ HeldCounts
  BY DEF Init, RefResolves, HeldCounts, NothingHeld
<1>4. /\ ActiveSlots = {}
      /\ FreeSlots = FirstFree .. NumEntries - 1
      /\ OtherSlots = {s \in Slots : s < FirstFree}
  BY DEF Init, ActiveSlots, FreeSlots, OtherSlots, Slots, FirstFree
<1>5. WellLinked(ListOf(prev, next, active), ActiveSlots)
  BY <1>4 DEF Init, WellLinked, ListOf
<1>6. WellLinked(ListOf(prev, next, free), FreeSlots)
  <2>1. CASE FirstFree >= NumEntries
    <3>1. FreeSlots = {}
      BY <1>4, <2>1 DEF FirstFree
    <3>2. free = [head |-> NULL, tail |-> NULL]
      BY <2>1 DEF Init, FirstFree
    <3> QED
      BY <3>1, <3>2 DEF WellLinked, ListOf
  <2>2. CASE FirstFree < NumEntries
    <3> DEFINE l == ListOf(prev, next, free)
    <3>1. l.head = FirstFree /\ l.tail = NumEntries - 1
      BY <2>2 DEF Init, ListOf
    <3>2. ASSUME NEW t \in FreeSlots
          PROVE  /\ l.prev[t] = IF t = FirstFree THEN NULL ELSE t - 1
                 /\ l.next[t] = IF t = NumEntries - 1 THEN NULL ELSE t + 1
      BY <1>4 DEF Init, ListOf, Slots, FirstFree
    <3> HIDE DEF l
    <3>3. ASSUME NEW t \in FreeSlots
          PROVE  /\ l.prev[t] \in (FreeSlots \ {t}) \cup {NULL}
                 /\ l.prev[t] /= NULL => l.next[l.prev[t]] = t
                 /\ l.prev[t] = NULL <=> l.head = t
      BY <1>4, <3>1, <3>2 DEF FirstFree
    <3>4. ASSUME NEW t \in FreeSlots
          PROVE  /\ l.next[t] \in (FreeSlots \ {t}) \cup {NULL}
                 /\ l.next[t] /= NULL => l.prev[l.next[t]] = t
                 /\ l.next[t] = NULL <=> l.tail = t
      BY <1>4, <3>1, <3>2 DEF FirstFree
    <3>5. l.head \in FreeSlots /\ l.tail \in FreeSlots
          /\ l.head /= NULL /\ l.tail /= NULL
      BY <1>4, <2>2, <3>1 DEF FirstFree
    <3> QED
      BY <3>3, <3>4, <3>5 DEF WellLinked, l
  <2> QED
    BY <2>1, <2>2 DEF FirstFree
<1>7. Detached(ListOf(prev, next, free), OtherSlots)
  BY <1>4 DEF Init, Detached, ListOf, Slots
<1>8. Ordered(ListOf(prev, next, active), ActiveSlots)
  <2> DEFINE rank == [s \in Slots |-> 0]
  <2>1. rank \in [Slots -> Nat]
    OBVIOUS
  <2> QED
    BY <1>4, <2>1 DEF Ordered, Grows
<1>9. Ordered(ListOf(prev, next, free), FreeSlots)
  <2> DEFINE rank == [s \in Slots |-> s]
  <2>1. rank \in [Slots -> Nat]
    BY DEF Slots
  <2>2. Grows(rank, ListOf(prev, next, free), FreeSlots)
    BY <1>4 DEF Init, Grows, ListOf, Slots, FirstFree
  <2> QED
    BY <2>1, <2>2 DEF Ordered
<1> QED
  BY <1>1, <1>2, <1>3, <1>5, <1>6, <1>7, <1>8, <1>9
     DEF IInv, ListsConsistent, ListsOrdered

-----------------------------------------------------------------------------
(***************************************************************************)
(* The two list operations on the table, given the invariant.  mid is the  *)
(* pair of link arrays between the two halves of an operation.             *)
(***************************************************************************)

(* What the invariant says of lists that are not (yet) state. *)
Partition(p, n, a, f, A, F) ==
  /\ p \in [Slots -> Pointer]
  /\ n \in [Slots -> Pointer]
  /\ a \in [head : Pointer, tail : Pointer]
  /\ f \in [head : Pointer, tail : Pointer]
  /\ WellLinked(ListOf(p, n, a), A)
  /\ Ordered(ListOf(p, n, a), A)
  /\ WellLinked(ListOf(p, n, f), F)
  /\ Ordered(ListOf(p, n, f), F)
  /\ Detached(ListOf(p, n, f), Slots \ (A \cup F))

(* Taking a list apart and putting it together again changes nothing. *)
LEMMA ListOfItself ==
  ASSUME NEW l \in Lists
  PROVE  /\ ListOf(l.prev, l.next, Ends(l)) = l
         /\ l.prev \in [Slots -> Pointer]
         /\ l.next \in [Slots -> Pointer]
         /\ Ends(l) \in [head : Pointer, tail : Pointer]
BY DEF Lists, ListOf, Ends

(* A list is unaffected by what happens to slots it does not hold. *)
LEMMA OtherList ==
  ASSUME NEW p \in [Slots -> Pointer], NEW n \in [Slots -> Pointer],
         NEW ends \in [head : Pointer, tail : Pointer],
         NEW S \in SUBSET Slots,
         WellLinked(ListOf(p, n, ends), S), Ordered(ListOf(p, n, ends), S),
         NEW l \in Lists,
         \A t \in S : l.prev[t] = p[t] /\ l.next[t] = n[t]
  PROVE  /\ WellLinked(ListOf(l.prev, l.next, ends), S)
         /\ Ordered(ListOf(l.prev, l.next, ends), S)
<1> DEFINE m == ListOf(p, n, ends)
           k == ListOf(l.prev, l.next, ends)
<1>1. m \in Lists
  BY ListOfType
<1>2. k \in Lists
  BY ListOfItself, ListOfType
<1>3. /\ k.head = m.head /\ k.tail = m.tail
      /\ \A t \in S : k.prev[t] = m.prev[t] /\ k.next[t] = m.next[t]
  BY DEF ListOf
<1> HIDE DEF m, k
<1>4. WellLinked(k, S) /\ Ordered(k, S)
  BY <1>1, <1>2, <1>3, SameNodes DEF m
<1> QED
  BY <1>4 DEF k

(* Unlinking a node of the active list. *)
LEMMA UnlinkActive ==
  ASSUME NEW p, NEW n, NEW a, NEW f,
         NEW A \in SUBSET Slots, NEW F \in SUBSET Slots, A \cap F = {},
         Partition(p, n, a, f, A, F),
         NEW s \in A
  PROVE  LET u == Unlink(ListOf(p, n, a), s)
         IN  /\ u \in Lists
             /\ Partition(u.prev, u.next, Ends(u), f, A \ {s}, F)
<1> DEFINE l == ListOf(p, n, a)
           u == Unlinked(l, s)
<1> USE DEF Partition
<1>1. l \in Lists
  BY ListOfType
<1>2. Unlink(l, s) = u
  BY NullNoSlot DEF WellLinked, Unlink, IsInList
<1>3. /\ u \in Lists
      /\ WellLinked(u, A \ {s})
      /\ Ordered(u, A \ {s})
      /\ Detached(u, {s})
  BY <1>1, UnlinkedList
<1>4. ASSUME NEW t \in Slots \ A
      PROVE  u.prev[t] = p[t] /\ u.next[t] = n[t]
  <2>1. u.prev[t] = l.prev[t] /\ u.next[t] = l.next[t]
    BY <1>1, UnlinkedElsewhere
  <2> QED
    BY <2>1 DEF ListOf
<1> HIDE DEF u
<1>5. WellLinked(ListOf(u.prev, u.next, f), F)
      /\ Ordered(ListOf(u.prev, u.next, f), F)
  BY <1>3, <1>4, OtherList
<1>6. Detached(ListOf(u.prev, u.next, f), Slots \ ((A \ {s}) \cup F))
  <2> SUFFICES ASSUME NEW t \in Slots \ ((A \ {s}) \cup F)
               PROVE  u.prev[t] = t /\ u.next[t] = t
    BY DEF Detached, ListOf
  <2>1. CASE t = s
    BY <1>3, <2>1 DEF Detached
  <2>2. CASE t /= s
    BY <1>4, <2>2 DEF Detached, ListOf
  <2> QED
    BY <2>1, <2>2
<1> QED
  BY <1>2, <1>3, <1>5, <1>6, ListOfItself

(* Appending a node that is on no list to the active list. *)
LEMMA AppendActive ==
  ASSUME NEW p, NEW n, NEW a, NEW f,
         NEW A \in SUBSET Slots, NEW F \in SUBSET Slots, A \cap F = {},
         Partition(p, n, a, f, A, F),
         NEW s \in Slots \ (A \cup F)
  PROVE  LET u == AddToTail(ListOf(p, n, a), s)
         IN  /\ u \in Lists
             /\ Partition(u.prev, u.next, Ends(u), f, A \cup {s}, F)
<1> DEFINE l == ListOf(p, n, a)
           u == Appended(l, s)
<1> USE DEF Partition
<1>1. l \in Lists
  BY ListOfType
<1>2. AddToTail(l, s) = u
  BY DEF Detached, AddToTail, Unlink, IsInList, ListOf
<1>3. u \in Lists /\ WellLinked(u, A \cup {s}) /\ Ordered(u, A \cup {s})
  BY <1>1, AppendedList
<1>4. ASSUME NEW t \in Slots \ (A \cup {s})
      PROVE  u.prev[t] = p[t] /\ u.next[t] = n[t]
  <2>1. u.prev[t] = l.prev[t] /\ u.next[t] = l.next[t]
    BY <1>1, AppendedElsewhere
  <2> QED
    BY <2>1 DEF ListOf
<1> HIDE DEF u
<1>5. WellLinked(ListOf(u.prev, u.next, f), F)
      /\ Ordered(ListOf(u.prev, u.next, f), F)
  BY <1>3, <1>4, OtherList
<1>6. Detached(ListOf(u.prev, u.next, f), Slots \ ((A \cup {s}) \cup F))
  BY <1>4 DEF Detached, ListOf
<1> QED
  BY <1>2, <1>3, <1>5, <1>6, ListOfItself

(* The two lists play the same part. *)
LEMMA PartitionSwap ==
  ASSUME NEW p, NEW n, NEW a, NEW f, NEW A, NEW F, Partition(p, n, a, f, A, F)
  PROVE  Partition(p, n, f, a, F, A)
<1>1. Detached(ListOf(p, n, a), Slots \ (F \cup A))
  BY DEF Partition, Detached, ListOf
<1> QED
  BY <1>1 DEF Partition

(* The state as a partition, and back. *)
LEMMA StatePartition ==
  ASSUME TypeOK
  PROVE  (ListsConsistent /\ ListsOrdered) <=>
           Partition(prev, next, active, free, ActiveSlots, FreeSlots)
<1>1. OtherSlots = Slots \ (ActiveSlots \cup FreeSlots)
  BY SizesAssumption DEF OtherSlots, ActiveSlots, FreeSlots, Slots, FirstFree
<1> QED
  BY <1>1 DEF Partition, ListsConsistent, ListsOrdered, TypeOK

-----------------------------------------------------------------------------
(***************************************************************************)
(* Every step preserves the invariant.                                     *)
(***************************************************************************)

(* Putting e in the empty slot s, once s is on no list. *)
LEMMA AddKeeps ==
  ASSUME IInv, NEW e \in Entities, e \notin live,
         NEW s \in Slots, pEntity[s] = NULL, s /= MaxEdicts,
         NEW p, NEW n, NEW f, free' = f,
         Partition(p, n, active, f, ActiveSlots, FreeSlots \ {s}),
         AddEntityAtSlot(e, s, p, n)
  PROVE  IInv'
<1> DEFINE l == AddToTail(ListOf(p, n, active), s)
<1> USE NullAssumption
<1>1. /\ l \in Lists
      /\ Partition(l.prev, l.next, Ends(l), f, ActiveSlots \cup {s},
                   FreeSlots \ {s})
  <2>1. s \in Slots \ (ActiveSlots \cup (FreeSlots \ {s}))
    BY DEF ActiveSlots
  <2>2. ActiveSlots \in SUBSET Slots /\ FreeSlots \ {s} \in SUBSET Slots
        /\ ActiveSlots \cap (FreeSlots \ {s}) = {}
    BY DEF ActiveSlots, FreeSlots
  <2> QED
    BY <2>1, <2>2, AppendActive
<1>2. /\ prev' = l.prev /\ next' = l.next /\ active' = Ends(l)
      /\ pEntity' = [pEntity EXCEPT ![s] = e]
      /\ ref' = [ref EXCEPT ![e] = [entry |-> s, serial |-> serial[s]]]
      /\ live' = live \cup {e}
      /\ serial' = serial /\ removals' = removals /\ held' = held
  BY DEF AddEntityAtSlot
<1> HIDE DEF l
<1>3. TypeOK'
  <2>1. [entry |-> s, serial |-> serial[s]] \in Handle
    BY DEF IInv, TypeOK, Handle
  <2> QED
    BY <1>1, <1>2, <2>1, ListOfItself DEF IInv, TypeOK, Partition
<1>4. /\ ActiveSlots' = ActiveSlots \cup {s}
      /\ FreeSlots' = FreeSlots \ {s}
  BY <1>2 DEF ActiveSlots, FreeSlots, IInv, TypeOK
<1>5. ListsConsistent' /\ ListsOrdered'
  <2>1. Partition(prev', next', active', free', ActiveSlots', FreeSlots')
    BY <1>1, <1>2, <1>4
  <2>2. (TypeOK => ((ListsConsistent /\ ListsOrdered) <=>
           Partition(prev, next, active, free, ActiveSlots, FreeSlots)))'
    BY StatePartition, PTL
  <2> QED
    BY <1>3, <2>1, <2>2
<1>6. NoDanglingEntry'
  BY <1>2 DEF NoDanglingEntry, IInv, TypeOK
<1>7. UnusedSlot'
  BY <1>2, SizesAssumption DEF UnusedSlot, IInv, TypeOK, Slots
<1>8. RefResolves'
  BY <1>2, InvalidNoEntry DEF RefResolves, NoDanglingEntry, IInv, TypeOK
<1>9. HeldCounts'
  <2> SUFFICES ASSUME NEW c \in Holders, held[c].handle /= InvalidHandle
               PROVE  LET h == held[c].handle
                          age == removals[h.entry] - held[c].removals
                      IN  /\ held[c].of \in Entities
                          /\ held[c].removals <= removals[h.entry]
                          /\ age <= SerialMask =>
                                serial[h.entry] = SerialAfter(h.serial, age)
                          /\ age = 0 => pEntity'[h.entry] = held[c].of
    BY <1>2 DEF HeldCounts
  <2>1. held[c].handle.entry \in Slots
    BY InvalidNoEntry DEF IInv, TypeOK
  <2> QED
    BY <1>2, <2>1 DEF HeldCounts, IInv, TypeOK
<1> QED
  BY <1>3, <1>5, <1>6, <1>7, <1>8, <1>9 DEF IInv

(* An entity with an edict enters the table. *)
LEMMA AddNetworkableKeeps ==
  ASSUME IInv, NEW e \in Entities, NEW s \in Slots, AddNetworkableEntity(e, s)
  PROVE  IInv'
<1>1. /\ e \notin live /\ s < MaxEdicts /\ pEntity[s] = NULL
      /\ AddEntityAtSlot(e, s, prev, next) /\ free' = free
  BY DEF AddNetworkableEntity
<1>2. s /= MaxEdicts /\ FreeSlots \ {s} = FreeSlots
  BY <1>1, SizesAssumption DEF FreeSlots, FirstFree, Slots
<1>3. Partition(prev, next, active, free, ActiveSlots, FreeSlots \ {s})
  BY <1>2, StatePartition DEF IInv
<1> QED
  BY <1>1, <1>2, <1>3, AddKeeps

(* An entity without an edict takes the head of the free list. *)
LEMMA AddNonNetworkableKeeps ==
  ASSUME IInv, NEW e \in Entities, AddNonNetworkableEntity(e)
  PROVE  IInv'
<1> DEFINE s == free.head
           u == Unlink(ListOf(prev, next, free), s)
<1>1. /\ e \notin live /\ s /= NULL /\ free' = Ends(u)
      /\ AddEntityAtSlot(e, s, u.prev, u.next)
  BY DEF AddNonNetworkableEntity
<1>2. Partition(prev, next, free, active, FreeSlots, ActiveSlots)
  BY StatePartition, PartitionSwap DEF IInv
<1>3. s \in FreeSlots
  BY <1>1, <1>2 DEF Partition, WellLinked, ListOf
<1>4. /\ FreeSlots \in SUBSET Slots /\ ActiveSlots \in SUBSET Slots
      /\ FreeSlots \cap ActiveSlots = {}
  BY DEF FreeSlots, ActiveSlots
<1>5. Partition(u.prev, u.next, Ends(u), active, FreeSlots \ {s}, ActiveSlots)
  BY <1>2, <1>3, <1>4, UnlinkActive
<1>6. s \in Slots /\ pEntity[s] = NULL /\ s /= MaxEdicts
  BY <1>3, SizesAssumption DEF FreeSlots, FirstFree, Slots
<1> HIDE DEF s, u
<1>7. Partition(u.prev, u.next, active, Ends(u), ActiveSlots, FreeSlots \ {s})
  BY <1>5, PartitionSwap
<1> QED
  BY <1>1, <1>6, <1>7, AddKeeps

(* An entity that enters no slot leaves the table alone. *)
LEMMA UnregisteredKeeps ==
  ASSUME IInv, NEW e \in Entities, e \notin live,
         live' = live \cup {e},
         UNCHANGED <<pEntity, serial, links, ref, removals, held>>
  PROVE  IInv'
<1>1. /\ pEntity' = pEntity /\ serial' = serial /\ ref' = ref
      /\ removals' = removals /\ held' = held
      /\ prev' = prev /\ next' = next /\ active' = active /\ free' = free
  BY DEF links
<1>2. TypeOK' /\ NoDanglingEntry' /\ UnusedSlot' /\ RefResolves' /\ HeldCounts'
  BY <1>1
  DEF IInv, TypeOK, NoDanglingEntry, UnusedSlot, RefResolves, HeldCounts
<1>3. ListsConsistent' /\ ListsOrdered'
  BY <1>1 DEF IInv, ListsConsistent, ListsOrdered, ActiveSlots, FreeSlots,
              OtherSlots
<1> QED
  BY <1>2, <1>3 DEF IInv

(* Copying a handle leaves the table alone. *)
LEMMA HoldKeeps ==
  ASSUME IInv, NEW e \in Entities, NEW c \in Holders, HoldHandle(c, e)
  PROVE  IInv'
<1> DEFINE h == ref[e]
<1>1. /\ pEntity' = pEntity /\ serial' = serial /\ ref' = ref /\ live' = live
      /\ removals' = removals
      /\ prev' = prev /\ next' = next /\ active' = active /\ free' = free
      /\ held' = [held EXCEPT ![c] = [handle |-> h, of |-> e,
                      removals |-> removals[GetEntryIndex(h)]]]
  BY DEF HoldHandle, links
<1>2. NoDanglingEntry' /\ UnusedSlot' /\ RefResolves'
  BY <1>1 DEF IInv, NoDanglingEntry, UnusedSlot, RefResolves
<1>3. ListsConsistent' /\ ListsOrdered'
  BY <1>1 DEF IInv, ListsConsistent, ListsOrdered, ActiveSlots, FreeSlots,
              OtherSlots
<1>4. h \in Handle /\ GetEntryIndex(h) \in Slots
  <2>1. h \in Handle
    BY DEF IInv, TypeOK
  <2>2. NumEntries - 1 \in Slots
    BY SizesAssumption DEF Slots
  <2> QED
    BY <2>1, <2>2, InvalidNoEntry DEF GetEntryIndex
<1>5. TypeOK'
  BY <1>1, <1>4 DEF IInv, TypeOK
<1>6. HeldCounts'
  <2> SUFFICES ASSUME NEW d \in Holders, held'[d].handle /= InvalidHandle
               PROVE  LET g == held'[d].handle
                          age == removals[g.entry] - held'[d].removals
                      IN  /\ held'[d].of \in Entities
                          /\ held'[d].removals <= removals[g.entry]
                          /\ age <= SerialMask =>
                                serial[g.entry] = SerialAfter(g.serial, age)
                          /\ age = 0 => pEntity[g.entry] = held'[d].of
    BY <1>1 DEF HeldCounts
  <2>1. CASE d /= c
    BY <1>1, <2>1 DEF HeldCounts, IInv, TypeOK
  <2>2. CASE d = c
    <3>1. /\ held'[d].handle = h /\ held'[d].of = e
          /\ held'[d].removals = removals[h.entry]
      BY <1>1, <2>2 DEF IInv, TypeOK, GetEntryIndex
    <3>2. pEntity[h.entry] = e /\ serial[h.entry] = h.serial
      BY <3>1 DEF IInv, RefResolves
    <3>3. removals[h.entry] \in Nat /\ h.serial \in 0 .. SerialMask
      BY <1>4, <3>1, InvalidNoEntry DEF IInv, TypeOK
    <3> QED
      BY <3>1, <3>2, <3>3, SizesAssumption DEF SerialAfter
  <2> QED
    BY <2>1, <2>2
<1> QED
  BY <1>2, <1>3, <1>5, <1>6 DEF IInv

(* Destroying an entity whose slot is empty. *)
LEMMA DestroyUnregisteredKeeps ==
  ASSUME IInv, NEW e \in Entities, Destroy(e),
         pEntity[GetEntryIndex(ref[e])] = NULL
  PROVE  IInv'
<1>1. /\ pEntity' = pEntity /\ serial' = serial /\ ref' = ref
      /\ removals' = removals /\ held' = held /\ live' = live \ {e}
      /\ prev' = prev /\ next' = next /\ active' = active /\ free' = free
  BY DEF Destroy, links
<1>2. \A s \in Slots : pEntity[s] /= e
  <2> SUFFICES ASSUME NEW s \in Slots, pEntity[s] = e PROVE FALSE
    OBVIOUS
  <2>1. ref[e] = [entry |-> s, serial |-> serial[s]]
    BY NullAssumption DEF IInv, NoDanglingEntry
  <2>2. GetEntryIndex(ref[e]) = s
    BY <2>1 DEF GetEntryIndex, InvalidHandle, Slots
  <2> QED
    BY <2>2, NullAssumption
<1>3. TypeOK' /\ UnusedSlot' /\ RefResolves' /\ HeldCounts'
  BY <1>1 DEF IInv, TypeOK, UnusedSlot, RefResolves, HeldCounts
<1>4. NoDanglingEntry'
  BY <1>1, <1>2 DEF IInv, NoDanglingEntry
<1>5. ListsConsistent' /\ ListsOrdered'
  BY <1>1 DEF IInv, ListsConsistent, ListsOrdered, ActiveSlots, FreeSlots,
              OtherSlots
<1> QED
  BY <1>3, <1>4, <1>5 DEF IInv

(* The serial number stays within its mask. *)
LEMMA NextSerialType ==
  \A k \in 0 .. SerialMask : NextSerial(k) \in 0 .. SerialMask
BY SizesAssumption DEF NextSerial

(* Destroying an entity vacates the slot its handle leads to. *)
LEMMA DestroyRegisteredKeeps ==
  ASSUME IInv, NEW e \in Entities, Destroy(e),
         pEntity[GetEntryIndex(ref[e])] /= NULL
  PROVE  IInv'
<1> DEFINE s == GetEntryIndex(ref[e])
           o == pEntity[s]
           out == Unlink(ListOf(prev, next, active), s)
           back == AddToTail(ListOf(out.prev, out.next, free), s)
           l == IF s >= MaxEdicts THEN back ELSE out
<1> USE NullAssumption
<1>1. /\ live' = live \ {e} /\ held' = held
      /\ ref' = [ref EXCEPT ![o] = InvalidHandle]
      /\ pEntity' = [pEntity EXCEPT ![s] = NULL]
      /\ serial' = [serial EXCEPT ![s] = NextSerial(@)]
      /\ removals' = [removals EXCEPT ![s] = @ + 1]
      /\ active' = Ends(out) /\ prev' = l.prev /\ next' = l.next
      /\ free' = IF s >= MaxEdicts THEN Ends(back) ELSE free
  BY DEF Destroy, RemoveEntityAtSlot
<1>2. s \in Slots /\ s \in ActiveSlots /\ s /= MaxEdicts /\ o \in Entities
  <2>1. ref[e] \in Handle /\ NumEntries - 1 \in Slots
    BY SizesAssumption DEF IInv, TypeOK, Slots
  <2>2. s \in Slots
    BY <2>1, InvalidNoEntry DEF GetEntryIndex
  <2> QED
    BY <2>2 DEF ActiveSlots, IInv, UnusedSlot, TypeOK
<1>3. /\ ActiveSlots \in SUBSET Slots /\ FreeSlots \in SUBSET Slots
      /\ ActiveSlots \cap FreeSlots = {}
  BY DEF ActiveSlots, FreeSlots
<1>4. /\ out \in Lists
      /\ Partition(out.prev, out.next, Ends(out), free,
                   ActiveSlots \ {s}, FreeSlots)
  <2>1. Partition(prev, next, active, free, ActiveSlots, FreeSlots)
    BY StatePartition DEF IInv
  <2> QED
    BY <1>2, <1>3, <2>1, UnlinkActive
<1>5. /\ back \in Lists
      /\ Partition(back.prev, back.next, Ends(back), Ends(out),
                   FreeSlots \cup {s}, ActiveSlots \ {s})
  <2> HIDE DEF s, out
  <2>1. Partition(out.prev, out.next, free, Ends(out),
                  FreeSlots, ActiveSlots \ {s})
    BY <1>4, PartitionSwap
  <2>2. /\ ActiveSlots \ {s} \in SUBSET Slots
        /\ FreeSlots \cap (ActiveSlots \ {s}) = {}
        /\ s \in Slots \ (FreeSlots \cup (ActiveSlots \ {s}))
    BY <1>2, <1>3
  <2> QED
    BY <1>3, <2>1, <2>2, AppendActive
<1> HIDE DEF s, o, out, back
<1>6. /\ ActiveSlots' = ActiveSlots \ {s}
      /\ FreeSlots' = IF s >= MaxEdicts THEN FreeSlots \cup {s} ELSE FreeSlots
  BY <1>1, <1>2, SizesAssumption
     DEF ActiveSlots, FreeSlots, FirstFree, IInv, TypeOK, Slots
<1>7. Partition(prev', next', active', free', ActiveSlots', FreeSlots')
  <2>1. CASE s >= MaxEdicts
    BY <1>1, <1>5, <1>6, <2>1, PartitionSwap
  <2>2. CASE ~(s >= MaxEdicts)
    BY <1>1, <1>4, <1>6, <2>2
  <2> QED
    BY <2>1, <2>2
<1>8. TypeOK'
  <2>1. InvalidHandle \in Handle
    BY DEF Handle
  <2>2. /\ prev' \in [Slots -> Pointer] /\ next' \in [Slots -> Pointer]
        /\ active' \in [head : Pointer, tail : Pointer]
        /\ free' \in [head : Pointer, tail : Pointer]
    BY <1>7 DEF Partition
  <2>3. serial' \in [Slots -> 0 .. SerialMask]
    BY <1>1, <1>2, NextSerialType DEF IInv, TypeOK
  <2>4. /\ pEntity' \in [Slots -> Entities \cup {NULL}]
        /\ live' \in SUBSET Entities
        /\ ref' \in [Entities -> Handle]
        /\ removals' \in [Slots -> Nat]
        /\ held' = held
    BY <1>1, <1>2, <2>1 DEF IInv, TypeOK
  <2> QED
    BY <2>2, <2>3, <2>4 DEF IInv, TypeOK
<1>9. ListsConsistent' /\ ListsOrdered'
  <2>1. (TypeOK => ((ListsConsistent /\ ListsOrdered) <=>
           Partition(prev, next, active, free, ActiveSlots, FreeSlots)))'
    BY StatePartition, PTL
  <2> QED
    BY <1>7, <1>8, <2>1
<1>10. \A t \in Slots : pEntity[t] = e => t = s
  <2> SUFFICES ASSUME NEW t \in Slots, pEntity[t] = e PROVE t = s
    OBVIOUS
  <2>1. ref[e] = [entry |-> t, serial |-> serial[t]]
    BY DEF IInv, NoDanglingEntry
  <2>2. ref[e].entry = t /\ ref[e] /= InvalidHandle
    BY <2>1 DEF InvalidHandle, Slots
  <2> QED
    BY <2>2 DEF s, GetEntryIndex
<1>11. \A t \in Slots : pEntity[t] = o => t = s
  <2>1. ref[o] = [entry |-> s, serial |-> serial[s]]
    BY <1>2 DEF IInv, NoDanglingEntry, o
  <2> SUFFICES ASSUME NEW t \in Slots, pEntity[t] = o PROVE t = s
    OBVIOUS
  <2>2. ref[o] = [entry |-> t, serial |-> serial[t]]
    BY <1>2 DEF IInv, NoDanglingEntry
  <2>3. ref[o].entry = s /\ ref[o].entry = t
    BY <2>1, <2>2
  <2> QED
    BY <2>3
<1>12. NoDanglingEntry' /\ UnusedSlot'
  <2>1. ASSUME NEW t \in Slots, pEntity'[t] /= NULL
        PROVE  /\ pEntity'[t] \in live'
               /\ ref'[pEntity'[t]] = [entry |-> t, serial |-> serial'[t]]
    <3>1. t /= s /\ pEntity'[t] = pEntity[t] /\ serial'[t] = serial[t]
      BY <1>1, <1>2, <2>1 DEF IInv, TypeOK
    <3>2. pEntity[t] /= e /\ pEntity[t] /= o
      BY <1>10, <1>11, <3>1
    <3> QED
      BY <1>1, <2>1, <3>1, <3>2 DEF IInv, NoDanglingEntry, TypeOK
  <2>2. UnusedSlot'
    BY <1>1, <1>2, SizesAssumption DEF UnusedSlot, IInv, TypeOK, Slots
  <2> QED
    BY <2>1, <2>2 DEF NoDanglingEntry
<1>13. RefResolves'
  <2> SUFFICES ASSUME NEW x \in Entities, ref'[x] /= InvalidHandle
               PROVE  /\ pEntity'[ref'[x].entry] = x
                      /\ serial'[ref'[x].entry] = ref'[x].serial
    BY DEF RefResolves
  <2>1. x /= o /\ ref'[x] = ref[x]
    BY <1>1, <1>2 DEF IInv, TypeOK
  <2>2. ref[x].entry \in Slots
    BY <2>1, InvalidNoEntry DEF IInv, TypeOK
  <2>3. pEntity[ref[x].entry] = x /\ serial[ref[x].entry] = ref[x].serial
    BY <2>1 DEF IInv, RefResolves
  <2>4. ref[x].entry /= s
    BY <2>1, <2>3 DEF o
  <2> QED
    BY <1>1, <1>2, <2>1, <2>2, <2>3, <2>4 DEF IInv, TypeOK
<1>14. HeldCounts'
  <2> SUFFICES ASSUME NEW c \in Holders, held[c].handle /= InvalidHandle
               PROVE  LET h == held[c].handle
                          age == removals'[h.entry] - held[c].removals
                      IN  /\ held[c].of \in Entities
                          /\ held[c].removals <= removals'[h.entry]
                          /\ age <= SerialMask =>
                                serial'[h.entry] = SerialAfter(h.serial, age)
                          /\ age = 0 => pEntity'[h.entry] = held[c].of
    BY <1>1 DEF HeldCounts
  <2> DEFINE h == held[c].handle
             age == removals[h.entry] - held[c].removals
  <2>1. /\ h.entry \in Slots /\ h.serial \in 0 .. SerialMask
        /\ held[c].removals \in Nat /\ removals[h.entry] \in Nat
    BY InvalidNoEntry DEF IInv, TypeOK
  <2>2. /\ held[c].of \in Entities
        /\ held[c].removals <= removals[h.entry]
        /\ age <= SerialMask => serial[h.entry] = SerialAfter(h.serial, age)
        /\ age = 0 => pEntity[h.entry] = held[c].of
    BY DEF IInv, HeldCounts
  <2>3. CASE h.entry /= s
    BY <1>1, <1>2, <2>1, <2>2, <2>3 DEF IInv, TypeOK
  <2>4. CASE h.entry = s
    <3>1. /\ removals'[h.entry] = removals[h.entry] + 1
          /\ serial'[h.entry] = NextSerial(serial[h.entry])
      BY <1>1, <1>2, <2>4 DEF IInv, TypeOK
    <3>2. removals'[h.entry] - held[c].removals = age + 1 /\ age \in Nat
      BY <2>1, <2>2, <3>1
    <3> HIDE DEF age
    <3>3. age + 1 <= SerialMask =>
            serial'[h.entry] = SerialAfter(h.serial, age + 1)
      BY <2>1, <2>2, <3>1, <3>2, SizesAssumption DEF SerialAfter, NextSerial
    <3> QED
      BY <2>1, <2>2, <3>1, <3>2, <3>3
  <2> QED
    BY <2>3, <2>4
<1> QED
  BY <1>8, <1>9, <1>12, <1>13, <1>14 DEF IInv

(* Every step keeps the invariant. *)
LEMMA NextKeeps == IInv /\ [Next]_vars => IInv'
<1> SUFFICES ASSUME IInv, [Next]_vars PROVE IInv'
  OBVIOUS
<1>1. ASSUME NEW e \in Entities, NEW s \in Slots, AddNetworkableEntity(e, s)
      PROVE  IInv'
  BY <1>1, AddNetworkableKeeps
<1>2. ASSUME NEW e \in Entities, AddNonNetworkableEntity(e)
      PROVE  IInv'
  BY <1>2, AddNonNetworkableKeeps
<1>3. ASSUME NEW e \in Entities, AddNonNetworkableEntityFails(e)
      PROVE  IInv'
  BY <1>3, UnregisteredKeeps DEF AddNonNetworkableEntityFails
<1>4. ASSUME NEW e \in Entities, ConstructWithoutEdict(e)
      PROVE  IInv'
  BY <1>4, UnregisteredKeeps DEF ConstructWithoutEdict
<1>5. ASSUME NEW e \in Entities, Destroy(e)
      PROVE  IInv'
  BY <1>5, DestroyUnregisteredKeeps, DestroyRegisteredKeeps
<1>6. ASSUME NEW e \in Entities, NEW c \in Holders, HoldHandle(c, e)
      PROVE  IInv'
  BY <1>6, HoldKeeps
<1>7. CASE UNCHANGED vars
  BY <1>7 DEF vars, links, IInv, TypeOK, NoDanglingEntry, ListsConsistent,
     ListsOrdered, ActiveSlots, FreeSlots, OtherSlots, UnusedSlot, RefResolves,
     HeldCounts
<1> QED
  BY <1>1, <1>2, <1>3, <1>4, <1>5, <1>6, <1>7 DEF Next

-----------------------------------------------------------------------------
(***************************************************************************)
(* Theorems.                                                               *)
(***************************************************************************)

(* The inductive invariant holds of every reachable state. *)
THEOREM Inductive == Spec => []IInv
BY InitIInv, NextKeeps, PTL DEF Spec

(* The variables keep their types: links stay inside the table and serial  *)
(* numbers inside SERIAL_MASK.                                             *)
THEOREM Typing == Spec => []TypeOK
<1>1. IInv => TypeOK
  BY DEF IInv
<1> QED
  BY <1>1, Inductive, PTL

(* The table never keeps a pointer to a destroyed entity, and an entity's  *)
(* own handle always agrees with the slot it is in.                        *)
THEOREM NoDangling == Spec => []NoDanglingEntry
<1>1. IInv => NoDanglingEntry
  BY DEF IInv
<1> QED
  BY <1>1, Inductive, PTL

(* Whatever is constructed and destroyed, the active and the free list     *)
(* stay well linked and apart.                                             *)
THEOREM ListsStayConsistent == Spec => []ListsConsistent
<1>1. IInv => ListsConsistent
  BY DEF IInv
<1> QED
  BY <1>1, Inductive, PTL

(* A kept handle gives the entity it was taken from until the slot is      *)
(* vacated, then nothing for the next SERIAL_MASK removals.                *)
THEOREM HandleSafety == Spec => []HandleResolvesOnlyToItsEntity
<1>1. IInv => HandleResolvesOnlyToItsEntity
  <2> SUFFICES ASSUME IInv, NEW c \in Holders,
                      held[c].handle /= InvalidHandle,
                      removals[held[c].handle.entry] - held[c].removals
                        <= SerialMask
               PROVE  LookupEntity(held[c].handle) =
                        IF removals[held[c].handle.entry]
                             - held[c].removals = 0
                        THEN held[c].of ELSE NULL
    BY DEF HandleResolvesOnlyToItsEntity
  <2> DEFINE h == held[c].handle
             age == removals[h.entry] - held[c].removals
  <2>1. /\ h.entry \in Slots /\ h.serial \in 0 .. SerialMask
        /\ held[c].removals \in Nat /\ removals[h.entry] \in Nat
    BY InvalidNoEntry DEF IInv, TypeOK
  <2>2. /\ held[c].removals <= removals[h.entry]
        /\ serial[h.entry] = SerialAfter(h.serial, age)
        /\ age = 0 => pEntity[h.entry] = held[c].of
    BY DEF IInv, HeldCounts
  <2>3. age \in 0 .. SerialMask
    BY <2>1, <2>2, SizesAssumption
  <2> HIDE DEF age
  <2>4. serial[h.entry] = h.serial <=> age = 0
    BY <2>1, <2>2, <2>3, SizesAssumption DEF SerialAfter
  <2> QED
    BY <2>2, <2>4 DEF LookupEntity, age
<1> QED
  BY <1>1, Inductive, PTL

(* A step takes no entity out of the table but the one it destroys and the *)
(* one in the last slot.                                                   *)
LEMMA StepKeepsSlots ==
  ASSUME IInv, [Next]_vars, NEW s \in Slots,
         pEntity[s] /= NULL, pEntity'[s] = NULL
  PROVE  s = NumEntries - 1 \/ pEntity[s] \notin live'
<1> USE NullAssumption
<1>1. pEntity \in [Slots -> Entities \cup {NULL}]
  BY DEF IInv, TypeOK
<1>2. ASSUME NEW e \in Entities, NEW t \in Slots, NEW p, NEW n,
             AddEntityAtSlot(e, t, p, n)
      PROVE  FALSE
  BY <1>1, <1>2 DEF AddEntityAtSlot
<1>3. ASSUME UNCHANGED pEntity PROVE FALSE
  BY <1>3
<1>4. ASSUME NEW e \in Entities, Destroy(e)
      PROVE  s = NumEntries - 1 \/ pEntity[s] \notin live'
  <2> DEFINE t == GetEntryIndex(ref[e])
  <2>1. pEntity[t] /= NULL /\ RemoveEntityAtSlot(t)
    BY <1>3, <1>4 DEF Destroy
  <2>2. pEntity' = [pEntity EXCEPT ![t] = NULL]
    BY <2>1 DEF RemoveEntityAtSlot
  <2>3. s = t
    BY <1>1, <2>2
  <2>4. CASE ref[e] = InvalidHandle
    BY <2>3, <2>4 DEF GetEntryIndex
  <2>5. CASE ref[e] /= InvalidHandle
    <3>1. pEntity[s] = e
      BY <2>3, <2>5 DEF GetEntryIndex, IInv, RefResolves
    <3>2. e \notin live'
      BY <1>4 DEF Destroy
    <3> QED
      BY <3>1, <3>2
  <2> QED
    BY <2>4, <2>5
<1>5. CASE Next
  <2>1. PICK e \in Entities :
          \/ \E t \in Slots : AddNetworkableEntity(e, t)
          \/ AddNonNetworkableEntity(e)
          \/ AddNonNetworkableEntityFails(e)
          \/ ConstructWithoutEdict(e)
          \/ Destroy(e)
          \/ \E c \in Holders : HoldHandle(c, e)
    BY <1>5 DEF Next
  <2>2. CASE \E t \in Slots : AddNetworkableEntity(e, t)
    BY <1>2, <2>2 DEF AddNetworkableEntity
  <2>3. CASE AddNonNetworkableEntity(e)
    <3>1. free.head \in Slots
      BY <2>3 DEF AddNonNetworkableEntity, IInv, TypeOK, Pointer
    <3> QED
      BY <1>2, <2>3, <3>1 DEF AddNonNetworkableEntity
  <2>4. CASE AddNonNetworkableEntityFails(e)
    BY <1>3, <2>4 DEF AddNonNetworkableEntityFails
  <2>5. CASE ConstructWithoutEdict(e)
    BY <1>3, <2>5 DEF ConstructWithoutEdict
  <2>6. CASE \E c \in Holders : HoldHandle(c, e)
    BY <1>3, <2>6 DEF HoldHandle
  <2> QED
    BY <1>4, <2>1, <2>2, <2>3, <2>4, <2>5, <2>6
<1>6. CASE UNCHANGED vars
  BY <1>3, <1>6 DEF vars
<1> QED
  BY <1>5, <1>6

(* No entity loses its slot before it is destroyed, except the one in the  *)
(* last slot.                                                              *)
THEOREM SlotsAreKept == Spec => OnlyTheLastSlotIsStolen
<1> DEFINE A == \A s \in Slots : pEntity[s] /= NULL /\ pEntity'[s] = NULL =>
                  s = NumEntries - 1 \/ pEntity[s] \notin live'
<1>1. IInv /\ [Next]_vars => [A]_vars
  BY StepKeepsSlots
<1>2. OnlyTheLastSlotIsStolen <=> [][A]_vars
  BY DEF OnlyTheLastSlotIsStolen
<1> QED
  BY <1>1, <1>2, Inductive, PTL DEF Spec

-----------------------------------------------------------------------------
(***************************************************************************)
(* The refinement of EntityRegistry.  What the registry keeps as sequences *)
(* is in the links: a sequence of slots is threaded by them when each slot *)
(* links the one after it and the last one none.                           *)
(***************************************************************************)
Threaded(q, succ, head, S) ==
  /\ q \in Seq(S)
  /\ \A i, j \in 1 .. Len(q) : q[i] = q[j] => i = j
  /\ \A t \in S : \E i \in 1 .. Len(q) : q[i] = t
  /\ head = IF q = <<>> THEN NULL ELSE q[1]
  /\ \A i \in 1 .. Len(q) : succ[q[i]] = IF i = Len(q) THEN NULL ELSE q[i + 1]

(* A sequence without repetition is no longer than the table. *)
LEMMA ThreadedLength ==
  ASSUME NEW S \in SUBSET Slots, NEW q, NEW succ, NEW head, Threaded(q, succ, head, S)
  PROVE  Len(q) \in Nat /\ Len(q) <= NumEntries
<1> DEFINE n == Len(q)
<1>1. n \in Nat /\ q \in [1 .. n -> S] /\ \A i, j \in 1 .. n : q[i] = q[j] => i = j
  BY DEF Threaded
<1>2. NumEntries \in Nat /\ Slots = 0 .. NumEntries - 1
  BY SizesAssumption DEF Slots
<1>3. IsFiniteSet(Slots) /\ Cardinality(Slots) = NumEntries
  <2>1. IsFiniteSet(0 .. NumEntries - 1)
        /\ Cardinality(0 .. NumEntries - 1) = IF 0 > NumEntries - 1 THEN 0 ELSE NumEntries - 1 - 0 + 1
    BY <1>2, FS_Interval
  <2> QED  BY <1>2, <2>1
<1>4. IsFiniteSet(1 .. n) /\ Cardinality(1 .. n) = n
  <2>1. IsFiniteSet(1 .. n) /\ Cardinality(1 .. n) = IF 1 > n THEN 0 ELSE n - 1 + 1
    BY <1>1, FS_Interval
  <2> QED  BY <1>1, <2>1
<1> HIDE DEF n
<1>5. q \in Injection(1 .. n, Slots)
  <2>1. q \in [1 .. n -> Slots]
    BY <1>1
  <2> QED  BY <1>1, <2>1 DEF Injection, IsInjective
<1>6. Cardinality(1 .. n) <= Cardinality(Slots)
  BY <1>3, <1>5, FS_Injection
<1> QED  BY <1>1, <1>3, <1>4, <1>6 DEF n

(* The walk of Chain reads off exactly the sequence that is threaded.      *)
LEMMA ChainReads ==
  ASSUME NEW S \in SUBSET Slots, NEW q, NEW succ, NEW head, Threaded(q, succ, head, S)
  PROVE  Chain(succ, head) = q
<1> DEFINE N == NumEntries + 1
           n == Len(q)
           Node(g) == g = [k \in 1 .. N |->
                             IF k = 1 THEN head
                             ELSE IF g[k - 1] = NULL THEN NULL ELSE succ[g[k - 1]]]
           node == CHOOSE g : Node(g)
           h == [k \in 1 .. N |-> IF k <= n THEN q[k] ELSE NULL]
<1>1. n \in Nat /\ n < N /\ N \in Nat
  BY ThreadedLength, SizesAssumption
<1>2. \A i \in 1 .. n : q[i] \in S /\ q[i] /= NULL
  BY NullNoSlot DEF Threaded
<1>3. DOMAIN q = 1 .. n /\ q = [i \in 1 .. n |-> q[i]] /\ (q = <<>> <=> n = 0)
  BY DEF Threaded
<1>4. /\ head = IF n = 0 THEN NULL ELSE q[1]
      /\ \A i \in 1 .. n : succ[q[i]] = IF i = n THEN NULL ELSE q[i + 1]
  BY <1>3 DEF Threaded
<1> HIDE DEF n, N
<1>5. Node(h)
  <2>1. ASSUME NEW k \in 1 .. N
        PROVE  h[k] = IF k = 1 THEN head
                      ELSE IF h[k - 1] = NULL THEN NULL ELSE succ[h[k - 1]]
    <3>1. CASE k = 1
      BY <1>1, <1>4, <3>1
    <3>2. CASE k /= 1
      <4>1. PICK j \in 1 .. N : k = j + 1
        <5>1. k - 1 \in 1 .. N /\ k = (k - 1) + 1
          BY <1>1, <3>2
        <5> QED  BY <5>1
      <4>2. h[k - 1] = h[j] /\ h[j] = IF j <= n THEN q[j] ELSE NULL
        BY <4>1
      <4>3. h[k] = IF j < n THEN q[j + 1] ELSE NULL
        BY <1>1, <4>1
      <4>4. CASE j < n
        <5>1. j \in 1 .. n /\ j /= n
          BY <1>1, <4>4
        <5> HIDE DEF h
        <5> QED  BY <1>2, <1>4, <3>2, <4>2, <4>3, <4>4, <5>1
      <4>5. CASE j = n
        <5>1. j \in 1 .. n
          BY <1>1, <4>5
        <5>2. succ[q[j]] = NULL /\ h[j] = q[j] /\ h[k] = NULL /\ h[j] /= NULL
          BY <1>2, <1>4, <4>2, <4>3, <4>5, <5>1
        <5> HIDE DEF h
        <5> QED  BY <3>2, <4>2, <5>2
      <4>6. CASE j > n
        <5>1. h[k] = NULL /\ h[j] = NULL
          BY <1>1, <4>2, <4>3, <4>6
        <5> HIDE DEF h
        <5> QED  BY <3>2, <4>2, <5>1
      <4> QED  BY <1>1, <4>4, <4>5, <4>6
    <3> QED  BY <3>1, <3>2
  <2>2. h = [k \in 1 .. N |-> h[k]]
    OBVIOUS
  <2> HIDE DEF h
  <2> QED  BY <2>1, <2>2
<1>6. Node(node)
  <2> HIDE DEF h, Node
  <2> QED  BY <1>5
<1>7. ASSUME NEW g, Node(g)  PROVE \A k \in 1 .. N : g[k] = h[k]
  <2> DEFINE P == {k \in 0 .. N : k = 0 \/ g[k] = h[k]}
  <2>1. \A k \in 1 .. N : g[k] = IF k = 1 THEN head
                               ELSE IF g[k - 1] = NULL THEN NULL ELSE succ[g[k - 1]]
    BY <1>7, Zenon
  <2>2. \A k \in 1 .. N : h[k] = IF k = 1 THEN head
                               ELSE IF h[k - 1] = NULL THEN NULL ELSE succ[h[k - 1]]
    <3> HIDE DEF h
    <3> QED  BY <1>5, Zenon
  <2> HIDE DEF h, Node
  <2>3. 0 \in P
    BY <1>1
  <2>4. ASSUME NEW k \in 0 .. N - 1, k \in P  PROVE k + 1 \in P
    <3>1. PICK j \in 1 .. N : j = k + 1
      BY <1>1
    <3>2. CASE k = 0
      <4>1. g[j] = h[j]
        BY <2>1, <2>2, <3>1, <3>2
      <4> QED  BY <3>1, <4>1
    <3>3. CASE k /= 0
      <4>1. j /= 1 /\ j - 1 = k /\ g[k] = h[k]
        BY <1>1, <2>4, <3>1, <3>3
      <4>2. g[j] = h[j]
        BY <2>1, <2>2, <4>1
      <4> QED  BY <3>1, <4>2
    <3> QED  BY <3>2, <3>3
  <2> HIDE DEF P
  <2>5. 0 .. N \subseteq P
    BY <1>1, <2>3, <2>4, InductionUpTo
  <2>6. \A k \in 1 .. N : k \in 0 .. N /\ k /= 0
    BY <1>1
  <2> QED  BY <2>5, <2>6 DEF P
<1>8. \A k \in 1 .. N : node[k] = h[k]
  BY <1>6, <1>7
<1>9. Chain(succ, head) = [k \in {j \in 1 .. N : node[j] /= NULL} |-> node[k]]
  BY DEF Chain, N
<1> HIDE DEF node, Node
<1>10. {j \in 1 .. N : node[j] /= NULL} = 1 .. n
  BY <1>1, <1>2, <1>8
<1>11. \A k \in 1 .. n : node[k] = q[k]
  BY <1>1, <1>8
<1> QED  BY <1>3, <1>9, <1>10, <1>11

(* RemoveAt, element by element.                                           *)
LEMMA RemovedAt ==
  ASSUME NEW X, NEW q \in Seq(X), NEW k \in 1 .. Len(q)
  PROVE  /\ Registry!RemoveAt(q, k) \in Seq(X)
         /\ Len(Registry!RemoveAt(q, k)) = Len(q) - 1
         /\ \A i \in 1 .. Len(q) - 1 :
              Registry!RemoveAt(q, k)[i] = IF i < k THEN q[i] ELSE q[i + 1]
<1> DEFINE n == Len(q)
           before == SubSeq(q, 1, k - 1)
           after == SubSeq(q, k + 1, n)
<1>1. n \in Nat /\ k \in 1 .. n /\ \A i \in 1 .. n : q[i] \in X
  OBVIOUS
<1>2. /\ before \in Seq(X) /\ Len(before) = k - 1
      /\ \A i \in 1 .. k - 1 : before[i] = q[i]
  BY <1>1
<1>3. /\ after \in Seq(X) /\ Len(after) = n - k
      /\ \A i \in 1 .. n - k : after[i] = q[i + k]
  BY <1>1
<1>4. Registry!RemoveAt(q, k) = before \o after
  BY DEF Registry!RemoveAt
<1> HIDE DEF n, before, after
<1>5. before \o after \in Seq(X) /\ Len(before \o after) = n - 1
  <2>1. before \o after \in Seq(X)
    BY <1>2, <1>3
  <2>2. Len(before \o after) = Len(before) + Len(after)
    <3>1. before \in Seq(X) /\ after \in Seq(X)
      BY <1>2, <1>3
    <3> QED  BY <3>1
  <2>3. Len(before) + Len(after) = n - 1
    BY <1>1, <1>2, <1>3
  <2> QED  BY <2>1, <2>2, <2>3
<1>6. ASSUME NEW i \in 1 .. n - 1
      PROVE  (before \o after)[i] = IF i < k THEN q[i] ELSE q[i + 1]
  <2>1. CASE i < k
    <3>1. i \in 1 .. k - 1
      BY <1>1, <2>1
    <3>2. (before \o after)[i] = before[i]
      BY <1>1, <1>2, <1>3, <3>1
    <3> QED  BY <1>2, <2>1, <3>1, <3>2
  <2>2. CASE ~(i < k)
    <3>1. PICK j \in 1 .. n - k : i = j + (k - 1)
      <4>1. i - (k - 1) \in 1 .. n - k /\ i = (i - (k - 1)) + (k - 1)
        BY <1>1, <2>2
      <4> QED  BY <4>1
    <3>2. (before \o after)[i] = after[j]
      BY <1>1, <1>2, <1>3, <3>1
    <3>3. j + k = i + 1
      BY <1>1, <3>1
    <3> QED  BY <1>3, <2>2, <3>1, <3>2, <3>3
  <2> QED  BY <2>1, <2>2
<1> QED  BY <1>4, <1>5, <1>6 DEF n

(* Unlinking the node at position k takes it out of the sequence.          *)
LEMMA UnlinkedThread ==
  ASSUME NEW l \in Lists, NEW S \in SUBSET Slots, WellLinked(l, S),
         NEW q, Threaded(q, l.next, l.head, S), NEW k \in 1 .. Len(q)
  PROVE  Threaded(Registry!RemoveAt(q, k), Unlinked(l, q[k]).next,
                  Unlinked(l, q[k]).head, S \ {q[k]})
<1> DEFINE n == Len(q)
           s == q[k]
           r == Registry!RemoveAt(q, k)
           u == Unlinked(l, s)
<1>1. /\ n \in Nat /\ k \in 1 .. n /\ q \in Seq(S)
      /\ \A i \in 1 .. n : q[i] \in S /\ q[i] \in Slots /\ q[i] /= NULL
      /\ \A i, j \in 1 .. n : q[i] = q[j] => i = j
      /\ \A t \in S : \E i \in 1 .. n : q[i] = t
      /\ l.head = IF n = 0 THEN NULL ELSE q[1]
      /\ \A i \in 1 .. n : l.next[q[i]] = IF i = n THEN NULL ELSE q[i + 1]
  BY NullNoSlot DEF Threaded
<1>2. /\ r \in Seq(S) /\ Len(r) = n - 1
      /\ \A i \in 1 .. n - 1 : r[i] = IF i < k THEN q[i] ELSE q[i + 1]
  BY <1>1, RemovedAt
<1>3. /\ \A t \in Slots : u.next[t] = IF t = s THEN s
                                     ELSE IF t = l.prev[s] THEN l.next[s] ELSE l.next[t]
      /\ u.head = IF l.prev[s] = NULL THEN l.next[s] ELSE l.head
  BY DEF Unlinked
<1>4. s \in S /\ (r = <<>> <=> n = 1)
  <2>1. r = <<>> <=> Len(r) = 0
    <3> HIDE DEF r
    <3> QED  BY <1>2
  <2> HIDE DEF n, r
  <2> QED  BY <1>1, <1>2, <2>1
<1>5. l.prev[s] = IF k = 1 THEN NULL ELSE q[k - 1]
  <2>1. CASE k = 1
    BY <1>1, <2>1 DEF WellLinked
  <2>2. CASE k /= 1
    <3>1. k - 1 \in 1 .. n /\ k - 1 /= n /\ (k - 1) + 1 = k
      BY <1>1, <2>2
    <3>2. l.next[q[k - 1]] = s /\ s /= NULL /\ q[k - 1] \in S
      BY <1>1, <3>1
    <3> QED  BY <2>2, <3>2 DEF WellLinked
  <2> QED  BY <2>1, <2>2
<1>6. l.next[s] = IF k = n THEN NULL ELSE q[k + 1]
  BY <1>1
<1> HIDE DEF n, r, u
<1>7. \A i \in 1 .. n - 1 : i \in 1 .. n /\ i + 1 \in 1 .. n /\ i /= n
  BY <1>1
<1>8. \A i \in 1 .. n - 1 : r[i] \in S \ {s}
  <2> SUFFICES ASSUME NEW i \in 1 .. n - 1  PROVE r[i] \in S \ {s}
    OBVIOUS
  <2>1. CASE i < k
    <3>1. r[i] = q[i] /\ i /= k
      BY <1>1, <1>2, <2>1
    <3> QED  BY <1>1, <1>7, <3>1
  <2>2. CASE ~(i < k)
    <3>1. r[i] = q[i + 1] /\ i + 1 /= k
      BY <1>1, <1>2, <2>2
    <3> QED  BY <1>1, <1>7, <3>1
  <2> QED  BY <2>1, <2>2
<1>9. r \in Seq(S \ {s})
  <2>1. r = [i \in 1 .. n - 1 |-> r[i]] /\ n - 1 \in Nat
    BY <1>1, <1>2
  <2> HIDE DEF s
  <2> QED  BY <1>8, <2>1
<1>10. \A i, j \in 1 .. n - 1 : r[i] = r[j] => i = j
  <2> SUFFICES ASSUME NEW i \in 1 .. n - 1, NEW j \in 1 .. n - 1, r[i] = r[j]
               PROVE  i = j
    OBVIOUS
  <2>1. \A a \in 1 .. n - 1 : \E b \in 1 .. n :
          r[a] = q[b] /\ b = IF a < k THEN a ELSE a + 1
    BY <1>2, <1>7
  <2>2. PICK a \in 1 .. n : r[i] = q[a] /\ a = IF i < k THEN i ELSE i + 1
    BY <2>1
  <2>3. PICK b \in 1 .. n : r[j] = q[b] /\ b = IF j < k THEN j ELSE j + 1
    BY <2>1
  <2>4. a = b
    <3>1. q[a] = q[b]
      BY <2>2, <2>3
    <3>2. \A x, y \in 1 .. n : q[x] = q[y] => x = y
      BY <1>1
    <3> QED  BY <3>1, <3>2
  <2> QED  BY <1>1, <2>2, <2>3, <2>4
<1>11. \A t \in S \ {s} : \E i \in 1 .. n - 1 : r[i] = t
  <2> SUFFICES ASSUME NEW t \in S \ {s}  PROVE \E i \in 1 .. n - 1 : r[i] = t
    OBVIOUS
  <2>1. PICK j \in 1 .. n : q[j] = t /\ j /= k
    BY <1>1
  <2>2. CASE j < k
    <3>1. j \in 1 .. n - 1
      BY <1>1, <2>2
    <3> QED  BY <1>2, <2>1, <2>2, <3>1
  <2>3. CASE j > k
    <3>1. PICK i \in 1 .. n - 1 : j = i + 1 /\ ~(i < k)
      <4>1. j - 1 \in 1 .. n - 1 /\ j = (j - 1) + 1 /\ ~(j - 1 < k)
        BY <1>1, <2>3
      <4> QED  BY <4>1
    <3> QED  BY <1>2, <2>1, <3>1
  <2> QED  BY <1>1, <2>1, <2>2, <2>3
<1>12. u.head = IF r = <<>> THEN NULL ELSE r[1]
  <2>1. CASE k = 1
    <3>1. u.head = l.next[s]
      BY <1>3, <1>5, <2>1
    <3>2. CASE n = 1
      BY <1>4, <1>6, <2>1, <3>1, <3>2
    <3>3. CASE n /= 1
      <4>1. 1 \in 1 .. n - 1 /\ ~(1 < k) /\ k + 1 = 1 + 1 /\ k /= n
        BY <1>1, <2>1, <3>3
      <4>2. r[1] = q[1 + 1]
        BY <1>2, <4>1
      <4> QED  BY <1>4, <1>6, <2>1, <3>1, <3>3, <4>1, <4>2
    <3> QED  BY <3>2, <3>3
  <2>2. CASE k /= 1
    <3>1. 1 \in 1 .. n - 1 /\ 1 < k /\ n /= 0 /\ n /= 1 /\ k - 1 \in 1 .. n
      BY <1>1, <2>2
    <3>2. u.head = l.head
      BY <1>1, <1>3, <1>5, <2>2, <3>1
    <3>3. r[1] = q[1]
      BY <1>2, <3>1
    <3> QED  BY <1>1, <1>4, <3>1, <3>2, <3>3
  <2> QED  BY <2>1, <2>2
<1>13. \A i \in 1 .. n - 1 : u.next[r[i]] = IF i = n - 1 THEN NULL ELSE r[i + 1]
  <2> SUFFICES ASSUME NEW i \in 1 .. n - 1
               PROVE  u.next[r[i]] = IF i = n - 1 THEN NULL ELSE r[i + 1]
    OBVIOUS
  <2>1. r[i] \in Slots /\ r[i] /= s
    BY <1>8
  <2>2. i /= n - 1 => r[i + 1] = IF i + 1 < k THEN q[i + 1] ELSE q[i + 1 + 1]
    <3>1. i /= n - 1 => i + 1 \in 1 .. n - 1
      BY <1>1
    <3> QED  BY <1>2, <3>1
  <2>3. CASE i + 1 < k
    <3>1. r[i] = q[i] /\ i /= k - 1 /\ k - 1 \in 1 .. n /\ i /= n - 1
      BY <1>1, <1>2, <2>3
    <3>2. r[i] /= l.prev[s]
      BY <1>1, <1>5, <1>7, <3>1
    <3>3. u.next[r[i]] = l.next[r[i]]
      BY <1>3, <2>1, <3>2
    <3>4. l.next[q[i]] = q[i + 1]
      BY <1>1, <1>7
    <3> QED  BY <2>2, <2>3, <3>1, <3>3, <3>4
  <2>4. CASE i + 1 = k
    <3>1. r[i] = q[i] /\ i = k - 1 /\ k /= 1
      BY <1>1, <1>2, <2>4
    <3>2. u.next[r[i]] = l.next[s]
      BY <1>3, <1>5, <2>1, <3>1
    <3>3. k = n <=> i = n - 1
      BY <1>1, <2>4
    <3>4. ~(i + 1 < k) /\ i + 1 + 1 = k + 1
      BY <1>1, <2>4
    <3> QED  BY <1>6, <2>2, <3>2, <3>3, <3>4
  <2>5. CASE i + 1 > k
    <3>1. r[i] = q[i + 1] /\ i + 1 /= k - 1 /\ (i + 1 = n <=> i = n - 1) /\ ~(i + 1 < k)
      BY <1>1, <1>2, <2>5
    <3>2. r[i] /= l.prev[s]
      <4>1. CASE k = 1
        <5>1. l.prev[s] = NULL /\ r[i] /= NULL
          BY <1>5, <2>1, <4>1, NullNoSlot
        <5> QED  BY <5>1
      <4>2. CASE k /= 1
        <5>1. k - 1 \in 1 .. n
          BY <1>1, <4>2
        <5> QED  BY <1>1, <1>5, <1>7, <3>1, <4>2, <5>1
      <4> QED  BY <4>1, <4>2
    <3>3. u.next[r[i]] = l.next[r[i]]
      BY <1>3, <2>1, <3>2
    <3>4. l.next[q[i + 1]] = IF i + 1 = n THEN NULL ELSE q[i + 1 + 1]
      BY <1>1, <1>7
    <3> QED  BY <2>2, <3>1, <3>3, <3>4
  <2> QED  BY <1>1, <2>3, <2>4, <2>5
<1> HIDE DEF s
<1>14. Threaded(r, u.next, u.head, S \ {s})
  BY <1>2, <1>9, <1>10, <1>11, <1>12, <1>13 DEF Threaded
<1> QED  BY <1>14 DEF r, u, s

(* Appending puts the node at the end.                                     *)
LEMMA AppendedThread ==
  ASSUME NEW l \in Lists, NEW S \in SUBSET Slots, WellLinked(l, S),
         NEW q, Threaded(q, l.next, l.head, S), NEW s \in Slots \ S
  PROVE  Threaded(Append(q, s), Appended(l, s).next, Appended(l, s).head, S \cup {s})
<1> DEFINE n == Len(q)
           r == Append(q, s)
           a == Appended(l, s)
<1>1. /\ n \in Nat /\ q \in Seq(S)
      /\ \A i \in 1 .. n : q[i] \in S /\ q[i] \in Slots /\ q[i] /= NULL
      /\ \A i, j \in 1 .. n : q[i] = q[j] => i = j
      /\ \A t \in S : \E i \in 1 .. n : q[i] = t
      /\ l.head = IF n = 0 THEN NULL ELSE q[1]
      /\ \A i \in 1 .. n : l.next[q[i]] = IF i = n THEN NULL ELSE q[i + 1]
  BY NullNoSlot DEF Threaded
<1>2. /\ r \in Seq(S \cup {s}) /\ Len(r) = n + 1 /\ r[n + 1] = s /\ r /= <<>>
      /\ \A i \in 1 .. n : r[i] = q[i]
  <2>1. q \in Seq(S \cup {s})
    BY <1>1
  <2> QED  BY <1>1, <2>1
<1>3. l.tail = IF n = 0 THEN NULL ELSE q[n]
  <2>1. CASE n = 0
    BY <1>1, <2>1 DEF WellLinked
  <2>2. CASE n /= 0
    <3>1. n \in 1 .. n
      BY <1>1, <2>2
    <3> QED  BY <1>1, <2>2, <3>1 DEF WellLinked
  <2> QED  BY <2>1, <2>2
<1>4. /\ \A t \in Slots : a.next[t] = IF t = s THEN NULL
                                     ELSE IF t = l.tail THEN s ELSE l.next[t]
      /\ a.head = IF l.tail = NULL THEN s ELSE l.head
  BY DEF Appended
<1> HIDE DEF n, r, a
<1>5. \A i \in 1 .. n + 1 : i \in 1 .. n \/ i = n + 1
  BY <1>1
<1>6. \A i, j \in 1 .. n + 1 : r[i] = r[j] => i = j
  BY <1>1, <1>2, <1>5
<1>7. \A t \in S \cup {s} : \E i \in 1 .. n + 1 : r[i] = t
  BY <1>1, <1>2
<1>8. a.head = r[1]
  <2>1. CASE n = 0
    BY <1>2, <1>3, <1>4, <2>1
  <2>2. CASE n /= 0
    <3>1. 1 \in 1 .. n /\ n \in 1 .. n
      BY <1>1, <2>2
    <3> QED  BY <1>1, <1>2, <1>3, <1>4, <2>2, <3>1
  <2> QED  BY <2>1, <2>2
<1>9. \A i \in 1 .. n + 1 : a.next[r[i]] = IF i = n + 1 THEN NULL ELSE r[i + 1]
  <2> SUFFICES ASSUME NEW i \in 1 .. n + 1
               PROVE  a.next[r[i]] = IF i = n + 1 THEN NULL ELSE r[i + 1]
    OBVIOUS
  <2>1. CASE i = n + 1
    BY <1>2, <1>4, <2>1
  <2>2. CASE i = n /\ i \in 1 .. n
    <3>1. r[i] = q[n] /\ r[i + 1] = s /\ i /= n + 1 /\ n /= 0
      BY <1>1, <1>2, <2>2
    <3>2. q[n] \in Slots /\ q[n] /= s /\ l.tail = q[n]
      BY <1>1, <1>3, <2>2, <3>1
    <3> QED  BY <1>4, <3>1, <3>2
  <2>3. CASE i /= n /\ i \in 1 .. n
    <3>1. i + 1 \in 1 .. n /\ n \in 1 .. n /\ n /= 0 /\ i /= n + 1
      BY <1>1, <2>3
    <3>2. r[i] = q[i] /\ r[i + 1] = q[i + 1] /\ l.tail = q[n]
      BY <1>2, <1>3, <2>3, <3>1
    <3>3. q[i] /= q[n] /\ q[i] /= s /\ q[i] \in Slots
      BY <1>1, <2>3, <3>1
    <3>4. a.next[q[i]] = l.next[q[i]]
      BY <1>4, <3>2, <3>3
    <3>5. l.next[q[i]] = q[i + 1]
      BY <1>1, <2>3
    <3> QED  BY <3>1, <3>2, <3>4, <3>5
  <2> QED  BY <1>5, <2>1, <2>2, <2>3
<1>10. Threaded(r, a.next, a.head, S \cup {s})
  BY <1>2, <1>6, <1>7, <1>8, <1>9 DEF Threaded
<1> QED  BY <1>10 DEF r, a

(* A sequence depends on the links of its own slots only.                  *)
LEMMA ThreadedElsewhere ==
  ASSUME NEW q, NEW succ, NEW other, NEW head, NEW S, Threaded(q, succ, head, S),
         \A t \in S : other[t] = succ[t]
  PROVE  Threaded(q, other, head, S)
<1>1. \A i \in 1 .. Len(q) : q[i] \in S
  BY DEF Threaded
<1> QED  BY <1>1 DEF Threaded

(* Unlinking a node of one list of the table, seen from both.              *)
LEMMA UnlinkThreads ==
  ASSUME NEW p, NEW n, NEW a, NEW f,
         NEW A \in SUBSET Slots, NEW F \in SUBSET Slots, A \cap F = {},
         Partition(p, n, a, f, A, F),
         NEW qa, Threaded(qa, n, a.head, A), NEW qf, Threaded(qf, n, f.head, F),
         NEW k \in 1 .. Len(qa)
  PROVE  LET u == Unlink(ListOf(p, n, a), qa[k])
         IN  /\ Threaded(Registry!RemoveAt(qa, k), u.next, Ends(u).head, A \ {qa[k]})
             /\ Threaded(qf, u.next, f.head, F)
<1> DEFINE l == ListOf(p, n, a)
           s == qa[k]
           u == Unlinked(l, s)
<1>1. l \in Lists /\ WellLinked(l, A) /\ l.next = n /\ l.head = a.head
  BY ListOfType DEF Partition, ListOf
<1>2. s \in A
  BY DEF Threaded
<1>3. Unlink(l, s) = u
  BY <1>1, <1>2, NullNoSlot DEF WellLinked, Unlink, IsInList
<1>4. Ends(u).head = u.head
  BY DEF Ends
<1> HIDE DEF l
<1>5. Threaded(Registry!RemoveAt(qa, k), u.next, u.head, A \ {s})
  BY <1>1, UnlinkedThread
<1>6. \A t \in F : u.next[t] = n[t]
  <2> SUFFICES ASSUME NEW t \in F  PROVE u.next[t] = l.next[t]
    BY <1>1
  <2>1. t \in Slots \ A
    OBVIOUS
  <2> HIDE DEF s
  <2> QED  BY <1>1, <1>2, <2>1, UnlinkedElsewhere
<1> HIDE DEF u
<1>7. Threaded(qf, u.next, f.head, F)
  BY <1>6, ThreadedElsewhere
<1> QED  BY <1>3, <1>4, <1>5, <1>7 DEF l

LEMMA AppendThreads ==
  ASSUME NEW p, NEW n, NEW a, NEW f,
         NEW A \in SUBSET Slots, NEW F \in SUBSET Slots, A \cap F = {},
         Partition(p, n, a, f, A, F),
         NEW qa, Threaded(qa, n, a.head, A), NEW qf, Threaded(qf, n, f.head, F),
         NEW s \in Slots \ (A \cup F)
  PROVE  LET u == AddToTail(ListOf(p, n, a), s)
         IN  /\ Threaded(Append(qa, s), u.next, Ends(u).head, A \cup {s})
             /\ Threaded(qf, u.next, f.head, F)
<1> DEFINE l == ListOf(p, n, a)
           u == Appended(l, s)
<1>1. l \in Lists /\ WellLinked(l, A) /\ l.next = n /\ l.head = a.head
  BY ListOfType DEF Partition, ListOf
<1>2. AddToTail(l, s) = u
  BY DEF Partition, Detached, AddToTail, Unlink, IsInList, ListOf
<1>3. Ends(u).head = u.head
  BY DEF Ends
<1> HIDE DEF l
<1>4. Threaded(Append(qa, s), u.next, u.head, A \cup {s})
  BY <1>1, AppendedThread
<1>5. \A t \in F : u.next[t] = n[t]
  <2> SUFFICES ASSUME NEW t \in F  PROVE u.next[t] = l.next[t]
    BY <1>1
  <2>1. t \in Slots \ (A \cup {s})
    OBVIOUS
  <2> QED  BY <1>1, <2>1, AppendedElsewhere
<1> HIDE DEF u
<1>6. Threaded(qf, u.next, f.head, F)
  BY <1>5, ThreadedElsewhere
<1> QED  BY <1>2, <1>3, <1>4, <1>6 DEF l

-----------------------------------------------------------------------------
(* The two sequences of a state.                                           *)
Sequences(qa, qf) ==
  /\ Threaded(qa, next, active.head, ActiveSlots)
  /\ Threaded(qf, next, free.head, FreeSlots)

LEMMA SequencesRead ==
  ASSUME NEW qa, NEW qf, Sequences(qa, qf)
  PROVE  Chain(next, active.head) = qa /\ Chain(next, free.head) = qf
<1>1. ActiveSlots \in SUBSET Slots /\ FreeSlots \in SUBSET Slots
  BY DEF ActiveSlots, FreeSlots
<1> QED  BY <1>1, ChainReads DEF Sequences

LEMMA SequencesReadNext ==
  ASSUME NEW qa, NEW qf, Sequences(qa, qf)'
  PROVE  Chain(next', active'.head) = qa /\ Chain(next', free'.head) = qf
<1>1. ActiveSlots' \in SUBSET Slots /\ FreeSlots' \in SUBSET Slots
  BY DEF ActiveSlots, FreeSlots
<1>2. /\ Threaded(qa, next', active'.head, ActiveSlots')
      /\ Threaded(qf, next', free'.head, FreeSlots')
  BY DEF Sequences
<1> QED  BY <1>1, <1>2, ChainReads

(* Putting e in the slot s, once s is on no list: it comes last.           *)
LEMMA AddSequences ==
  ASSUME IInv, NEW e \in Entities, NEW s \in Slots, pEntity[s] = NULL,
         NEW p, NEW n, NEW f, free' = f,
         Partition(p, n, active, f, ActiveSlots, FreeSlots \ {s}),
         AddEntityAtSlot(e, s, p, n),
         NEW qa, Threaded(qa, n, active.head, ActiveSlots),
         NEW qf, Threaded(qf, n, f.head, FreeSlots \ {s})
  PROVE  Sequences(Append(qa, s), qf)'
<1> DEFINE l == AddToTail(ListOf(p, n, active), s)
<1>1. /\ Threaded(Append(qa, s), l.next, Ends(l).head, ActiveSlots \cup {s})
      /\ Threaded(qf, l.next, f.head, FreeSlots \ {s})
  <2>1. s \in Slots \ (ActiveSlots \cup (FreeSlots \ {s}))
    BY DEF ActiveSlots
  <2>2. ActiveSlots \in SUBSET Slots /\ FreeSlots \ {s} \in SUBSET Slots
        /\ ActiveSlots \cap (FreeSlots \ {s}) = {}
    BY DEF ActiveSlots, FreeSlots
  <2> QED  BY <2>1, <2>2, AppendThreads
<1>2. next' = l.next /\ active' = Ends(l) /\ pEntity' = [pEntity EXCEPT ![s] = e]
  BY DEF AddEntityAtSlot
<1> HIDE DEF l
<1>3. ActiveSlots' = ActiveSlots \cup {s} /\ FreeSlots' = FreeSlots \ {s}
  BY <1>2, NullAssumption DEF ActiveSlots, FreeSlots, IInv, TypeOK
<1> QED  BY <1>1, <1>2, <1>3 DEF Sequences

(* Nobody is registered before it is constructed.                          *)
LEMMA NotRegistered ==
  ASSUME IInv, NEW e \in Entities, e \notin live
  PROVE  ~Registry!Registered(e)
BY NullAssumption DEF IInv, NoDanglingEntry, TypeOK, Registry!Registered

LEMMA NetworkableRefines ==
  ASSUME IInv, NEW e \in Entities, NEW s \in Slots, AddNetworkableEntity(e, s),
         NEW qa, NEW qf, Sequences(qa, qf)
  PROVE  /\ Sequences(Append(qa, s), qf)'
         /\ Registry!RegisterNetworkable(e, s)
<1>1. /\ e \notin live /\ s < MaxEdicts /\ pEntity[s] = NULL
      /\ AddEntityAtSlot(e, s, prev, next) /\ free' = free
  BY DEF AddNetworkableEntity
<1>2. FreeSlots \ {s} = FreeSlots
  BY <1>1, SizesAssumption DEF FreeSlots, FirstFree, Slots
<1>3. Partition(prev, next, active, free, ActiveSlots, FreeSlots \ {s})
  BY <1>2, StatePartition DEF IInv
<1>4. Sequences(Append(qa, s), qf)'
  BY <1>1, <1>2, <1>3, AddSequences DEF Sequences
<1>5. /\ Chain(next, active.head) = qa /\ Chain(next, free.head) = qf
      /\ Chain(next', active'.head) = Append(qa, s) /\ Chain(next', free'.head) = qf
  BY <1>4, SequencesRead, SequencesReadNext
<1>6. pEntity' = [pEntity EXCEPT ![s] = e]
  BY <1>1 DEF AddEntityAtSlot
<1> QED
  BY <1>1, <1>4, <1>5, <1>6, NotRegistered
     DEF Registry!RegisterNetworkable, Registry!Occupy

LEMMA NonNetworkableRefines ==
  ASSUME IInv, NEW e \in Entities, AddNonNetworkableEntity(e),
         NEW qa, NEW qf, Sequences(qa, qf), NEW s, s = free.head
  PROVE  /\ Sequences(Append(qa, s), Tail(qf))'
         /\ Registry!RegisterServerOnly(e)
<1> DEFINE u == Unlink(ListOf(prev, next, free), s)
<1>1. /\ e \notin live /\ s /= NULL /\ free' = Ends(u)
      /\ AddEntityAtSlot(e, s, u.prev, u.next)
  BY DEF AddNonNetworkableEntity
<1>2. Partition(prev, next, free, active, FreeSlots, ActiveSlots)
  BY StatePartition, PartitionSwap DEF IInv
<1>3. FreeSlots \in SUBSET Slots /\ ActiveSlots \in SUBSET Slots
      /\ FreeSlots \cap ActiveSlots = {}
  BY DEF FreeSlots, ActiveSlots
<1>4. /\ qf \in Seq(FreeSlots) /\ qf /= <<>> /\ s = qf[1] /\ 1 \in 1 .. Len(qf)
      /\ s \in FreeSlots
  <2>1. qf \in Seq(FreeSlots) /\ s = IF qf = <<>> THEN NULL ELSE qf[1]
    BY DEF Sequences, Threaded
  <2>2. qf /= <<>>
    BY <1>1, <2>1
  <2>3. Len(qf) \in Nat /\ Len(qf) /= 0
    BY <2>1, <2>2
  <2> QED  BY <2>1, <2>2, <2>3
<1>5. Registry!RemoveAt(qf, 1) = Tail(qf)
  <2> DEFINE r == Registry!RemoveAt(qf, 1)
  <2>1. /\ r \in Seq(FreeSlots) /\ Len(r) = Len(qf) - 1
        /\ \A i \in 1 .. Len(qf) - 1 : r[i] = IF i < 1 THEN qf[i] ELSE qf[i + 1]
    BY <1>4, RemovedAt
  <2> HIDE DEF r
  <2>2. Tail(qf) \in Seq(FreeSlots) /\ Len(Tail(qf)) = Len(qf) - 1
        /\ \A i \in 1 .. Len(qf) - 1 : Tail(qf)[i] = qf[i + 1]
    BY <1>4
  <2>3. r = Tail(qf)
    BY <2>1, <2>2
  <2> QED  BY <2>3 DEF r
<1>6. /\ Threaded(Tail(qf), u.next, Ends(u).head, FreeSlots \ {s})
      /\ Threaded(qa, u.next, active.head, ActiveSlots)
  <2>1. Threaded(qf, next, free.head, FreeSlots) /\ Threaded(qa, next, active.head, ActiveSlots)
    BY DEF Sequences
  <2>2. LET v == Unlink(ListOf(prev, next, free), qf[1])
        IN  /\ Threaded(Registry!RemoveAt(qf, 1), v.next, Ends(v).head, FreeSlots \ {qf[1]})
            /\ Threaded(qa, v.next, active.head, ActiveSlots)
    BY <1>2, <1>3, <1>4, <2>1, UnlinkThreads
  <2> QED  BY <1>4, <1>5, <2>2
<1>7. Partition(u.prev, u.next, Ends(u), active, FreeSlots \ {s}, ActiveSlots)
  BY <1>2, <1>3, <1>4, UnlinkActive
<1>8. s \in Slots /\ pEntity[s] = NULL
  BY <1>4 DEF FreeSlots
<1> HIDE DEF u
<1>9. Partition(u.prev, u.next, active, Ends(u), ActiveSlots, FreeSlots \ {s})
  BY <1>7, PartitionSwap
<1>10. Sequences(Append(qa, s), Tail(qf))'
  BY <1>1, <1>6, <1>8, <1>9, AddSequences
<1>11. /\ Chain(next, active.head) = qa /\ Chain(next, free.head) = qf
       /\ Chain(next', active'.head) = Append(qa, s) /\ Chain(next', free'.head) = Tail(qf)
  BY <1>10, SequencesRead, SequencesReadNext
<1>12. pEntity' = [pEntity EXCEPT ![s] = e]
  BY <1>1 DEF AddEntityAtSlot
<1>13. Head(qf) = s
  BY <1>4
<1>14. Registry!RegisterServerOnly(e)
  BY <1>1, <1>4, <1>8, <1>11, <1>12, <1>13, NotRegistered
     DEF Registry!RegisterServerOnly, Registry!Occupy
<1> QED  BY <1>10, <1>14

(* Vacating slot s, at place k of the active list, takes it out there and  *)
(* puts it last among the slots without an edict if it is one of them.     *)
LEMMA DestroyRefines ==
  ASSUME IInv, NEW e \in Entities, Destroy(e),
         NEW s, s = GetEntryIndex(ref[e]), pEntity[s] /= NULL,
         NEW qa, NEW qf, Sequences(qa, qf)
  PROVE  /\ \E ra, rf : Sequences(ra, rf)'
         /\ s \in Slots /\ Registry!Unregister(s)
<1> DEFINE out == Unlink(ListOf(prev, next, active), s)
           back == AddToTail(ListOf(out.prev, out.next, free), s)
<1> USE NullAssumption
<1>1. /\ pEntity' = [pEntity EXCEPT ![s] = NULL]
      /\ active' = Ends(out)
      /\ next' = IF s >= MaxEdicts THEN back.next ELSE out.next
      /\ free' = IF s >= MaxEdicts THEN Ends(back) ELSE free
  BY DEF Destroy, RemoveEntityAtSlot
<1>2. s \in Slots /\ s \in ActiveSlots /\ s /= MaxEdicts
  <2>1. ref[e] \in Handle /\ NumEntries - 1 \in Slots
    BY SizesAssumption DEF IInv, TypeOK, Slots
  <2>2. s \in Slots
    BY <2>1, InvalidNoEntry DEF GetEntryIndex
  <2> QED  BY <2>2 DEF ActiveSlots, IInv, UnusedSlot, TypeOK
<1>3. /\ ActiveSlots \in SUBSET Slots /\ FreeSlots \in SUBSET Slots
      /\ ActiveSlots \cap FreeSlots = {}
  BY DEF ActiveSlots, FreeSlots
<1>4. PICK k \in 1 .. Len(qa) : qa[k] = s
  BY <1>2 DEF Sequences, Threaded
<1> DEFINE ra == Registry!RemoveAt(qa, k)
           rf == IF s >= MaxEdicts THEN Append(qf, s) ELSE qf
<1>5. Partition(out.prev, out.next, Ends(out), free, ActiveSlots \ {s}, FreeSlots)
      /\ Threaded(ra, out.next, Ends(out).head, ActiveSlots \ {s})
      /\ Threaded(qf, out.next, free.head, FreeSlots)
  <2>1. Partition(prev, next, active, free, ActiveSlots, FreeSlots)
    BY StatePartition DEF IInv
  <2>2. Threaded(qa, next, active.head, ActiveSlots) /\ Threaded(qf, next, free.head, FreeSlots)
    BY DEF Sequences
  <2>3. Partition(out.prev, out.next, Ends(out), free, ActiveSlots \ {s}, FreeSlots)
    BY <1>2, <1>3, <2>1, UnlinkActive
  <2>4. LET u == Unlink(ListOf(prev, next, active), qa[k])
        IN  /\ Threaded(Registry!RemoveAt(qa, k), u.next, Ends(u).head, ActiveSlots \ {qa[k]})
            /\ Threaded(qf, u.next, free.head, FreeSlots)
    BY <1>3, <2>1, <2>2, UnlinkThreads
  <2> QED  BY <1>4, <2>3, <2>4
<1> HIDE DEF out
<1>6. /\ Threaded(Append(qf, s), back.next, Ends(back).head, FreeSlots \cup {s})
      /\ Threaded(ra, back.next, Ends(out).head, ActiveSlots \ {s})
  <2>1. Partition(out.prev, out.next, free, Ends(out), FreeSlots, ActiveSlots \ {s})
    BY <1>5, PartitionSwap
  <2>2. /\ ActiveSlots \ {s} \in SUBSET Slots
        /\ FreeSlots \cap (ActiveSlots \ {s}) = {}
        /\ s \in Slots \ (FreeSlots \cup (ActiveSlots \ {s}))
    BY <1>2, <1>3
  <2> HIDE DEF ra
  <2> QED  BY <1>3, <1>5, <2>1, <2>2, AppendThreads
<1> HIDE DEF back
<1>7. /\ ActiveSlots' = ActiveSlots \ {s}
      /\ FreeSlots' = IF s >= MaxEdicts THEN FreeSlots \cup {s} ELSE FreeSlots
  BY <1>1, <1>2, SizesAssumption
     DEF ActiveSlots, FreeSlots, FirstFree, IInv, TypeOK, Slots
<1>8. Sequences(ra, rf)'
  <2>1. CASE s >= MaxEdicts
    BY <1>1, <1>6, <1>7, <2>1 DEF Sequences
  <2>2. CASE ~(s >= MaxEdicts)
    BY <1>1, <1>5, <1>7, <2>2 DEF Sequences
  <2> QED  BY <2>1, <2>2
<1>9. /\ Chain(next, active.head) = qa /\ Chain(next, free.head) = qf
      /\ Chain(next', active'.head) = ra /\ Chain(next', free'.head) = rf
  <2> HIDE DEF ra, rf
  <2> QED  BY <1>8, SequencesRead, SequencesReadNext
<1>10. DOMAIN qa = 1 .. Len(qa)
  BY DEF Sequences, Threaded
<1>11. rf = IF s < MaxEdicts THEN qf ELSE Append(qf, s)
  BY <1>2, SizesAssumption DEF Slots
<1>12. Registry!Unregister(s)
  <2> HIDE DEF rf
  <2> QED  BY <1>1, <1>4, <1>9, <1>10, <1>11 DEF Registry!Unregister
<1>13. \E xa, xf : Sequences(xa, xf)'
  <2> HIDE DEF ra, rf
  <2> QED  BY <1>8
<1> QED  BY <1>2, <1>12, <1>13

(* Every step is one of the registry, or changes nothing it speaks of.     *)
LEMMA StepRefines ==
  ASSUME IInv, NEW qa, NEW qf, Sequences(qa, qf), [Next]_vars
  PROVE  /\ \E ra, rf : Sequences(ra, rf)'
         /\ [Registry!Next]_Registry!vars
<1>1. DOMAIN pEntity = Slots
  BY DEF IInv, TypeOK
<1>2. ASSUME UNCHANGED <<pEntity, next, active, free>>
      PROVE  Sequences(qa, qf)' /\ UNCHANGED Registry!vars
  BY <1>2 DEF Sequences, ActiveSlots, FreeSlots, Registry!vars
<1>3. ASSUME NEW e \in Entities, NEW s \in Slots, AddNetworkableEntity(e, s)
      PROVE  (\E ra, rf : Sequences(ra, rf)') /\ Registry!Next
  BY <1>1, <1>3, NetworkableRefines DEF Registry!Next
<1>4. ASSUME NEW e \in Entities, AddNonNetworkableEntity(e)
      PROVE  (\E ra, rf : Sequences(ra, rf)') /\ Registry!Next
  BY <1>4, NonNetworkableRefines DEF Registry!Next
<1>5. ASSUME NEW e \in Entities, Destroy(e), pEntity[GetEntryIndex(ref[e])] /= NULL
      PROVE  (\E ra, rf : Sequences(ra, rf)') /\ Registry!Next
  BY <1>1, <1>5, DestroyRefines DEF Registry!Next
<1>6. ASSUME NEW e \in Entities, Destroy(e), pEntity[GetEntryIndex(ref[e])] = NULL
      PROVE  UNCHANGED <<pEntity, next, active, free>>
  BY <1>6 DEF Destroy, links
<1>7. ASSUME NEW e \in Entities,
             \/ AddNonNetworkableEntityFails(e)
             \/ ConstructWithoutEdict(e)
             \/ \E c \in Holders : HoldHandle(c, e)
      PROVE  UNCHANGED <<pEntity, next, active, free>>
  BY <1>7 DEF AddNonNetworkableEntityFails, ConstructWithoutEdict, HoldHandle, links
<1>8. CASE UNCHANGED vars
  BY <1>2, <1>8 DEF vars, links
<1>9. CASE Next
  BY <1>2, <1>3, <1>4, <1>5, <1>6, <1>7, <1>9 DEF Next
<1> QED  BY <1>8, <1>9

(* The free list of the constructor.                                       *)
LEMMA FirstSequences ==
  ASSUME Init
  PROVE  (\E qa, qf : Sequences(qa, qf)) /\ Registry!Init
<1> DEFINE n == NumEntries - 1 - MaxEdicts
           q == [k \in 1 .. n |-> MaxEdicts + k]
<1>1. n \in Nat /\ NumEntries \in Nat /\ MaxEdicts \in Nat
  BY SizesAssumption
<1>2. /\ pEntity = [s \in Slots |-> NULL]
      /\ next = [s \in Slots |-> IF s < FirstFree THEN s
                                 ELSE IF s = NumEntries - 1 THEN NULL ELSE s + 1]
      /\ active.head = NULL
      /\ free.head = IF FirstFree < NumEntries THEN FirstFree ELSE NULL
  BY DEF Init
<1>3. ActiveSlots = {} /\ FreeSlots = {s \in Slots : s >= FirstFree}
  BY <1>2 DEF ActiveSlots, FreeSlots
<1>4. Threaded(<<>>, next, active.head, ActiveSlots)
  BY <1>2, <1>3 DEF Threaded
<1>5. Threaded(q, next, free.head, FreeSlots)
  <2>1. \A k \in 1 .. n : MaxEdicts + k \in FreeSlots
    BY <1>1, <1>3 DEF Slots, FirstFree
  <2>2. q \in Seq(FreeSlots) /\ Len(q) = n
    BY <1>1, <2>1
  <2>3. \A k \in 1 .. n : q[k] = MaxEdicts + k
    OBVIOUS
  <2>4. q = <<>> <=> n = 0
    <3> HIDE DEF q, n
    <3> QED  BY <2>2
  <2> HIDE DEF q, n
  <2>5. \A i, j \in 1 .. n : q[i] = q[j] => i = j
    BY <1>1, <2>3
  <2>6. \A t \in FreeSlots : \E i \in 1 .. n : q[i] = t
    <3> SUFFICES ASSUME NEW t \in FreeSlots  PROVE \E i \in 1 .. n : q[i] = t
      OBVIOUS
    <3>1. t - MaxEdicts \in 1 .. n /\ MaxEdicts + (t - MaxEdicts) = t
      BY <1>1, <1>3 DEF Slots, FirstFree, n
    <3> QED  BY <2>3, <3>1
  <2>7. free.head = IF q = <<>> THEN NULL ELSE q[1]
    <3>1. FirstFree < NumEntries <=> n /= 0
      BY <1>1 DEF FirstFree, n
    <3>2. n /= 0 => 1 \in 1 .. n
      BY <1>1
    <3> QED  BY <1>2, <2>3, <2>4, <3>1, <3>2 DEF FirstFree
  <2>8. \A i \in 1 .. n : next[q[i]] = IF i = n THEN NULL ELSE q[i + 1]
    <3> SUFFICES ASSUME NEW i \in 1 .. n
                 PROVE  next[q[i]] = IF i = n THEN NULL ELSE q[i + 1]
      OBVIOUS
    <3>1. q[i] = MaxEdicts + i /\ q[i] \in Slots /\ ~(q[i] < FirstFree)
      BY <1>1, <1>3, <2>1, <2>3 DEF FirstFree
    <3>2. q[i] = NumEntries - 1 <=> i = n
      BY <1>1, <3>1 DEF n
    <3>3. i /= n => q[i + 1] = q[i] + 1
      <4>1. i /= n => i + 1 \in 1 .. n
        BY <1>1
      <4> QED  BY <1>1, <2>3, <3>1, <4>1
    <3> QED  BY <1>2, <3>1, <3>2, <3>3
  <2> QED  BY <2>2, <2>5, <2>6, <2>7, <2>8 DEF Threaded
<1>6. Sequences(<<>>, q)
  BY <1>4, <1>5 DEF Sequences
<1>7. Chain(next, active.head) = <<>> /\ Chain(next, free.head) = q
  <2> HIDE DEF q
  <2> QED  BY <1>6, SequencesRead
<1>8. Registry!Init
  BY <1>2, <1>7 DEF Registry!Init, Slots
<1>9. \E qa, qf : Sequences(qa, qf)
  <2> HIDE DEF q
  <2> QED  BY <1>6
<1> QED  BY <1>8, <1>9

(* The table keeps the promise of EntityRegistry, whatever its size:       *)
(* registrations are listed in order, removal takes out exactly one entry, *)
(* and slots without an edict are reused first in, first out.              *)
THEOREM ListImplementsRegistry == Spec => ImplementsRegistry
<1> DEFINE Inv == IInv /\ \E qa, qf : Sequences(qa, qf)
<1>1. Init => Inv /\ Registry!Init
  BY InitIInv, FirstSequences
<1>2. ASSUME Inv, [Next]_vars  PROVE Inv' /\ [Registry!Next]_Registry!vars
  <2>1. PICK qa, qf : Sequences(qa, qf)
    BY <1>2
  <2>2. (\E ra, rf : Sequences(ra, rf)') /\ [Registry!Next]_Registry!vars
    BY <1>2, <2>1, StepRefines
  <2>3. IInv'
    BY <1>2, NextKeeps
  <2> QED  BY <2>2, <2>3
<1> QED  BY <1>1, <1>2, PTL DEF Spec, ImplementsRegistry, Registry!Spec
=============================================================================
