-------------------------- MODULE ServerFrameProofs --------------------------
(***************************************************************************)
(* Proofs about ServerFrame, for any set of entities, any number of think  *)
(* functions, ticks and touches: the list of thinks is never out of date   *)
(* and no think is late, no marked entity outlives its frame, no touch     *)
(* goes unchecked, and no list points at an entity that is destroyed, but  *)
(* for the entities that players simulate.                                 *)
(***************************************************************************)
EXTENDS ServerFrame, SequenceTheorems, WellFoundedInduction, TLAPS

Entries == [ent : Ents, tick : Ticks]
ThinkLists == [list : Seq(Entries), index : [Ents -> Nat]]

(* The functions an entity has are think functions. *)
LEMMA FunctionsOfProperties == \A e : FunctionsOf(e) \subseteq Functions
  BY FrameConstants DEF FunctionsOf, Functions

(* A set of natural numbers has a least element. *)
LEMMA LeastNatural ==
  ASSUME NEW S, S \subseteq Nat, S # {}
  PROVE  \E m \in S : \A k \in S : m <= k
<1> DEFINE R == OpToRel(<, Nat)
<1>1. IsWellFoundedOn(R, Nat)
  BY NatLessThanWellFounded
<1>2. \A x, y \in Nat : x < y => <<x, y>> \in R
  BY DEF OpToRel
<1> HIDE DEF R
<1>3. PICK m \in S : \A k \in S : ~ (<<k, m>> \in R)
  BY <1>1, WFMin
<1>4. \A k \in S : m <= k
  <2> SUFFICES ASSUME NEW k \in S PROVE m <= k
    OBVIOUS
  <2>1. k \in Nat /\ m \in Nat
    OBVIOUS
  <2>2. ~(k < m)
    BY <1>2, <1>3, <2>1
  <2> QED BY <2>1, <2>2
<1> QED BY <1>4

(* A sequence without its last entry, which takes the place of another. *)
LEMMA FastRemoveProperties ==
  ASSUME NEW S, NEW s \in Seq(S), NEW hole \in 1 .. Len(s), NEW cut,
         cut = [i \in 1 .. Len(s) - 1 |-> s[IF i = hole THEN Len(s) ELSE i]]
  PROVE  /\ cut \in Seq(S)
         /\ Len(cut) = Len(s) - 1
         /\ \A i \in 1 .. Len(s) - 1 : cut[i] = s[IF i = hole THEN Len(s) ELSE i]
<1>1. Len(s) \in Nat /\ Len(s) - 1 \in Nat
  BY LenProperties
<1>2. \A i \in 1 .. Len(s) - 1 : (IF i = hole THEN Len(s) ELSE i) \in 1 .. Len(s)
  BY <1>1
<1>3. \A i \in 1 .. Len(s) - 1 : cut[i] \in S
  BY <1>1, <1>2, ElementOfSeq
<1>4. cut \in [1 .. Len(s) - 1 -> S]
  BY <1>3
<1>5. cut \in Seq(S)
  BY <1>1, <1>4, SeqDef
<1>6. DOMAIN cut = 1 .. Len(s) - 1
  BY <1>4
<1> QED BY <1>1, <1>5, <1>6, LenProperties

(* The first tick of an entity is the least of those above 0, or Never. *)
LEMMA FirstTickProperties ==
  ASSUME NEW ticks \in [Functions -> Ticks]
  PROVE  /\ GetFirstThinkTick(ticks) \in Ticks
         /\ \A c \in Functions : ticks[c] > 0 =>
               /\ GetFirstThinkTick(ticks) \in Nat
               /\ GetFirstThinkTick(ticks) <= ticks[c]
<1> DEFINE set == {t \in {ticks[c] : c \in Functions} : t > 0}
<1>1. set \subseteq Nat
  BY DEF Ticks, Never
<1>2. CASE set = {}
  BY <1>2 DEF GetFirstThinkTick, Ticks
<1>3. CASE set # {}
  <2>1. \E t \in set : \A u \in set : t <= u
    <3> HIDE DEF set
    <3> QED BY <1>1, <1>3, LeastNatural
  <2>2. GetFirstThinkTick(ticks) = CHOOSE t \in set : \A u \in set : t <= u
    BY <1>3 DEF GetFirstThinkTick
  <2>3. /\ GetFirstThinkTick(ticks) \in set
        /\ \A u \in set : GetFirstThinkTick(ticks) <= u
    <3> HIDE DEF set
    <3> QED BY <2>1, <2>2
  <2> QED BY <1>1, <2>3 DEF Ticks
<1> QED BY <1>2, <1>3

(* Taking e out of the list leaves list and index matched and the entries  *)
(* of the other entities what they are.                                    *)
LEMMA RemoveEntinfoIndexProperties ==
  ASSUME NEW s \in ThinkLists, Matches(s), NEW e \in Ents,
         NEW r, r = RemoveEntinfoIndex(s, e)
  PROVE  /\ r \in ThinkLists
         /\ Matches(r)
         /\ r.index[e] = 0
         /\ \A f \in Ents \ {e} :
               /\ r.index[f] = 0 <=> s.index[f] = 0
               /\ s.index[f] # 0 => r.list[r.index[f]] = s.list[s.index[f]]
<1>1. CASE s.index[e] = 0
  BY <1>1 DEF RemoveEntinfoIndex
<1>2. CASE s.index[e] # 0
  <2> DEFINE hole == s.index[e]
             last == Len(s.list)
             cut == [i \in 1 .. last - 1 |-> s.list[IF i = hole THEN last ELSE i]]
             gone == [s.index EXCEPT ![e] = 0]
             index == IF hole < last THEN [gone EXCEPT ![s.list[last].ent] = hole]
                      ELSE gone
  <2>1. /\ s.list \in Seq(Entries) /\ s.index \in [Ents -> Nat]
        /\ last \in Nat /\ DOMAIN s.list = 1 .. last
    BY LenProperties DEF ThinkLists
  <2>2. hole \in 1 .. last /\ s.list[hole].ent = e
    BY <1>2, <2>1 DEF Matches
  <2>3. /\ cut \in Seq(Entries)
        /\ Len(cut) = last - 1 /\ DOMAIN cut = 1 .. last - 1
        /\ \A i \in 1 .. last - 1 : cut[i] = s.list[IF i = hole THEN last ELSE i]
    BY <2>1, <2>2, FastRemoveProperties
  <2>4. r = [list |-> cut, index |-> index]
    BY <1>2 DEF RemoveEntinfoIndex
  <2>5. s.list[last].ent \in Ents /\ (hole < last => s.list[last].ent # e)
    <3>1. last \in 1 .. last
      BY <2>1, <2>2
    <3>2. s.list[last] \in Entries
      BY <2>1, <3>1, ElementOfSeq
    <3>3. s.index[s.list[last].ent] = last
      BY <2>1, <3>1 DEF Matches
    <3> QED BY <3>2, <3>3 DEF Entries
  <2>6. /\ index \in [Ents -> Nat]
        /\ index[e] = 0
        /\ \A f \in Ents \ {e} :
              index[f] = IF hole < last /\ f = s.list[last].ent THEN hole
                         ELSE s.index[f]
    BY <2>1, <2>2, <2>5
  <2> HIDE DEF index, cut, gone
  <2>7. r \in ThinkLists /\ r.list = cut /\ r.index = index
    BY <2>3, <2>4, <2>6 DEF ThinkLists
  <2>8. \A f \in Ents \ {e} : s.index[f] # 0 =>
          /\ s.index[f] \in 1 .. last /\ s.list[s.index[f]].ent = f
          /\ s.index[f] # hole
          /\ s.index[f] = last <=> f = s.list[last].ent
    <3> SUFFICES ASSUME NEW f \in Ents \ {e}, s.index[f] # 0
                 PROVE  /\ s.index[f] \in 1 .. last /\ s.list[s.index[f]].ent = f
                        /\ s.index[f] # hole
                        /\ s.index[f] = last <=> f = s.list[last].ent
      OBVIOUS
    <3>1. s.index[f] \in 1 .. last /\ s.list[s.index[f]].ent = f
      BY <2>1 DEF Matches
    <3>2. s.index[s.list[last].ent] = last
      BY <2>1, <2>2 DEF Matches
    <3> QED BY <2>2, <3>1, <3>2
  <2>9. \A f \in Ents \ {e} :
          /\ index[f] = 0 <=> s.index[f] = 0
          /\ s.index[f] # 0 => /\ index[f] \in 1 .. last - 1
                               /\ cut[index[f]] = s.list[s.index[f]]
    <3> SUFFICES ASSUME NEW f \in Ents \ {e}
                 PROVE  /\ index[f] = 0 <=> s.index[f] = 0
                        /\ s.index[f] # 0 => /\ index[f] \in 1 .. last - 1
                                             /\ cut[index[f]] = s.list[s.index[f]]
      OBVIOUS
    <3>1. CASE s.index[f] = 0
      <4>1. f # s.list[last].ent
        <5>1. s.index[s.list[last].ent] = last
          BY <2>1, <2>2 DEF Matches
        <5> QED BY <2>2, <3>1, <5>1
      <4> QED BY <2>6, <3>1, <4>1
    <3>2. CASE s.index[f] # 0
      BY <2>1, <2>2, <2>3, <2>6, <2>8, <3>2
    <3> QED BY <3>1, <3>2
  <2>10. \A i \in 1 .. last - 1 : index[cut[i].ent] = i
    <3> SUFFICES ASSUME NEW i \in 1 .. last - 1 PROVE index[cut[i].ent] = i
      OBVIOUS
    <3> DEFINE old == IF i = hole THEN last ELSE i
    <3>1. old \in 1 .. last /\ cut[i] = s.list[old]
      BY <2>1, <2>3
    <3>2. s.list[old] \in Entries /\ s.index[s.list[old].ent] = old
      BY <2>1, <3>1, ElementOfSeq DEF Matches
    <3>3. old # hole
      BY <2>2
    <3>4. s.list[old].ent \in Ents \ {e}
      BY <2>2, <3>2, <3>3 DEF Entries
    <3>5. s.index[s.list[last].ent] = last
      BY <2>1, <2>2 DEF Matches
    <3> QED BY <2>1, <2>2, <2>6, <3>1, <3>2, <3>4, <3>5
  <2>11. Matches(r)
    <3>1. \A f \in Ents : index[f] # 0 => index[f] \in 1 .. last - 1 /\ cut[index[f]].ent = f
      BY <2>6, <2>8, <2>9
    <3> QED BY <2>3, <2>7, <2>10, <3>1 DEF Matches
  <2> QED BY <2>6, <2>7, <2>9, <2>11
<1> QED BY <1>1, <1>2

(* The entry EntityChanged makes for e. *)
EntryOf(e, moves, ticks) ==
  [ent |-> e, tick |-> IF e \in moves THEN 0 ELSE GetFirstThinkTick(ticks[e])]

(* EntityChanged gives e the entry that goes with its flags, or none, and  *)
(* leaves the entries of the other entities what they are.                 *)
LEMMA EntityChangedProperties ==
  ASSUME NEW s \in ThinkLists, Matches(s), NEW e \in Ents,
         NEW dead, NEW still, NEW moves,
         NEW ticks \in [Ents -> [Functions -> Ticks]],
         NEW r, r = EntityChanged(s, e, dead, still, moves, ticks)
  PROVE  /\ r \in ThinkLists
         /\ Matches(r)
         /\ e \in dead => r = s
         /\ e \notin dead =>
               IF e \in still /\ e \notin moves THEN r.index[e] = 0
               ELSE r.index[e] # 0 /\ r.list[r.index[e]] = EntryOf(e, moves, ticks)
         /\ \A f \in Ents \ {e} :
               /\ r.index[f] = 0 <=> s.index[f] = 0
               /\ s.index[f] # 0 => r.list[r.index[f]] = s.list[s.index[f]]
<1> DEFINE entry == EntryOf(e, moves, ticks)
<1>1. /\ s.list \in Seq(Entries) /\ s.index \in [Ents -> Nat]
      /\ Len(s.list) \in Nat /\ DOMAIN s.list = 1 .. Len(s.list)
  BY LenProperties DEF ThinkLists
<1>2. entry \in Entries /\ entry.ent = e
  <2>1. GetFirstThinkTick(ticks[e]) \in Ticks
    BY FirstTickProperties
  <2> QED BY <2>1 DEF EntryOf, Entries, Ticks
<1> HIDE DEF entry
<1>3. \A f \in Ents : s.index[f] # 0 =>
         s.index[f] \in 1 .. Len(s.list) /\ s.list[s.index[f]].ent = f
  BY <1>1 DEF Matches
<1>4. \A i \in 1 .. Len(s.list) : /\ s.list[i].ent \in Ents
                                  /\ s.index[s.list[i].ent] = i
  <2>1. \A i \in 1 .. Len(s.list) : s.list[i] \in Entries
    BY <1>1, ElementOfSeq
  <2> QED BY <1>1, <2>1 DEF Matches, Entries
<1>5. CASE e \in dead
  BY <1>5 DEF EntityChanged
<1>6. CASE e \notin dead /\ e \in still /\ e \notin moves
  BY <1>6, RemoveEntinfoIndexProperties DEF EntityChanged
<1>7. CASE e \notin dead /\ ~(e \in still /\ e \notin moves) /\ s.index[e] = 0
  <2>1. r = [list |-> Append(s.list, entry),
             index |-> [s.index EXCEPT ![e] = Len(s.list) + 1]]
    BY <1>7 DEF EntityChanged, EntryOf, entry
  <2> DEFINE longer == Append(s.list, entry)
             index == [s.index EXCEPT ![e] = Len(s.list) + 1]
  <2>2. /\ longer \in Seq(Entries) /\ Len(longer) = Len(s.list) + 1
        /\ \A i \in 1 .. Len(s.list) : longer[i] = s.list[i]
        /\ longer[Len(s.list) + 1] = entry
    BY <1>1, <1>2, AppendProperties
  <2>3. DOMAIN longer = 1 .. Len(s.list) + 1
    BY <2>2, LenProperties
  <2>4. /\ index \in [Ents -> Nat] /\ index[e] = Len(s.list) + 1
        /\ \A f \in Ents \ {e} : index[f] = s.index[f]
    BY <1>1
  <2>5. r.list = longer /\ r.index = index /\ r \in ThinkLists
    BY <2>1, <2>2, <2>4 DEF ThinkLists
  <2> HIDE DEF longer, index
  <2>6. Matches(r)
    <3> DEFINE n == Len(s.list)
    <3>0. n \in Nat
      BY <1>1
    <3> HIDE DEF n
    <3>1. \A f \in Ents : index[f] # 0 => index[f] \in 1 .. n + 1 /\ longer[index[f]].ent = f
      <4> SUFFICES ASSUME NEW f \in Ents, index[f] # 0
                   PROVE  index[f] \in 1 .. n + 1 /\ longer[index[f]].ent = f
        OBVIOUS
      <4>1. CASE f = e
        BY <1>2, <2>2, <2>4, <3>0, <4>1 DEF n
      <4>2. CASE f # e
        <5>1. s.index[f] \in 1 .. n /\ s.list[s.index[f]].ent = f /\ index[f] = s.index[f]
          BY <1>3, <2>4, <4>2 DEF n
        <5>2. longer[index[f]] = s.list[s.index[f]]
          BY <2>2, <5>1 DEF n
        <5> QED BY <3>0, <5>1, <5>2
      <4> QED BY <4>1, <4>2
    <3>2. \A i \in 1 .. n + 1 : index[longer[i].ent] = i
      <4> SUFFICES ASSUME NEW i \in 1 .. n + 1 PROVE index[longer[i].ent] = i
        OBVIOUS
      <4>1. CASE i = n + 1
        BY <1>2, <2>2, <2>4, <4>1 DEF n
      <4>2. CASE i \in 1 .. n
        <5>1. longer[i] = s.list[i] /\ s.list[i].ent # e
          BY <1>4, <1>7, <2>2, <4>2 DEF n
        <5> QED BY <1>4, <2>4, <4>2, <5>1 DEF n
      <4> QED BY <3>0, <4>1, <4>2
    <3> QED BY <2>3, <2>5, <3>1, <3>2 DEF Matches, n
  <2>7. \A f \in Ents \ {e} : s.index[f] # 0 => longer[index[f]] = s.list[s.index[f]]
    BY <1>3, <2>2, <2>4
  <2> QED BY <1>1, <1>7, <2>2, <2>4, <2>5, <2>6, <2>7 DEF entry
<1>8. CASE e \notin dead /\ ~(e \in still /\ e \notin moves) /\ s.index[e] # 0
  <2> DEFINE list == [s.list EXCEPT ![s.index[e]] = entry]
  <2>1. s.index[e] \in 1 .. Len(s.list) /\ s.list[s.index[e]].ent = e
    BY <1>3, <1>8
  <2>2. /\ list \in Seq(Entries) /\ Len(list) = Len(s.list)
        /\ \A j \in 1 .. Len(s.list) : list[j] = IF j = s.index[e] THEN entry ELSE s.list[j]
    BY <1>1, <1>2, <2>1, ExceptSeq
  <2>3. DOMAIN list = 1 .. Len(s.list)
    BY <2>2, LenProperties
  <2>4. r = [s EXCEPT !.list[s.index[e]] = entry]
    BY <1>8 DEF EntityChanged, EntryOf, entry
  <2>5. r.list = list /\ r.index = s.index /\ r \in ThinkLists
    BY <1>1, <2>2, <2>4 DEF ThinkLists
  <2> HIDE DEF list
  <2>6. Matches(r)
    <3>1. \A f \in Ents : s.index[f] # 0 =>
             s.index[f] \in 1 .. Len(s.list) /\ list[s.index[f]].ent = f
      BY <1>2, <1>3, <2>1, <2>2
    <3>2. \A i \in 1 .. Len(s.list) : s.index[list[i].ent] = i
      BY <1>2, <1>4, <2>1, <2>2
    <3> QED BY <2>3, <2>5, <3>1, <3>2 DEF Matches
  <2>7. \A f \in Ents \ {e} : s.index[f] # 0 => list[s.index[f]] = s.list[s.index[f]]
    BY <1>3, <2>1, <2>2
  <2> QED BY <1>8, <2>1, <2>2, <2>5, <2>6, <2>7 DEF entry
<1> QED BY <1>5, <1>6, <1>7, <1>8
-------------------------------------------------------------------------------
(* The flag is down while a think function will be called, whatever hint   *)
(* CheckHasThinkFunction gets; it is down besides for a think of tick 0.   *)
FlagIsRight(e) ==
  /\ e \in noThink => ~WillThink(e)
  /\ e \notin noThink => WillThink(e) \/ \E c \in Functions : think[e][c] = 0
NoThinkIsRight == \A e \in Ents : FlagIsRight(e)

(* The list is what the flags say. *)
EntryIsCurrent(e) ==
  IF e \in live \ killme /\ (e \notin noThink \/ e \in simulates)
  THEN /\ simThink.index[e] # 0
       /\ simThink.list[simThink.index[e]].tick =
             IF e \in simulates THEN 0 ELSE GetFirstThinkTick(think[e])
  ELSE simThink.index[e] = 0
EntriesAreCurrent == \A e \in Ents : EntryIsCurrent(e)

(* A constructor finds no think scheduled. *)
DeadIsBlank == \A e \in Ents \ live : think[e] = NoThinks

(* The inductive invariant of the list of thinks. *)
ThinksInv == /\ ThinksTypeOK /\ tick \in Nat /\ at \in 0 .. Thinks
             /\ IndexMatchesList /\ EntriesAreCurrent
             /\ NoThinkIsRight /\ DeadIsBlank

(* Flags that are right and a list that follows them make it current. *)
LEMMA ThinksInvImplies == ThinksInv => ListIsCurrent
  BY DEF ThinksInv, EntriesAreCurrent, EntryIsCurrent, NoThinkIsRight, FlagIsRight, ListIsCurrent

LEMMA InitThinksInv == Init => ThinksInv
<1> SUFFICES ASSUME Init PROVE ThinksInv
  OBVIOUS
<1>1. ThinksTypeOK /\ tick \in Nat /\ at \in 0 .. Thinks
  BY EmptySeq, FrameConstants DEF Init, ThinksTypeOK, NoThinks, Ticks
<1>2. IndexMatchesList
  BY DEF Init, IndexMatchesList, Matches
<1>3. EntriesAreCurrent
  BY DEF Init, EntriesAreCurrent, EntryIsCurrent
<1>4. NoThinkIsRight /\ DeadIsBlank
  BY DEF Init, NoThinkIsRight, FlagIsRight, DeadIsBlank, WillThink, NoThinks, Never
<1> QED BY <1>1, <1>2, <1>3, <1>4 DEF ThinksInv

(* A handler that changes one entity and calls EntityChanged for it. *)
LEMMA ChangedThinksInv ==
  ASSUME ThinksInv, NEW e \in Ents, e \in live', tick' = tick, at' = at,
         live' = live \cup {e}, killme' = killme, delList' = delList,
         think' \in [Ents -> [Functions -> Ticks]],
         noThink' \subseteq Ents, simulates' \subseteq Ents,
         \A f \in Ents \ {e} : /\ think'[f] = think[f]
                               /\ f \in noThink' <=> f \in noThink
                               /\ f \in simulates' <=> f \in simulates,
         FlagIsRight(e)',
         simThink' = EntityChanged(simThink, e, killme, noThink', simulates', think')
  PROVE  ThinksInv'
<1>1. simThink \in ThinkLists /\ Matches(simThink)
  BY DEF ThinksInv, ThinksTypeOK, IndexMatchesList, ThinkLists, Entries
<1>2. /\ simThink' \in ThinkLists
      /\ Matches(simThink')
      /\ e \in killme => simThink' = simThink
      /\ e \notin killme =>
            IF e \in noThink' /\ e \notin simulates' THEN simThink'.index[e] = 0
            ELSE /\ simThink'.index[e] # 0
                 /\ simThink'.list[simThink'.index[e]] = EntryOf(e, simulates', think')
      /\ \A f \in Ents \ {e} :
            /\ simThink'.index[f] = 0 <=> simThink.index[f] = 0
            /\ simThink.index[f] # 0 =>
                  simThink'.list[simThink'.index[f]] = simThink.list[simThink.index[f]]
  BY <1>1, EntityChangedProperties
<1>3. ThinksTypeOK' /\ tick' \in Nat /\ at' \in 0 .. Thinks
  BY <1>2 DEF ThinksInv, ThinksTypeOK, ThinkLists, Entries
<1>4. IndexMatchesList'
  BY <1>2 DEF IndexMatchesList, Matches
<1>5. NoThinkIsRight'
  <2> SUFFICES ASSUME NEW f \in Ents PROVE FlagIsRight(f)'
    BY DEF NoThinkIsRight
  <2> QED BY DEF ThinksInv, NoThinkIsRight, FlagIsRight, WillThink
<1>6. DeadIsBlank'
  BY DEF ThinksInv, DeadIsBlank, ThinksTypeOK
<1>7. EntriesAreCurrent'
  <2>1. ASSUME NEW f \in Ents \ {e} PROVE EntryIsCurrent(f)'
    <3>1. EntryIsCurrent(f)
      BY DEF ThinksInv, EntriesAreCurrent
    <3> QED BY <1>2, <3>1 DEF EntryIsCurrent
  <2>2. EntryIsCurrent(e)'
    <3>1. CASE e \in killme
      <4>1. EntryIsCurrent(e)
        BY DEF ThinksInv, EntriesAreCurrent
      <4> QED BY <1>2, <3>1, <4>1 DEF EntryIsCurrent
    <3>2. CASE e \notin killme
      BY <1>2, <3>2 DEF EntryIsCurrent, EntryOf
    <3> QED BY <3>1, <3>2
  <2>3. \A f \in Ents : EntryIsCurrent(f)'
    BY <2>1, <2>2
  <2> QED BY <2>3 DEF EntriesAreCurrent
<1> QED BY <1>3, <1>4, <1>5, <1>6, <1>7 DEF ThinksInv

(* An entity that is marked or destroyed and taken out of the list. *)
LEMMA RemovedFromList ==
  ASSUME ThinksInv, NEW e \in Ents,
         e \notin live' \ killme',
         simThink' = RemoveEntinfoIndex(simThink, e),
         \A f \in Ents \ {e} : /\ think'[f] = think[f]
                               /\ f \in noThink' <=> f \in noThink
                               /\ f \in simulates' <=> f \in simulates
                               /\ f \in live' <=> f \in live
                               /\ f \in killme' <=> f \in killme
  PROVE  simThink' \in ThinkLists /\ IndexMatchesList' /\ EntriesAreCurrent'
<1>1. simThink \in ThinkLists /\ Matches(simThink)
  BY DEF ThinksInv, ThinksTypeOK, IndexMatchesList, ThinkLists, Entries
<1>2. /\ simThink' \in ThinkLists
      /\ Matches(simThink')
      /\ simThink'.index[e] = 0
      /\ \A f \in Ents \ {e} :
            /\ simThink'.index[f] = 0 <=> simThink.index[f] = 0
            /\ simThink.index[f] # 0 =>
                  simThink'.list[simThink'.index[f]] = simThink.list[simThink.index[f]]
  BY <1>1, RemoveEntinfoIndexProperties
<1>3. IndexMatchesList'
  BY <1>2 DEF IndexMatchesList, Matches
<1>4. ASSUME NEW f \in Ents PROVE EntryIsCurrent(f)'
  <2>1. CASE f = e
    BY <1>2, <2>1 DEF EntryIsCurrent
  <2>2. CASE f # e
    <3>1. EntryIsCurrent(f)
      BY DEF ThinksInv, EntriesAreCurrent
    <3> QED BY <1>2, <2>2, <3>1 DEF EntryIsCurrent
  <2> QED BY <2>1, <2>2
<1>5. EntriesAreCurrent'
  BY <1>4 DEF EntriesAreCurrent
<1> QED BY <1>2, <1>3, <1>5

LEMMA CleanupThinksInv ==
  ASSUME ThinksInv, CleanupDeleteList, tick' \in Nat, at' \in 0 .. Thinks
  PROVE  ThinksInv' /\ killme' = {}
<1> USE DEF CleanupDeleteList, Destroyed
<1>0. NoThinks \in [Functions -> Ticks]
  BY DEF NoThinks, Ticks
<1>1. ThinksTypeOK' /\ killme' = {}
  BY <1>0 DEF ThinksInv, ThinksTypeOK
<1>2. IndexMatchesList'
  BY DEF ThinksInv, IndexMatchesList, Matches
<1>3. NoThinkIsRight'
  <2> SUFFICES ASSUME NEW e \in Ents PROVE FlagIsRight(e)'
    BY DEF NoThinkIsRight
  <2>1. CASE e \in delList
    BY <2>1 DEF FlagIsRight, WillThink, NoThinks, Never
  <2>2. CASE e \notin delList
    BY <2>2 DEF FlagIsRight, WillThink, ThinksInv, NoThinkIsRight
  <2> QED BY <2>1, <2>2
<1>4. DeadIsBlank'
  BY DEF ThinksInv, DeadIsBlank
<1>5. ASSUME NEW e \in Ents PROVE EntryIsCurrent(e)'
  <2>1. EntryIsCurrent(e)
    BY DEF ThinksInv, EntriesAreCurrent
  <2>2. CASE e \in delList
    BY <2>1, <2>2 DEF EntryIsCurrent, ThinksInv, ThinksTypeOK
  <2>3. CASE e \notin delList
    <3>1. (e \in noThink' <=> e \in noThink) /\ think'[e] = think[e]
      BY <2>3
    <3> QED BY <1>1, <2>1, <2>3, <3>1 DEF EntryIsCurrent, ThinksInv, ThinksTypeOK
  <2> QED BY <2>2, <2>3
<1>6. EntriesAreCurrent'
  BY <1>5 DEF EntriesAreCurrent
<1> QED BY <1>1, <1>2, <1>3, <1>4, <1>6 DEF ThinksInv

LEMMA SameThinksInv ==
  ASSUME ThinksInv, UNCHANGED entity, UNCHANGED thinks, tick' \in Nat, at' \in 0 .. Thinks
  PROVE  ThinksInv'
  BY DEF ThinksInv, entity, thinks, ThinksTypeOK, IndexMatchesList, Matches, EntriesAreCurrent,
         EntryIsCurrent, NoThinkIsRight, FlagIsRight, DeadIsBlank, WillThink

LEMMA NextThinkInv ==
  ASSUME ThinksInv, NEW e \in live, NEW c \in Functions, NEW t \in Ticks,
         NextThink(e, c, t), UNCHANGED entity, tick' = tick, at' = at
  PROVE  ThinksInv'
<1>1. e \in Ents /\ think' \in [Ents -> [Functions -> Ticks]]
  BY DEF NextThink, ThinksInv, ThinksTypeOK
<1>2. think'[e] = [think[e] EXCEPT ![c] = t]
  BY <1>1 DEF NextThink, ThinksInv, ThinksTypeOK
<1>a. think'[e][c] = t /\ \A d \in Functions \ {c} : think'[e][d] = think[e][d]
  BY <1>1, <1>2 DEF ThinksInv, ThinksTypeOK
<1>b. t \in Int /\ \A d \in Functions : think'[e][d] \in Int /\ think[e][d] \in Int
  BY <1>1 DEF ThinksInv, ThinksTypeOK, Ticks, Never
<1>3. FlagIsRight(e)'
  <2>1. CASE t # Never
    <3>1. e \notin noThink' /\ (t = 0 \/ t > 0)
      BY <2>1 DEF NextThink, Ticks
    <3> QED BY <1>a, <3>1 DEF FlagIsRight, WillThink
  <2>2. CASE t = Never /\ \A d \in Functions : think'[e][d] <= 0
    BY <1>b, <2>2 DEF NextThink, FlagIsRight, WillThink
  <2>3. CASE t = Never /\ ~ \A d \in Functions : think'[e][d] <= 0
    <3>1. PICK d \in Functions : think'[e][d] > 0
      BY <1>b, <2>3
    <3>2. think[e][d] > 0
      BY <1>a, <2>3, <3>1 DEF Never
    <3>3. e \notin noThink
      BY <1>1, <3>2 DEF ThinksInv, NoThinkIsRight, FlagIsRight, WillThink
    <3> QED BY <2>3, <3>1, <3>3 DEF NextThink, FlagIsRight, WillThink
  <2> QED BY <2>1, <2>2, <2>3
<1>4. \A f \in Ents \ {e} : think'[f] = think[f] /\ (f \in noThink' <=> f \in noThink)
  BY DEF NextThink, ThinksInv, ThinksTypeOK
<1>5. noThink' \subseteq Ents /\ simulates' = simulates
  BY <1>1 DEF NextThink, ThinksInv, ThinksTypeOK
<1>6. simThink' = EntityChanged(simThink, e, killme, noThink', simulates', think')
  BY <1>5 DEF NextThink
<1>7. live' = live \cup {e} /\ killme' = killme /\ delList' = delList /\ e \in live'
  BY DEF entity
<1>8. simulates' \subseteq Ents /\ \A f \in Ents \ {e} : f \in simulates' <=> f \in simulates
  BY <1>5 DEF ThinksInv, ThinksTypeOK
<1> QED BY <1>1, <1>3, <1>4, <1>5, <1>6, <1>7, <1>8, ChangedThinksInv

-------------------------------------------------------------------------------
(* The actions. *)
LEMMA CreateThinks ==
  ASSUME ThinksInv, NEW e \in Ents, NEW t \in Ticks, NEW moves \in BOOLEAN,
         Create(e, t, moves)
  PROVE  ThinksInv'
<1> USE FrameConstants DEF Create
<1>1. 0 \in Functions /\ think[e] = NoThinks
  BY DEF Functions, ThinksInv, DeadIsBlank
<1>2. think' \in [Ents -> [Functions -> Ticks]] /\ think'[e] = [think[e] EXCEPT ![0] = t]
  BY DEF ThinksInv, ThinksTypeOK
<1>3. FlagIsRight(e)'
  <2>1. think'[e][0] = t
    BY <1>1, <1>2 DEF ThinksInv, ThinksTypeOK
  <2>2. \A c \in Functions \ {0} : think'[e][c] = Never
    BY <1>1, <1>2 DEF ThinksInv, ThinksTypeOK, NoThinks
  <2>3. t = Never \/ t = 0 \/ t > 0
    BY DEF Ticks
  <2> QED BY <1>1, <2>1, <2>2, <2>3 DEF FlagIsRight, WillThink, Never
<1>4. \A f \in Ents \ {e} : /\ think'[f] = think[f]
                            /\ f \in noThink' <=> f \in noThink
                            /\ f \in simulates' <=> f \in simulates
  BY DEF ThinksInv, ThinksTypeOK
<1>5. noThink' \subseteq Ents /\ simulates' \subseteq Ents
  BY DEF ThinksInv, ThinksTypeOK
<1>6. tick' = tick /\ at' = at /\ e \in live'
  BY DEF frame
<1>7. simThink' = EntityChanged(simThink, e, killme, noThink', simulates', think')
  OBVIOUS
<1>8. live' = live \cup {e} /\ killme' = killme /\ delList' = delList
  OBVIOUS
<1> QED BY <1>2, <1>3, <1>4, <1>5, <1>6, <1>7, <1>8, ChangedThinksInv

LEMMA SetMoveTypeThinks ==
  ASSUME ThinksInv, NEW e \in Ents, SetMoveType(e)
  PROVE  ThinksInv'
<1> USE DEF SetMoveType, entity, frame
<1>1. /\ e \in live' /\ live' = live \cup {e} /\ killme' = killme /\ delList' = delList
      /\ tick' = tick /\ at' = at /\ think' = think /\ noThink' = noThink
  OBVIOUS
<1>2. /\ think' \in [Ents -> [Functions -> Ticks]]
      /\ noThink' \subseteq Ents /\ simulates' \subseteq Ents
      /\ \A f \in Ents \ {e} : f \in simulates' <=> f \in simulates
  BY DEF ThinksInv, ThinksTypeOK
<1>3. FlagIsRight(e)'
  BY <1>1 DEF ThinksInv, NoThinkIsRight, FlagIsRight, WillThink
<1>4. simThink' = EntityChanged(simThink, e, killme, noThink', simulates', think')
  BY <1>1
<1> QED BY <1>1, <1>2, <1>3, <1>4, ChangedThinksInv

LEMMA UTIL_RemoveThinks ==
  ASSUME ThinksInv, NEW e \in Ents, UTIL_Remove(e)
  PROVE  ThinksInv'
<1> USE DEF UTIL_Remove, UpdateOnRemove, frame
<1>1. simThink' \in ThinkLists /\ IndexMatchesList' /\ EntriesAreCurrent'
  <2>1. /\ e \notin live' \ killme'
        /\ simThink' = RemoveEntinfoIndex(simThink, e)
        /\ \A f \in Ents \ {e} : /\ think'[f] = think[f]
                                 /\ f \in noThink' <=> f \in noThink
                                 /\ f \in simulates' <=> f \in simulates
                                 /\ f \in live' <=> f \in live
                                 /\ f \in killme' <=> f \in killme
    BY DEF ThinksInv, ThinksTypeOK
  <2> QED BY <2>1, RemovedFromList
<1>2. ThinksTypeOK' /\ tick' \in Nat /\ at' \in 0 .. Thinks
  BY <1>1 DEF ThinksInv, ThinksTypeOK, ThinkLists, Entries
<1>3. NoThinkIsRight' /\ DeadIsBlank'
  BY DEF ThinksInv, NoThinkIsRight, FlagIsRight, DeadIsBlank, WillThink
<1> QED BY <1>1, <1>2, <1>3 DEF ThinksInv

LEMMA UTIL_RemoveImmediateThinks ==
  ASSUME ThinksInv, NEW e \in Ents, UTIL_RemoveImmediate(e)
  PROVE  ThinksInv'
<1> USE DEF UTIL_RemoveImmediate, UpdateOnRemove, Destroyed, frame
<1>0. NoThinks \in [Functions -> Ticks]
  BY DEF NoThinks, Ticks
<1>1. simThink' \in ThinkLists /\ IndexMatchesList' /\ EntriesAreCurrent'
  <2>1. /\ e \notin live' \ killme'
        /\ simThink' = RemoveEntinfoIndex(simThink, e)
        /\ \A f \in Ents \ {e} : /\ think'[f] = think[f]
                                 /\ f \in noThink' <=> f \in noThink
                                 /\ f \in simulates' <=> f \in simulates
                                 /\ f \in live' <=> f \in live
                                 /\ f \in killme' <=> f \in killme
    BY DEF ThinksInv, ThinksTypeOK
  <2> QED BY <2>1, RemovedFromList
<1>2. ThinksTypeOK' /\ tick' \in Nat /\ at' \in 0 .. Thinks
  BY <1>0, <1>1 DEF ThinksInv, ThinksTypeOK, ThinkLists, Entries
<1>3. NoThinkIsRight'
  <2> SUFFICES ASSUME NEW f \in Ents PROVE FlagIsRight(f)'
    BY DEF NoThinkIsRight
  <2>1. CASE f = e
    BY <2>1 DEF FlagIsRight, WillThink, NoThinks, Never
  <2>2. CASE f # e
    BY <2>2 DEF FlagIsRight, WillThink, ThinksInv, NoThinkIsRight
  <2> QED BY <2>1, <2>2
<1>4. DeadIsBlank'
  BY DEF ThinksInv, DeadIsBlank
<1> QED BY <1>1, <1>2, <1>3, <1>4 DEF ThinksInv

LEMMA RunThinkThinks ==
  ASSUME ThinksInv, NEW e \in Ents, RunThink(e)
  PROVE  ThinksInv' /\ e \in live
<1>1. at \in Functions /\ Never \in Ticks
  BY FrameConstants DEF ThinksInv, RunThink, Functions, Ticks
<1>2. e \in live
  BY <1>1 DEF RunThink, ThinksInv, DeadIsBlank, NoThinks, Never
<1>3. NextThink(e, at, Never) /\ UNCHANGED entity /\ tick' = tick /\ at' = at
  BY DEF RunThink
<1> QED BY <1>1, <1>2, <1>3, NextThinkInv

(* One step of the server. *)
LEMMA NextThinksInv ==
  ASSUME ThinksInv, [Next]_vars
  PROVE  ThinksInv'
<1>0. Times \subseteq Ticks
  BY FrameConstants DEF Times, Ticks, ThinksInv
<1>a. 0 \in 0 .. Thinks
  BY FrameConstants
<1>1. ASSUME NEW e \in Ents, NEW t \in Times, NEW moves \in BOOLEAN, Create(e, t, moves)
      PROVE  ThinksInv'
  BY <1>0, <1>1, CreateThinks
<1>2. ASSUME NEW e \in Ents, NEW c \in Functions, NEW t \in Times, SetNextThink(e, c, t)
      PROVE  ThinksInv'
  <2>1. e \in live /\ NextThink(e, c, t) /\ UNCHANGED entity /\ tick' = tick /\ at' = at
    BY <1>2 DEF SetNextThink, frame
  <2> QED BY <1>0, <2>1, NextThinkInv
<1>3. ASSUME NEW e \in Ents, SetMoveType(e)
      PROVE  ThinksInv'
  BY <1>3, SetMoveTypeThinks
<1>4. ASSUME NEW e \in Ents, SetCheckUntouch(e)
      PROVE  ThinksInv'
  <2>1. UNCHANGED entity /\ UNCHANGED thinks /\ tick' \in Nat /\ at' \in 0 .. Thinks
    BY <1>4 DEF SetCheckUntouch, frame, ThinksInv
  <2> QED BY <2>1, SameThinksInv
<1>5. ASSUME NEW e \in Ents, UTIL_Remove(e)
      PROVE  ThinksInv'
  BY <1>5, UTIL_RemoveThinks
<1>6. ASSUME NEW e \in Ents, UTIL_RemoveImmediate(e)
      PROVE  ThinksInv'
  BY <1>6, UTIL_RemoveImmediateThinks
<1>7. ASSUME NEW simulating \in BOOLEAN, BeginFrame(simulating)
      PROVE  ThinksInv'
  <2>1. CleanupDeleteList /\ tick' \in Nat /\ at' \in 0 .. Thinks
    BY <1>7 DEF BeginFrame, ThinksInv
  <2> QED BY <2>1, CleanupThinksInv
<1>8. CASE BeginThinks \/ EndFrame
  <2>1. CleanupDeleteList /\ tick' \in Nat /\ at' \in 0 .. Thinks
    BY <1>8 DEF BeginThinks, EndFrame, ThinksInv
  <2> QED BY <2>1, CleanupThinksInv
<1>9. ASSUME NEW e \in Ents, RunThink(e)
      PROVE  ThinksInv'
  BY <1>9, RunThinkThinks
<1>10. ASSUME NEW e \in Ents, PassThink(e) \/ Move(e) \/ CheckForEntityUntouch(e) \/ PlayerUntouch(e)
       PROVE  ThinksInv'
  <2>1. UNCHANGED entity /\ UNCHANGED thinks /\ tick' = tick
    BY <1>10 DEF PassThink, Move, CheckForEntityUntouch, PlayerUntouch, frame
  <2>2. at' \in 0 .. Thinks
    BY <1>a, <1>10, FrameConstants
       DEF PassThink, Move, CheckForEntityUntouch, PlayerUntouch, frame, NextEntity, ThinksInv
  <2> QED BY <2>1, <2>2, SameThinksInv DEF ThinksInv
<1>11. CASE HandlerReturns \/ EndThinks \/ BeginTouch \/ UntouchDone \/ EndTouch
  <2>1. UNCHANGED entity /\ UNCHANGED thinks /\ tick' = tick
    BY <1>11 DEF HandlerReturns, EndThinks, BeginTouch, UntouchDone, EndTouch
  <2>2. at' \in 0 .. Thinks
    BY <1>a, <1>11, FrameConstants
       DEF HandlerReturns, EndThinks, BeginTouch, UntouchDone, EndTouch, NextEntity, ThinksInv
  <2> QED BY <2>1, <2>2, SameThinksInv DEF ThinksInv
<1>12. CASE UNCHANGED vars
  BY <1>12, SameThinksInv DEF vars, frame, ThinksInv
<1> QED
  BY FunctionsOfProperties, <1>1, <1>2, <1>3, <1>4, <1>5, <1>6, <1>7, <1>8, <1>9, <1>10, <1>11, <1>12
     DEF Next, Handler, GameFrame

(* The list of thinks stays what the entities' flags and ticks say. *)
THEOREM ThinksInvariant == Spec => []ThinksInv
<1>1. Init => ThinksInv
  BY InitThinksInv
<1>2. ThinksInv /\ [Next]_vars => ThinksInv'
  BY NextThinksInv
<1> QED BY <1>1, <1>2, PTL DEF Spec

(* m_entinfoIndex and m_simThinkList point at each other. *)
THEOREM IndexCorrect == Spec => []IndexMatchesList
<1>1. ThinksInv => IndexMatchesList
  BY DEF ThinksInv
<1> QED BY <1>1, ThinksInvariant, PTL

(* No entity that is due is missing from m_simThinkList, each has its      *)
(* first tick, and who is in it without a reason has a think of tick 0.    *)
THEOREM ListCorrect == Spec => []ListIsCurrent
<1>1. ThinksInv => ListIsCurrent
  BY ThinksInvImplies
<1> QED BY <1>1, ThinksInvariant, PTL

(* Marked entities are destroyed before a frame ends or its thinks begin.  *)
THEOREM RemovedCorrect == Spec => RemovedInFrame
<1>1. ASSUME ThinksInv, [Next]_vars
      PROVE  [phase' # phase /\ phase' \in {"engine", "think"} => killme' = {}]_vars
  <2>1. SUFFICES ASSUME Next, phase' # phase, phase' \in {"engine", "think"}
                 PROVE  killme' = {}
    BY <1>1
  <2>2. BeginThinks \/ EndFrame
    BY FunctionsOfProperties, <2>1 DEF Next, Handler, GameFrame, Create, SetNextThink, SetMoveType, SetCheckUntouch,
                UTIL_Remove, UTIL_RemoveImmediate, BeginFrame, HandlerReturns, EndThinks,
                BeginTouch, UntouchDone, EndTouch, RunThink, PassThink, Move,
                CheckForEntityUntouch, PlayerUntouch, frame
  <2>3. CleanupDeleteList /\ tick' \in Nat /\ at' \in 0 .. Thinks
    BY <1>1, <2>2 DEF BeginThinks, EndFrame, ThinksInv
  <2> QED BY <1>1, <2>3, CleanupThinksInv
<1> QED BY <1>1, ThinksInvariant, PTL DEF Spec, RemovedInFrame
-------------------------------------------------------------------------------
Phases == {"engine", "pre", "paused", "think", "post", "touch", "events"}

(* Where the frame is. *)
FrameInv ==
  /\ phase \in Phases /\ tick >= 1 /\ running \in BOOLEAN
  /\ copy \in Seq(Ents) /\ touchList \in Seq(Ents) /\ checkUntouch \subseteq live
  /\ phase \in {"pre", "think"} => tick >= 2
  /\ phase \notin {"think", "touch"} => copy = <<>>
  /\ copy = <<>> => at = 0 /\ ~running
  /\ phase # "think" => at = 0

LEMMA InitFrameInv == Init => FrameInv
<1>1. <<>> \in Seq(Ents)
  BY EmptySeq
<1> SUFFICES ASSUME Init PROVE FrameInv
  OBVIOUS
<1>2. phase = "engine" /\ tick = 1 /\ copy = <<>> /\ at = 0 /\ running = FALSE
  BY DEF Init
<1>3. checkUntouch \subseteq live /\ touchList = <<>>
  BY DEF Init
<1>4. tick >= 1 /\ (phase \in {"pre", "think"} => tick >= 2)
  BY <1>2
<1> QED BY <1>1, <1>2, <1>3, <1>4, Zenon DEF FrameInv, Phases

LEMMA ListCopyType ==
  ASSUME ThinksInv, NEW out, ListCopy(out)
  PROVE  out \in Seq(Ents)
<1>0. PICK n \in 0 .. Len(simThink.list) : \E from \in [1 .. n -> Due] :
         out = [i \in 1 .. n |-> simThink.list[from[i]].ent]
  BY DEF ListCopy
<1>1. PICK from \in [1 .. n -> Due] : out = [i \in 1 .. n |-> simThink.list[from[i]].ent]
  BY <1>0
<1>2. simThink.list \in Seq(Entries)
  BY DEF ThinksInv, ThinksTypeOK, Entries
<1>3. Due \subseteq 1 .. Len(simThink.list) /\ Len(simThink.list) \in Nat
  BY <1>2, LenProperties DEF Due
<1>4. \A k \in Due : simThink.list[k] \in Entries
  BY <1>2, <1>3, ElementOfSeq
<1>5. n \in Nat /\ \A i \in 1 .. n : simThink.list[from[i]].ent \in Ents
  <2> SUFFICES ASSUME NEW i \in 1 .. n PROVE n \in Nat /\ simThink.list[from[i]].ent \in Ents
    BY <1>3
  <2>1. from[i] \in Due /\ n \in Nat
    BY <1>3
  <2>2. simThink.list[from[i]] \in Entries
    BY <1>4, <2>1
  <2> QED BY <2>1, <2>2 DEF Entries
<1>6. out \in [1 .. n -> Ents]
  BY <1>1, <1>5
<1> QED BY <1>5, <1>6, SeqDef

LEMMA TailType ==
  ASSUME copy \in Seq(Ents), copy # <<>>
  PROVE  /\ Tail(copy) \in Seq(Ents)
         /\ Head(copy) = copy[1]
         /\ Len(copy) \in Nat \ {0} /\ DOMAIN copy = 1 .. Len(copy)
         /\ Len(Tail(copy)) = Len(copy) - 1
         /\ DOMAIN Tail(copy) = 1 .. Len(copy) - 1
         /\ \A i \in 1 .. Len(copy) - 1 : Tail(copy)[i] = copy[i + 1]
  BY EmptySeq, HeadTailProperties, LenProperties

IsIn(e, s) == \E i \in DOMAIN s : s[i] = e
IsTouched(e, s) == IsIn(e, s) /\ e \notin PlayerSimulated
NoTwice(s) == \A i, j \in DOMAIN s : s[i] = s[j] => i = j \/ s[i] \in PlayerSimulated

(* OnEntityDeleted takes e out of the list of touches once, and no other. *)
LEMMA RemoveTouchProperties ==
  ASSUME touchList \in Seq(Ents), NEW e \in Ents, NEW r, r = RemoveTouch(e)
  PROVE  /\ r \in Seq(Ents)
         /\ \A f \in Ents \ {e} : IsIn(f, r) <=> IsIn(f, touchList)
         /\ NoTwice(touchList) => NoTwice(r)
         /\ NoTwice(touchList) /\ (IsIn(e, touchList) => e \in checkUntouch)
               => ~IsIn(e, r) \/ e \in PlayerSimulated
<1> DEFINE places == {i \in DOMAIN touchList : touchList[i] = e}
           last == Len(touchList)
<1>1. last \in Nat /\ DOMAIN touchList = 1 .. last
  BY LenProperties
<1>2. CASE e \notin checkUntouch \/ places = {}
  <2>1. r = touchList
    BY <1>2 DEF RemoveTouch
  <2> QED BY <1>2, <2>1 DEF IsIn
<1>3. CASE e \in checkUntouch /\ places # {}
  <2> DEFINE hole == CHOOSE i \in places : \A j \in places : i <= j
             cut == [i \in 1 .. last - 1 |-> touchList[IF i = hole THEN last ELSE i]]
  <2>1. places \subseteq Nat
    BY <1>1
  <2>2. hole \in places
    <3> HIDE DEF places
    <3>1. \E i \in places : \A j \in places : i <= j
      BY <1>3, <2>1, LeastNatural
    <3> QED BY <3>1
  <2>3. r = cut
    BY <1>3 DEF RemoveTouch
  <2>4. hole \in 1 .. last /\ touchList[hole] = e
    BY <1>1, <2>2
  <2> HIDE DEF hole
  <2>5. /\ cut \in Seq(Ents) /\ Len(cut) = last - 1
        /\ \A i \in 1 .. last - 1 : cut[i] = touchList[IF i = hole THEN last ELSE i]
    BY <2>4, FastRemoveProperties
  <2>6. DOMAIN cut = 1 .. last - 1
    OBVIOUS
  <2> HIDE DEF cut
  <2>7. \A f \in Ents \ {e} : IsIn(f, cut) <=> IsIn(f, touchList)
    <3> HIDE DEF last
    <3> SUFFICES ASSUME NEW f \in Ents \ {e} PROVE IsIn(f, cut) <=> IsIn(f, touchList)
      OBVIOUS
    <3>1. ASSUME IsIn(f, cut) PROVE IsIn(f, touchList)
      BY <1>1, <2>4, <2>5, <2>6, <3>1 DEF IsIn
    <3>2. ASSUME IsIn(f, touchList) PROVE IsIn(f, cut)
      <4>1. PICK i \in 1 .. last : touchList[i] = f
        BY <1>1, <3>2 DEF IsIn
      <4>2. CASE i = last
        <5>1. hole \in 1 .. last - 1 /\ cut[hole] = f
          BY <1>1, <2>4, <2>5, <4>1, <4>2
        <5> QED BY <2>6, <5>1 DEF IsIn
      <4>3. CASE i # last
        <5>a. i # hole
          BY <2>4, <4>1
        <5>b. i \in 1 .. last - 1
          BY <1>1, <4>1, <4>3
        <5>0. i \in 1 .. last - 1 /\ i # hole
          BY <5>a, <5>b
        <5>1. i \in 1 .. last - 1 /\ cut[i] = f
          BY <2>5, <4>1, <5>0
        <5> QED BY <2>6, <5>1 DEF IsIn
      <4> QED BY <4>2, <4>3
    <3> QED BY <3>1, <3>2
  <2>8. NoTwice(touchList) => NoTwice(cut) /\ (~IsIn(e, cut) \/ e \in PlayerSimulated)
    BY <1>1, <2>4, <2>5, <2>6 DEF NoTwice, IsIn
  <2> QED BY <2>3, <2>5, <2>7, <2>8
<1> QED BY <1>2, <1>3

LEMMA NextFrameInv ==
  ASSUME ThinksInv, FrameInv, [Next]_vars
  PROVE  FrameInv'
<1> USE DEF FrameInv, Phases
<1>1. CASE UNCHANGED <<frame, touches>> /\ live \subseteq live'
  BY <1>1 DEF frame, touches
<1>2. ASSUME NEW e \in Ents, SetCheckUntouch(e)
      PROVE  FrameInv'
  BY <1>2, AppendProperties DEF SetCheckUntouch, frame, entity
<1>3. ASSUME NEW e \in Ents, UTIL_Remove(e)
      PROVE  FrameInv'
  BY <1>3, RemoveTouchProperties DEF UTIL_Remove, UpdateOnRemove, frame
<1>4. ASSUME NEW e \in Ents, UTIL_RemoveImmediate(e)
      PROVE  FrameInv'
  BY <1>4, RemoveTouchProperties DEF UTIL_RemoveImmediate, UpdateOnRemove, Destroyed, frame
<1>5. ASSUME NEW simulating \in BOOLEAN, BeginFrame(simulating)
      PROVE  FrameInv'
  BY <1>5 DEF BeginFrame, CleanupDeleteList, Destroyed, ThinksInv
<1>6. CASE BeginThinks
  <2>1. CASE phase = "pre"
    BY <1>6, <2>1, ListCopyType DEF BeginThinks, CleanupDeleteList, Destroyed
  <2>2. CASE phase = "paused"
    BY <1>6, <2>2, EmptySeq DEF BeginThinks, CleanupDeleteList, Destroyed
  <2> QED BY <1>6, <2>1, <2>2 DEF BeginThinks
<1>7. ASSUME NEW e \in Ents, RunThink(e) \/ PassThink(e) \/ PlayerUntouch(e)
      PROVE  FrameInv'
  <2>1. CASE RunThink(e)
    BY <2>1 DEF RunThink, InTurn, touches, entity
  <2>2. CASE PassThink(e)
    BY <2>2 DEF PassThink, InTurn, touches, entity
  <2>3. CASE PlayerUntouch(e)
    BY <2>3 DEF PlayerUntouch, entity, frame
  <2> QED BY <1>7, <2>1, <2>2, <2>3
<1>8. ASSUME NEW e \in Ents, Move(e) \/ CheckForEntityUntouch(e)
      PROVE  FrameInv'
  BY <1>8, TailType
     DEF Move, CheckForEntityUntouch, InTurn, NextEntity, touches, entity
<1>9. CASE HandlerReturns \/ UntouchDone
  BY <1>9, TailType DEF HandlerReturns, UntouchDone, NextEntity, touches, entity
<1>10. CASE EndThinks \/ EndTouch \/ BeginTouch
  BY <1>10, EmptySeq DEF EndThinks, EndTouch, BeginTouch, touches, entity
<1>11. CASE EndFrame
  BY <1>11 DEF EndFrame, CleanupDeleteList, Destroyed
<1>12. ASSUME NEW e \in Ents, NEW t \in Times,
              \/ \E moves \in BOOLEAN : Create(e, t, moves)
              \/ \E c \in Functions : SetNextThink(e, c, t)
       PROVE  FrameInv'
  <2>1. UNCHANGED <<frame, touches>> /\ live \subseteq live'
    BY <1>12 DEF Create, SetNextThink, entity
  <2> QED BY <1>1, <2>1
<1>13. ASSUME NEW e \in Ents, SetMoveType(e)
       PROVE  FrameInv'
  BY <1>1, <1>13 DEF SetMoveType, entity
<1>14. CASE UNCHANGED vars
  BY <1>14, <1>1 DEF vars, entity
<1> QED
  BY FunctionsOfProperties, <1>1, <1>2, <1>3, <1>4, <1>5, <1>6, <1>7, <1>8, <1>9, <1>10, <1>11, <1>12, <1>13, <1>14
     DEF Next, Handler, GameFrame
-------------------------------------------------------------------------------
(* NeverLate of one think function of one entity. *)
NotLate(e, c) ==
  think[e][c] > 0 =>
     think[e][c] >= IF phase \in {"pre", "think"} THEN tick - 1 ELSE tick

(* In the loop, a function that is due and was not called is still to come:*)
(* its entity is in the rest of the copy, and its turn is not over.        *)
Awaited(e, c) ==
  phase = "think" /\ think[e][c] > 0 /\ think[e][c] < tick =>
     \E i \in DOMAIN copy : /\ copy[i] = e
                            /\ i = 1 => c >= at /\ (running => c > at)

Called == live \ (killme \cup PlayerSimulated)
OnTime == \A e \in Called, c \in Functions : NotLate(e, c) /\ Awaited(e, c)

LEMMA TicksAreIntegers ==
  ASSUME ThinksInv, NEW e \in Ents, NEW c \in Functions
  PROVE  /\ think[e][c] \in Int /\ think[e][c] \in Ticks
         /\ think[e][c] > 0 => think[e][c] \in Nat
         /\ c \in 0 .. Thinks - 1 /\ tick \in Nat /\ at \in 0 .. Thinks /\ Thinks \in Nat
         /\ Called \subseteq Ents /\ live \subseteq Ents
<1>1. think[e][c] \in Ticks
  BY DEF ThinksInv, ThinksTypeOK
<1> QED BY <1>1, FrameConstants DEF Ticks, Never, Functions, Called, ThinksInv, ThinksTypeOK

(* Handlers do not make an entity late: what they set is not in the past. *)
LEMMA HandlerOnTime ==
  ASSUME ThinksInv, ThinksInv', OnTime, UNCHANGED frame,
         \A e \in Called', c \in Functions :
            \/ think'[e][c] <= 0
            \/ think'[e][c] >= tick
            \/ e \in Called /\ think'[e][c] = think[e][c]
  PROVE  OnTime'
<1> SUFFICES ASSUME NEW e \in Called', NEW c \in Functions
             PROVE  NotLate(e, c)' /\ Awaited(e, c)'
  BY DEF OnTime
<1>0. e \in Ents /\ think'[e][c] \in Int /\ tick \in Nat
  <2>1. e \in Ents
    BY DEF Called, ThinksInv, ThinksTypeOK
  <2>2. think'[e][c] \in Ticks
    BY <2>1 DEF ThinksInv, ThinksTypeOK
  <2> QED BY <2>1, <2>2 DEF Ticks, Never, ThinksInv
<1>1. CASE think'[e][c] <= 0 \/ think'[e][c] >= tick
  BY <1>0, <1>1 DEF NotLate, Awaited, frame
<1>2. CASE e \in Called /\ think'[e][c] = think[e][c]
  BY <1>2 DEF NotLate, Awaited, frame, OnTime
<1> QED BY <1>1, <1>2

(* Outside the loop. *)
LEMMA ElsewhereOnTime ==
  ASSUME ThinksInv, OnTime, phase \notin {"pre", "think"}, phase' \notin {"pre", "think"},
         tick' = tick, Called' \subseteq Called,
         \A e \in Called' : think'[e] = think[e]
  PROVE  OnTime'
<1> SUFFICES ASSUME NEW e \in Called', NEW c \in Functions
             PROVE  NotLate(e, c)' /\ Awaited(e, c)'
  BY DEF OnTime
<1>1. think'[e][c] = think[e][c] /\ NotLate(e, c)
  BY DEF OnTime
<1> QED BY <1>1 DEF NotLate, Awaited

LEMMA BeginFrameOnTime ==
  ASSUME ThinksInv, FrameInv, OnTime, NEW simulating \in BOOLEAN, BeginFrame(simulating)
  PROVE  OnTime'
<1> SUFFICES ASSUME NEW e \in Called', NEW c \in Functions
             PROVE  NotLate(e, c)' /\ Awaited(e, c)'
  BY DEF OnTime
<1>1. e \in Called /\ think'[e] = think[e]
  BY DEF BeginFrame, CleanupDeleteList, Destroyed, Called, ThinksInv, ThinksTypeOK
<1>2. NotLate(e, c) /\ think[e][c] \in Int /\ tick \in Nat
  BY <1>1, TicksAreIntegers DEF OnTime, Called, ThinksInv, ThinksTypeOK
<1> QED BY <1>1, <1>2 DEF BeginFrame, NotLate, Awaited

(* Every function that is due when the loop begins is in the copy. *)
LEMMA BeginThinksOnTime ==
  ASSUME ThinksInv, FrameInv, OnTime, BeginThinks
  PROVE  OnTime'
<1>0. /\ \A e \in Called' : e \in Called /\ think'[e] = think[e]
      /\ Called' \subseteq Called
  BY DEF BeginThinks, CleanupDeleteList, Destroyed, Called, ThinksInv, ThinksTypeOK
<1>1. CASE phase = "paused"
  BY <1>0, <1>1, ElsewhereOnTime DEF BeginThinks
<1>2. CASE phase = "pre"
  <2> SUFFICES ASSUME NEW e \in Called', NEW c \in Functions
               PROVE  NotLate(e, c)' /\ Awaited(e, c)'
    BY DEF OnTime
  <2>1. /\ e \in Called /\ e \in Ents /\ think'[e] = think[e]
        /\ think[e][c] \in Int /\ tick \in Nat /\ tick' = tick
        /\ think[e][c] > 0 => think[e][c] \in Nat
    BY <1>0, TicksAreIntegers DEF Called, ThinksInv, ThinksTypeOK, BeginThinks
  <2>2. phase' = "think" /\ ListCopy(copy') /\ at' = 0 /\ running' = FALSE
    BY <1>2 DEF BeginThinks, FrameInv
  <2>3. NotLate(e, c)'
    BY <1>2, <2>1, <2>2 DEF NotLate, OnTime
  <2>4. ASSUME think[e][c] > 0, think[e][c] < tick
        PROVE  \E i \in DOMAIN copy' : copy'[i] = e
    <3> DEFINE k == simThink.index[e]
    <3>1. EntryIsCurrent(e) /\ WillThink(e) /\ e \in live \ killme
      BY <2>1, <2>4 DEF ThinksInv, EntriesAreCurrent, WillThink, Called
    <3>a. e \notin noThink
      BY <2>1, <3>1 DEF ThinksInv, NoThinkIsRight, FlagIsRight
    <3>2. /\ k # 0 /\ k \in DOMAIN simThink.list /\ simThink.list[k].ent = e
      BY <2>1, <3>1, <3>a DEF EntryIsCurrent, ThinksInv, IndexMatchesList, Matches
    <3>3. simThink.list[k].tick <= tick
      <4>1. CASE e \in simulates
        BY <2>1, <3>1, <3>a, <4>1 DEF EntryIsCurrent
      <4>2. CASE e \notin simulates
        <5>1. think[e] \in [Functions -> Ticks]
          BY <2>1 DEF ThinksInv, ThinksTypeOK
        <5>2. /\ GetFirstThinkTick(think[e]) \in Nat
              /\ GetFirstThinkTick(think[e]) <= think[e][c]
          BY <2>4, <5>1, FirstTickProperties
        <5>3. simThink.list[k].tick = GetFirstThinkTick(think[e])
          BY <3>1, <3>a, <4>2 DEF EntryIsCurrent
        <5> QED BY <2>1, <2>4, <5>2, <5>3
      <4> QED BY <4>1, <4>2
    <3>4. k \in Due
      BY <3>2, <3>3 DEF Due
    <3> HIDE DEF k
    <3>5. PICK n \in 0 .. Len(simThink.list) : \E from \in [1 .. n -> Due] :
             /\ \A d \in Due : \E i \in 1 .. n : from[i] = d
             /\ copy' = [i \in 1 .. n |-> simThink.list[from[i]].ent]
      BY <2>2 DEF ListCopy
    <3>6. PICK from \in [1 .. n -> Due] :
             /\ \A d \in Due : \E i \in 1 .. n : from[i] = d
             /\ copy' = [i \in 1 .. n |-> simThink.list[from[i]].ent]
      BY <3>5
    <3>7. PICK i \in 1 .. n : from[i] = k
      BY <3>4, <3>6
    <3>8. i \in DOMAIN copy' /\ copy'[i] = e
      BY <3>2, <3>6, <3>7
    <3> QED BY <3>8
  <2>5. c \in Nat
    BY FrameConstants DEF Functions
  <2>6. Awaited(e, c)'
    BY <2>1, <2>2, <2>4, <2>5 DEF Awaited
  <2> QED BY <2>3, <2>6
<1> QED BY <1>1, <1>2 DEF BeginThinks

(* A think function that is called is no longer scheduled. *)
LEMMA RunThinkOnTime ==
  ASSUME ThinksInv, FrameInv, OnTime, NEW f \in Ents, RunThink(f)
  PROVE  OnTime'
<1> SUFFICES ASSUME NEW e \in Called', NEW c \in Functions
             PROVE  NotLate(e, c)' /\ Awaited(e, c)'
  BY DEF OnTime
<1>1. /\ e \in Called /\ e \in Ents /\ at \in Functions
      /\ tick' = tick /\ phase = "think" /\ phase' = "think" /\ copy' = copy
      /\ at' = at /\ ~running /\ running'
      /\ think' = [think EXCEPT ![f][at] = Never]
      /\ copy # <<>> /\ f = copy[1]
  BY TailType, FrameConstants
     DEF RunThink, InTurn, entity, Called, ThinksInv, ThinksTypeOK, NextThink, Functions, FrameInv
<1>2. NotLate(e, c) /\ Awaited(e, c) /\ think \in [Ents -> [Functions -> Ticks]]
  BY <1>1 DEF OnTime, ThinksInv, ThinksTypeOK
<1>3. CASE e = f /\ c = at
  <2>1. think'[e][c] = Never
    BY <1>1, <1>2, <1>3
  <2> QED BY <2>1 DEF NotLate, Awaited, Never
<1>4. CASE ~(e = f /\ c = at)
  <2>1. think'[e][c] = think[e][c]
    BY <1>1, <1>2, <1>4
  <2>2. NotLate(e, c)'
    BY <1>1, <1>2, <2>1 DEF NotLate
  <2>3. c \in Int /\ at \in Int
    BY <1>1, FrameConstants DEF Functions
  <2>4. Awaited(e, c)'
    <3> SUFFICES ASSUME think[e][c] > 0, think[e][c] < tick
                 PROVE  \E i \in DOMAIN copy : copy[i] = e /\ (i = 1 => c >= at /\ c > at)
      BY <1>1, <2>1 DEF Awaited
    <3>1. PICK i \in DOMAIN copy : copy[i] = e /\ (i = 1 => c >= at)
      BY <1>1, <1>2 DEF Awaited
    <3> QED BY <1>1, <1>4, <2>3, <3>1
  <2> QED BY <2>2, <2>4
<1> QED BY <1>3, <1>4

(* The loop goes on to the next entity when this one has nothing to come.  *)
LEMMA NextEntityOnTime ==
  ASSUME ThinksInv, FrameInv, OnTime, UNCHANGED entity, UNCHANGED thinks,
         phase = "think", phase' = "think", tick' = tick, copy # <<>>,
         NextEntity, ~running', Head(copy) \notin Called \/ at = Thinks
  PROVE  OnTime'
<1> SUFFICES ASSUME NEW e \in Called', NEW c \in Functions
             PROVE  NotLate(e, c)' /\ Awaited(e, c)'
  BY DEF OnTime
<1>1. e \in Called /\ think' = think /\ NotLate(e, c) /\ Awaited(e, c)
  BY DEF entity, thinks, Called, OnTime
<1>2. NotLate(e, c)'
  BY <1>1 DEF NotLate
<1>3. ASSUME think[e][c] > 0, think[e][c] < tick
      PROVE  \E i \in DOMAIN copy' : copy'[i] = e
  <2>1. PICK i \in DOMAIN copy : copy[i] = e /\ (i = 1 => c >= at)
    BY <1>1, <1>3 DEF Awaited
  <2>2. i # 1
    BY <1>1, <2>1, TailType, FrameConstants DEF FrameInv, Functions
  <2> DEFINE n == Len(copy)
  <2>3. /\ n \in Nat /\ i \in 1 .. n /\ DOMAIN copy' = 1 .. n - 1
        /\ \A j \in 1 .. n - 1 : copy'[j] = copy[j + 1]
    BY <2>1, TailType DEF FrameInv, NextEntity
  <2> HIDE DEF n
  <2>4. i - 1 \in 1 .. n - 1 /\ copy'[i - 1] = copy[(i - 1) + 1] /\ (i - 1) + 1 = i
    BY <2>2, <2>3
  <2> QED BY <2>1, <2>3, <2>4
<1>4. at' = 0 /\ c \in Nat
  BY FrameConstants DEF NextEntity, Functions
<1>5. Awaited(e, c)'
  BY <1>1, <1>3, <1>4 DEF Awaited
<1> QED BY <1>2, <1>5

LEMMA PassThinkOnTime ==
  ASSUME ThinksInv, FrameInv, OnTime, NEW f \in Ents, PassThink(f)
  PROVE  OnTime'
<1> SUFFICES ASSUME NEW e \in Called', NEW c \in Functions
             PROVE  NotLate(e, c)' /\ Awaited(e, c)'
  BY DEF OnTime
<1>1. /\ e \in Called /\ think' = think /\ tick' = tick /\ copy' = copy
      /\ phase = "think" /\ phase' = "think" /\ ~running /\ ~running'
      /\ copy # <<>> /\ f = copy[1] /\ e \in Ents
  BY TailType DEF PassThink, InTurn, entity, thinks, Called, FrameInv, ThinksInv, ThinksTypeOK
<1>2. NotLate(e, c) /\ Awaited(e, c)
  BY <1>1 DEF OnTime
<1>3. NotLate(e, c)'
  BY <1>1, <1>2 DEF NotLate
<1>4. ASSUME think[e][c] > 0, think[e][c] < tick
      PROVE  \E i \in DOMAIN copy : copy[i] = e /\ (i = 1 => c >= at')
  <2>1. PICK i \in DOMAIN copy : copy[i] = e /\ (i = 1 => c >= at)
    BY <1>2, <1>4, <1>1 DEF Awaited
  <2>2. ASSUME i = 1 PROVE c >= at'
    <3>1. e = f /\ c >= at
      BY <1>1, <2>1, <2>2
    <3>2. ~Away(f)
      BY <1>1, <1>4, <3>1 DEF Away, Called, ThinksInv, NoThinkIsRight, FlagIsRight, WillThink
    <3>3. think[e][at] \notin 1 .. tick /\ at' = at + 1
      BY <3>1, <3>2 DEF PassThink
    <3>4. think[e][c] \in 1 .. tick
      BY <1>1, <1>2, <1>4, TicksAreIntegers DEF NotLate, FrameInv
    <3>5. c # at
      BY <3>3, <3>4
    <3> QED BY <1>1, <3>1, <3>3, <3>5, TicksAreIntegers
  <2> QED BY <2>1, <2>2
<1>5. Awaited(e, c)'
  BY <1>1, <1>4 DEF Awaited
<1> QED BY <1>3, <1>5

LEMMA HandlerReturnsOnTime ==
  ASSUME ThinksInv, FrameInv, OnTime, HandlerReturns
  PROVE  OnTime'
<1>1. /\ UNCHANGED entity /\ UNCHANGED thinks /\ tick' = tick
      /\ phase = "think" /\ phase' = "think" /\ running /\ ~running' /\ copy # <<>>
  BY DEF HandlerReturns, FrameInv
<1>2. CASE at = Thinks \/ Head(copy) \in killme
  <2>1. NextEntity /\ (Head(copy) \notin Called \/ at = Thinks)
    BY <1>2 DEF HandlerReturns, Called
  <2> QED BY <1>1, <2>1, NextEntityOnTime
<1>3. CASE ~(at = Thinks \/ Head(copy) \in killme)
  <2> SUFFICES ASSUME NEW e \in Called', NEW c \in Functions
               PROVE  NotLate(e, c)' /\ Awaited(e, c)'
    BY DEF OnTime
  <2>1. /\ e \in Called /\ e \in Ents /\ think' = think /\ NotLate(e, c) /\ Awaited(e, c)
        /\ at' = at + 1 /\ copy' = copy
    BY <1>1, <1>3
       DEF entity, thinks, Called, OnTime, HandlerReturns, ThinksInv, ThinksTypeOK
  <2>2. c \in Int /\ at \in Int
    BY <2>1, TicksAreIntegers
  <2>3. NotLate(e, c)'
    BY <1>1, <2>1 DEF NotLate
  <2>4. Awaited(e, c)'
    BY <1>1, <2>1, <2>2 DEF Awaited
  <2> QED BY <2>3, <2>4
<1> QED BY <1>2, <1>3

LEMMA MoveOnTime ==
  ASSUME ThinksInv, FrameInv, OnTime, NEW f \in Ents, Move(f)
  PROVE  OnTime'
<1>1. /\ UNCHANGED entity /\ UNCHANGED thinks /\ tick' = tick
      /\ phase = "think" /\ phase' = "think" /\ ~running /\ copy # <<>> /\ at = Thinks
  BY DEF Move, InTurn
<1>2. CASE f \in simulates \ PlayerSimulated
  <2> SUFFICES ASSUME NEW e \in Called', NEW c \in Functions
               PROVE  NotLate(e, c)' /\ Awaited(e, c)'
    BY DEF OnTime
  <2>1. /\ e \in Called /\ e \in Ents /\ think' = think /\ NotLate(e, c) /\ Awaited(e, c)
        /\ at' = at /\ copy' = copy
    BY <1>1, <1>2 DEF entity, thinks, Called, OnTime, Move, ThinksInv, ThinksTypeOK
  <2>2. ~(c >= at)
    BY <1>1, <2>1, TicksAreIntegers
  <2> QED BY <1>1, <2>1, <2>2 DEF NotLate, Awaited
<1>3. CASE f \notin simulates \ PlayerSimulated
  BY <1>1, <1>3, NextEntityOnTime DEF Move
<1> QED BY <1>2, <1>3

LEMMA EndThinksOnTime ==
  ASSUME ThinksInv, FrameInv, OnTime, EndThinks
  PROVE  OnTime'
<1> SUFFICES ASSUME NEW e \in Called', NEW c \in Functions
             PROVE  NotLate(e, c)' /\ Awaited(e, c)'
  BY DEF OnTime
<1>1. /\ e \in Called /\ e \in Ents /\ think' = think /\ tick' = tick
      /\ phase = "think" /\ phase' = "post" /\ copy = <<>>
      /\ NotLate(e, c) /\ Awaited(e, c)
  BY DEF EndThinks, entity, thinks, Called, OnTime, ThinksInv, ThinksTypeOK
<1>2. DOMAIN copy = {}
  BY <1>1
<1>3. ~(think[e][c] > 0 /\ think[e][c] < tick)
  BY <1>1, <1>2 DEF Awaited
<1> QED BY <1>1, <1>3, TicksAreIntegers DEF NotLate, Awaited

LEMMA NextOnTime ==
  ASSUME ThinksInv, ThinksInv', FrameInv, OnTime, [Next]_vars
  PROVE  OnTime'
<1>1. ASSUME NEW e \in Ents, NEW t \in Times, NEW moves \in BOOLEAN, Create(e, t, moves)
      PROVE  OnTime'
  <2>1. t <= 0 \/ t >= tick
    BY FrameConstants DEF Times, ThinksInv, Never
  <2>2. ASSUME NEW f \in Called', NEW c \in Functions
        PROVE  \/ think'[f][c] <= 0
               \/ think'[f][c] >= tick
               \/ f \in Called /\ think'[f][c] = think[f][c]
    <3>1. CASE f = e
      <4>1. think'[e] = [NoThinks EXCEPT ![0] = t]
        BY <1>1 DEF Create, ThinksInv, ThinksTypeOK, DeadIsBlank
      <4> QED BY <2>1, <3>1, <4>1 DEF NoThinks, Never
    <3>2. CASE f # e
      BY <1>1, <3>2 DEF Create, Called, ThinksInv, ThinksTypeOK
    <3> QED BY <3>1, <3>2
  <2> QED BY <1>1, <2>2, HandlerOnTime DEF Create
<1>2. ASSUME NEW e \in Ents, NEW d \in Functions, NEW t \in Times, SetNextThink(e, d, t)
      PROVE  OnTime'
  <2>1. t <= 0 \/ t >= tick
    BY FrameConstants DEF Times, ThinksInv, Never
  <2>2. Called' = Called /\ think' = [think EXCEPT ![e][d] = t]
    BY <1>2 DEF SetNextThink, NextThink, entity, Called
  <2>3. ASSUME NEW f \in Called', NEW c \in Functions
        PROVE  \/ think'[f][c] <= 0
               \/ think'[f][c] >= tick
               \/ f \in Called /\ think'[f][c] = think[f][c]
    <3>1. f \in Ents /\ think \in [Ents -> [Functions -> Ticks]]
      BY <2>2 DEF Called, ThinksInv, ThinksTypeOK
    <3>2. think'[f][c] = IF f = e /\ c = d THEN t ELSE think[f][c]
      BY <2>2, <3>1
    <3> QED BY <2>1, <2>2, <3>2
  <2> QED BY <1>2, <2>3, HandlerOnTime DEF SetNextThink
<1>3. ASSUME UNCHANGED frame, Called' \subseteq Called,
             \A f \in Called' : think'[f] = think[f]
      PROVE  OnTime'
  BY <1>3, HandlerOnTime
<1>4. ASSUME NEW e \in Ents,
             SetMoveType(e) \/ SetCheckUntouch(e) \/ UTIL_Remove(e) \/ PlayerUntouch(e)
      PROVE  OnTime'
  BY <1>3, <1>4 DEF SetMoveType, SetCheckUntouch, UTIL_Remove, PlayerUntouch, entity, thinks, Called
<1>5. ASSUME NEW e \in Ents, UTIL_RemoveImmediate(e)
      PROVE  OnTime'
  <2>1. UNCHANGED frame /\ Called' \subseteq Called
    BY <1>5 DEF UTIL_RemoveImmediate, Destroyed, Called
  <2>2. \A f \in Called' : think'[f] = think[f]
    BY <1>5 DEF UTIL_RemoveImmediate, Destroyed, Called, ThinksInv, ThinksTypeOK
  <2> QED BY <1>3, <2>1, <2>2
<1>6. CASE UNCHANGED vars
  BY <1>3, <1>6 DEF vars, entity, thinks, Called
<1>7. CASE BeginTouch \/ UntouchDone \/ EndTouch
  BY <1>7, ElsewhereOnTime DEF BeginTouch, UntouchDone, EndTouch, entity, thinks, Called
<1>8. ASSUME NEW e \in Ents, CheckForEntityUntouch(e)
      PROVE  OnTime'
  BY <1>8, ElsewhereOnTime DEF CheckForEntityUntouch, entity, thinks, Called
<1>9. CASE EndFrame
  <2>1. Called' \subseteq Called /\ \A e \in Called' : think'[e] = think[e]
    BY <1>9 DEF EndFrame, CleanupDeleteList, Destroyed, Called, ThinksInv, ThinksTypeOK
  <2> QED BY <1>9, <2>1, ElsewhereOnTime DEF EndFrame
<1> QED
  BY FunctionsOfProperties, <1>1, <1>2, <1>4, <1>5, <1>6, <1>7, <1>8, <1>9, BeginFrameOnTime, BeginThinksOnTime,
     RunThinkOnTime, PassThinkOnTime, MoveOnTime, HandlerReturnsOnTime, EndThinksOnTime
     DEF Next, Handler, GameFrame

LEMMA InitOnTime == Init => OnTime
  BY DEF Init, OnTime, Called

THEOREM FrameInvariant == Spec => [](FrameInv /\ OnTime)
<1>1. Init => FrameInv /\ OnTime
  BY InitFrameInv, InitOnTime
<1>2. ThinksInv /\ ThinksInv' /\ FrameInv /\ OnTime /\ [Next]_vars => FrameInv' /\ OnTime'
  BY NextFrameInv, NextOnTime
<1> QED BY <1>1, <1>2, ThinksInvariant, PTL DEF Spec

(* No think function is forgotten: each is called in the frame of its tick *)
(* or, if the tick was set during that frame, in the next.                 *)
THEOREM NeverLateCorrect == Spec => []NeverLate
<1>1. OnTime => NeverLate
  BY DEF OnTime, NeverLate, NotLate, Called
<1> QED BY <1>1, FrameInvariant, PTL

(* The types of all variables. *)
THEOREM TypeCorrect == Spec => []TypeOK
<1>1. ThinksInv /\ FrameInv => TypeOK
  BY DEF ThinksInv, FrameInv, TypeOK, ThinksTypeOK, Phases
<1> QED BY <1>1, ThinksInvariant, FrameInvariant, PTL
-------------------------------------------------------------------------------
(* Where UntouchNotForgotten finds an entity. *)
Listed(e) == IsIn(e, touchList) \/ (phase = "touch" /\ IsIn(e, copy))

LEMMA UntouchByEntity ==
  UntouchNotForgotten <=> \A e \in (checkUntouch \cap live) \ killme : Listed(e)
  BY DEF UntouchNotForgotten, Listed, IsIn

(* The head of the copy is dropped, and every other entity is still in it. *)
LEMMA TailKeeps ==
  ASSUME copy \in Seq(Ents), copy # <<>>, NEW e, e # Head(copy)
  PROVE  IsIn(e, Tail(copy)) <=> IsIn(e, copy)
<1> DEFINE n == Len(copy)
<1>1. /\ Head(copy) = copy[1] /\ n \in Nat \ {0} /\ DOMAIN copy = 1 .. n
      /\ DOMAIN Tail(copy) = 1 .. n - 1
      /\ \A i \in 1 .. n - 1 : Tail(copy)[i] = copy[i + 1]
  BY TailType
<1> HIDE DEF n
<1>2. ASSUME IsIn(e, copy) PROVE IsIn(e, Tail(copy))
  <2>1. PICK i \in 1 .. n : copy[i] = e
    BY <1>1, <1>2 DEF IsIn
  <2>2. i - 1 \in 1 .. n - 1 /\ (i - 1) + 1 = i
    BY <1>1, <2>1
  <2> QED BY <1>1, <2>1, <2>2 DEF IsIn
<1>3. ASSUME IsIn(e, Tail(copy)) PROVE IsIn(e, copy)
  <2>1. PICK i \in 1 .. n - 1 : Tail(copy)[i] = e
    BY <1>1, <1>3 DEF IsIn
  <2>2. i + 1 \in 1 .. n /\ copy[i + 1] = e
    BY <1>1, <2>1
  <2> QED BY <1>1, <2>2 DEF IsIn
<1> QED BY <1>2, <1>3

LEMMA AppendKeeps ==
  ASSUME touchList \in Seq(Ents), NEW e \in Ents
  PROVE  /\ \A f : IsIn(f, Append(touchList, e)) <=> f = e \/ IsIn(f, touchList)
         /\ NoTwice(touchList) /\ ~IsTouched(e, touchList) => NoTwice(Append(touchList, e))
<1> DEFINE n == Len(touchList)
           longer == Append(touchList, e)
<1>1. /\ longer \in Seq(Ents) /\ Len(longer) = n + 1
      /\ \A i \in 1 .. n : longer[i] = touchList[i]
      /\ longer[n + 1] = e
  BY AppendProperties
<1>2. n \in Nat /\ DOMAIN touchList = 1 .. n /\ DOMAIN longer = 1 .. n + 1
  BY <1>1, LenProperties
<1> HIDE DEF n, longer
<1>3. \A f : IsIn(f, longer) <=> f = e \/ IsIn(f, touchList)
  <2> SUFFICES ASSUME NEW f PROVE IsIn(f, longer) <=> f = e \/ IsIn(f, touchList)
    OBVIOUS
  <2>1. ASSUME IsIn(f, longer) PROVE f = e \/ IsIn(f, touchList)
    <3>1. PICK i \in 1 .. n + 1 : longer[i] = f
      BY <1>2, <2>1 DEF IsIn
    <3>2. i = n + 1 \/ i \in 1 .. n
      BY <1>2
    <3> QED BY <1>1, <1>2, <3>1, <3>2 DEF IsIn
  <2>2. ASSUME f = e PROVE IsIn(f, longer)
    <3>1. n + 1 \in 1 .. n + 1
      BY <1>2
    <3> QED BY <1>1, <1>2, <2>2, <3>1 DEF IsIn
  <2>3. ASSUME IsIn(f, touchList) PROVE IsIn(f, longer)
    <3>1. PICK i \in 1 .. n : touchList[i] = f
      BY <1>2, <2>3 DEF IsIn
    <3>2. i \in 1 .. n + 1
      BY <1>2
    <3> QED BY <1>1, <1>2, <3>1, <3>2 DEF IsIn
  <2> QED BY <2>1, <2>2, <2>3
<1>4. NoTwice(touchList) /\ ~IsTouched(e, touchList) => NoTwice(longer)
  <2> SUFFICES ASSUME NoTwice(touchList), ~IsTouched(e, touchList),
                      NEW i \in 1 .. n + 1, NEW j \in 1 .. n + 1, longer[i] = longer[j],
                      longer[i] \notin PlayerSimulated
               PROVE  i = j
    BY <1>2 DEF NoTwice
  <2>1. (i = n + 1 \/ i \in 1 .. n) /\ (j = n + 1 \/ j \in 1 .. n)
    BY <1>2
  <2>2. \A k \in 1 .. n : longer[k] = e => e \in PlayerSimulated
    BY <1>1, <1>2 DEF IsIn, IsTouched
  <2>3. i \in 1 .. n /\ j \in 1 .. n => i = j
    BY <1>1, <1>2 DEF NoTwice
  <2> QED BY <1>1, <2>1, <2>2, <2>3
<1> QED BY <1>3, <1>4 DEF longer

(* The check of an entity whose flag is set is not dropped by any step. *)
LEMMA NextUntouch ==
  ASSUME ThinksInv, FrameInv, UntouchNotForgotten, [Next]_vars
  PROVE  UntouchNotForgotten'
<1>0. \A e \in (checkUntouch \cap live) \ killme : e \in Ents /\ Listed(e)
  BY UntouchByEntity DEF ThinksInv, ThinksTypeOK
<1>a. SUFFICES \A e \in ((checkUntouch \cap live) \ killme)' : Listed(e)'
  BY DEF UntouchNotForgotten, Listed, IsIn
<1> SUFFICES ASSUME NEW e \in ((checkUntouch \cap live) \ killme)'
             PROVE  Listed(e)'
  OBVIOUS
<1>b. ASSUME touchList' = touchList, phase # "touch", e \in (checkUntouch \cap live) \ killme
      PROVE  Listed(e)'
  BY <1>0, <1>b DEF Listed
<1>c. ASSUME touchList' = touchList, copy' = copy, phase' = phase,
             e \in (checkUntouch \cap live) \ killme
      PROVE  Listed(e)'
  BY <1>0, <1>c DEF Listed
<1>1. ASSUME NEW f \in Ents, NEW t \in Times,
             \/ \E moves \in BOOLEAN : Create(f, t, moves)
             \/ \E c \in Functions : SetNextThink(f, c, t)
      PROVE  Listed(e)'
  <2>1. touchList' = touchList /\ copy' = copy /\ phase' = phase
    BY <1>1 DEF Create, SetNextThink, touches, frame
  <2>2. e \in (checkUntouch \cap live) \ killme
    BY <1>1 DEF Create, SetNextThink, touches, entity, FrameInv
  <2> QED BY <1>c, <2>1, <2>2
<1>2. ASSUME NEW f \in Ents, SetMoveType(f) \/ PlayerUntouch(f)
      PROVE  Listed(e)'
  BY <1>c, <1>2 DEF SetMoveType, PlayerUntouch, touches, entity, frame
<1>3. ASSUME NEW f \in Ents, SetCheckUntouch(f)
      PROVE  Listed(e)'
  <2>1. CASE e = f
    <3>1. e \notin killme
      BY <1>3 DEF SetCheckUntouch, entity
    <3>2. IsIn(e, touchList')
      BY <1>3, <2>1, <3>1, AppendKeeps DEF SetCheckUntouch, FrameInv
    <3> QED BY <3>2 DEF Listed, IsIn
  <2>2. CASE e # f
    <3>1. e \in (checkUntouch \cap live) \ killme
      BY <1>3, <2>2 DEF SetCheckUntouch, entity
    <3>2. IsIn(e, touchList) => IsIn(e, touchList')
      BY <1>3, AppendKeeps DEF SetCheckUntouch, FrameInv
    <3> QED BY <1>0, <1>3, <3>1, <3>2 DEF Listed, SetCheckUntouch, frame, IsIn
  <2> QED BY <2>1, <2>2
<1>4. ASSUME NEW f \in Ents, UTIL_Remove(f) \/ UTIL_RemoveImmediate(f)
      PROVE  Listed(e)'
  <2>1. /\ e \in (checkUntouch \cap live) \ killme /\ e # f
        /\ touchList' = RemoveTouch(f) /\ copy' = copy /\ phase' = phase
    BY <1>4 DEF UTIL_Remove, UTIL_RemoveImmediate, UpdateOnRemove, Destroyed, frame
  <2>2. IsIn(e, touchList) => IsIn(e, touchList')
    BY <1>0, <2>1, RemoveTouchProperties DEF FrameInv
  <2> QED BY <1>0, <2>1, <2>2 DEF Listed, IsIn
<1>5. CASE BeginThinks \/ EndFrame \/ \E simulating \in BOOLEAN : BeginFrame(simulating)
  <2>1. touchList' = touchList /\ phase # "touch"
    BY <1>5 DEF BeginThinks, EndFrame, BeginFrame, CleanupDeleteList
  <2>2. e \in (checkUntouch \cap live) \ killme
    BY <1>5
       DEF BeginThinks, EndFrame, BeginFrame, CleanupDeleteList, Destroyed, ThinksInv, ThinksTypeOK
  <2> QED BY <1>b, <2>1, <2>2
<1>6. ASSUME NEW f \in Ents, RunThink(f) \/ PassThink(f) \/ Move(f)
      PROVE  Listed(e)'
  BY <1>b, <1>6 DEF RunThink, PassThink, Move, InTurn, touches, entity
<1>7. CASE HandlerReturns \/ EndThinks
  BY <1>b, <1>7 DEF HandlerReturns, EndThinks, touches, entity
<1>8. CASE BeginTouch
  BY <1>0, <1>8 DEF BeginTouch, Listed, entity
<1>9. ASSUME NEW f \in Ents, CheckForEntityUntouch(f)
      PROVE  Listed(e)'
  <2>1. /\ e \in (checkUntouch \cap live) \ killme /\ touchList' = touchList
        /\ phase = "touch" /\ phase' = "touch" /\ copy # <<>> /\ f = Head(copy)
    BY <1>9 DEF CheckForEntityUntouch, touches, entity
  <2>2. CASE f \in checkUntouch
    BY <1>c, <1>9, <2>1, <2>2 DEF CheckForEntityUntouch
  <2>3. CASE f \notin checkUntouch
    <3>1. e # f /\ copy' = Tail(copy)
      BY <1>9, <2>1, <2>3 DEF CheckForEntityUntouch, NextEntity
    <3> QED BY <1>0, <2>1, <3>1, TailKeeps DEF Listed, FrameInv, IsIn
  <2> QED BY <2>2, <2>3
<1>10. CASE UntouchDone
  <2>1. /\ e \in (checkUntouch \cap live) \ killme /\ touchList' = touchList
        /\ phase = "touch" /\ phase' = "touch" /\ copy # <<>>
        /\ e # Head(copy) /\ copy' = Tail(copy)
    BY <1>10 DEF UntouchDone, entity, NextEntity, FrameInv
  <2> QED BY <1>0, <2>1, TailKeeps DEF Listed, FrameInv, IsIn
<1>11. CASE EndTouch
  <2>1. /\ e \in (checkUntouch \cap live) \ killme /\ touchList' = touchList
        /\ copy = <<>>
    BY <1>11 DEF EndTouch, entity, touches
  <2>2. ~IsIn(e, copy)
    BY <2>1 DEF IsIn
  <2> QED BY <1>0, <2>1, <2>2 DEF Listed, IsIn
<1>12. CASE UNCHANGED vars
  BY <1>c, <1>12 DEF vars, entity, touches, frame
<1> QED
  BY FunctionsOfProperties, <1>1, <1>2, <1>3, <1>4, <1>5, <1>6, <1>7, <1>8, <1>9, <1>10, <1>11, <1>12
     DEF Next, Handler, GameFrame

(* "At the end of frame it will check to see if it's no longer touching    *)
(* ents": whatever is touched, moved or removed while others are checked.  *)
THEOREM UntouchCorrect == Spec => []UntouchNotForgotten
<1>1. Init => UntouchNotForgotten
  BY DEF Init, UntouchNotForgotten
<1>2. ThinksInv /\ FrameInv /\ UntouchNotForgotten /\ [Next]_vars => UntouchNotForgotten'
  BY NextUntouch
<1> QED BY <1>1, <1>2, ThinksInvariant, FrameInvariant, PTL DEF Spec
-------------------------------------------------------------------------------
(* What the two lists point at but for the entities that players simulate: *)
(* the list of touches holds an entity once, while it has the flag and no  *)
(* mark; the copy of it while it has the flag.                             *)
TouchListInv ==
  /\ NoTwice(touchList)
  /\ \A e : IsTouched(e, touchList) => e \in checkUntouch /\ e \notin killme
TouchCopyInv ==
  phase = "touch" =>
    /\ NoTwice(copy)
    /\ \A e : IsTouched(e, copy) => e \in checkUntouch /\ ~IsTouched(e, touchList)
ThinkCopyInv == phase = "think" => \A e : IsIn(e, copy) => e \in live
PointerInv == TouchListInv /\ TouchCopyInv /\ ThinkCopyInv

LEMMA PointerInvImplies == FrameInv /\ PointerInv => PointersAlive
<1> SUFFICES ASSUME FrameInv, PointerInv PROVE PointersAlive
  OBVIOUS
<1>1. \A i \in DOMAIN touchList : touchList[i] \in live \cup PlayerSimulated
  BY DEF PointerInv, TouchListInv, FrameInv, IsIn, IsTouched
<1>2. \A i \in DOMAIN copy : copy[i] \in live \cup PlayerSimulated
  <2>1. CASE phase = "touch"
    BY <2>1 DEF PointerInv, TouchCopyInv, FrameInv, IsIn, IsTouched
  <2>2. CASE phase = "think"
    BY <2>2 DEF PointerInv, ThinkCopyInv, IsIn
  <2>3. CASE phase \notin {"think", "touch"}
    BY <2>3 DEF FrameInv
  <2> QED BY <2>1, <2>2, <2>3
<1> QED BY <1>1, <1>2 DEF PointersAlive, PointersInto

LEMMA InitPointerInv == Init => PointerInv
<1> SUFFICES ASSUME Init PROVE PointerInv
  OBVIOUS
<1>1. DOMAIN touchList = {} /\ phase = "engine"
  BY DEF Init
<1> QED BY <1>1 DEF PointerInv, TouchListInv, TouchCopyInv, ThinkCopyInv, NoTwice, IsIn, IsTouched

LEMMA TailNoTwice ==
  ASSUME copy \in Seq(Ents), copy # <<>>, NoTwice(copy)
  PROVE  NoTwice(Tail(copy)) /\ ~IsTouched(Head(copy), Tail(copy))
<1> DEFINE n == Len(copy)
<1>1. /\ Head(copy) = copy[1] /\ n \in Nat \ {0} /\ DOMAIN copy = 1 .. n
      /\ DOMAIN Tail(copy) = 1 .. n - 1
      /\ \A i \in 1 .. n - 1 : Tail(copy)[i] = copy[i + 1]
  BY TailType
<1> HIDE DEF n
<1>2. 1 \in 1 .. n /\ \A i \in 1 .. n - 1 : i + 1 \in 1 .. n /\ i + 1 # 1
  BY <1>1
<1>3. \A i, j \in 1 .. n - 1 : Tail(copy)[i] = Tail(copy)[j] => i = j \/ Tail(copy)[i] \in PlayerSimulated
  <2> SUFFICES ASSUME NEW i \in 1 .. n - 1, NEW j \in 1 .. n - 1, Tail(copy)[i] = Tail(copy)[j],
                      Tail(copy)[i] \notin PlayerSimulated
               PROVE  i = j
    OBVIOUS
  <2>1. i + 1 = j + 1
    BY <1>1, <1>2 DEF NoTwice
  <2> QED BY <2>1
<1>4. \A i \in 1 .. n - 1 : Tail(copy)[i] = Head(copy) => Head(copy) \in PlayerSimulated
  BY <1>1, <1>2 DEF NoTwice
<1> QED BY <1>1, <1>3, <1>4 DEF NoTwice, IsIn, IsTouched

(* What is copied to think is alive, and stays so while handlers run, for  *)
(* nothing is destroyed meanwhile.                                         *)
LEMMA NextThinkCopy ==
  ASSUME ThinksInv, FrameInv, ThinkCopyInv, [Next]_vars
  PROVE  ThinkCopyInv'
<1> SUFFICES ASSUME phase' = "think", NEW e, IsIn(e, copy') PROVE e \in live'
  BY DEF ThinkCopyInv, IsIn
<1>1. CASE phase = "think" /\ live \subseteq live' /\ copy' = copy
  BY <1>1 DEF ThinkCopyInv
<1>2. CASE phase = "think" /\ live \subseteq live' /\ NextEntity /\ copy # <<>>
  <2>1. IsIn(e, copy)
    <3>1. PICK i \in DOMAIN Tail(copy) : Tail(copy)[i] = e
      BY <1>2 DEF IsIn, NextEntity
    <3>2. /\ DOMAIN copy = 1 .. Len(copy) /\ DOMAIN Tail(copy) = 1 .. Len(copy) - 1
          /\ Len(copy) \in Nat
          /\ \A j \in 1 .. Len(copy) - 1 : Tail(copy)[j] = copy[j + 1]
      BY <1>2, TailType DEF FrameInv
    <3>3. i + 1 \in DOMAIN copy /\ copy[i + 1] = e
      BY <3>1, <3>2
    <3> QED BY <3>3 DEF IsIn
  <2> QED BY <1>2, <2>1 DEF ThinkCopyInv
<1>3. CASE BeginThinks
  <2>1. phase = "pre" /\ ListCopy(copy')
    BY <1>3 DEF BeginThinks
  <2>2. PICK n \in 0 .. Len(simThink.list) : \E from \in [1 .. n -> Due] :
           copy' = [i \in 1 .. n |-> simThink.list[from[i]].ent]
    BY <2>1 DEF ListCopy
  <2>3. PICK from \in [1 .. n -> Due] : copy' = [i \in 1 .. n |-> simThink.list[from[i]].ent]
    BY <2>2
  <2>4. PICK i \in 1 .. n : simThink.list[from[i]].ent = e
    BY <2>3 DEF IsIn
  <2>5. from[i] \in DOMAIN simThink.list
    BY <2>3 DEF Due
  <2>6. /\ simThink.list \in Seq(Entries) /\ Len(simThink.list) \in Nat
        /\ DOMAIN simThink.list = 1 .. Len(simThink.list)
    BY LenProperties DEF ThinksInv, ThinksTypeOK, Entries
  <2>7. from[i] # 0 /\ simThink.list[from[i]] \in Entries
    BY <2>5, <2>6, ElementOfSeq
  <2>8. e \in Ents /\ simThink.index[e] = from[i]
    BY <2>4, <2>5, <2>7 DEF ThinksInv, IndexMatchesList, Matches, Entries
  <2>9. e \in live \ killme
    BY <2>7, <2>8 DEF EntryIsCurrent, EntriesAreCurrent, ThinksInv
  <2> QED BY <1>3, <2>9 DEF BeginThinks, CleanupDeleteList, Destroyed, ThinksInv, ThinksTypeOK
<1>4. ASSUME NEW f \in Ents, NEW t \in Times,
             \/ \E moves \in BOOLEAN : Create(f, t, moves)
             \/ \E c \in Functions : SetNextThink(f, c, t)
      PROVE  phase = "think" /\ live \subseteq live' /\ copy' = copy
  BY <1>4 DEF Create, SetNextThink, entity, frame
<1>5. ASSUME NEW f \in Ents,
             \/ SetMoveType(f) \/ SetCheckUntouch(f) \/ UTIL_Remove(f) \/ UTIL_RemoveImmediate(f)
             \/ PlayerUntouch(f) \/ RunThink(f) \/ PassThink(f)
      PROVE  phase = "think" /\ live \subseteq live' /\ copy' = copy
  BY <1>5 DEF SetMoveType, SetCheckUntouch, UTIL_Remove, UTIL_RemoveImmediate, PlayerUntouch,
              RunThink, PassThink, InTurn, entity, frame
<1>6. ASSUME NEW f \in Ents, Move(f) \/ CheckForEntityUntouch(f)
      PROVE  e \in live'
  BY <1>1, <1>2, <1>6 DEF Move, CheckForEntityUntouch, InTurn, entity
<1>7. CASE HandlerReturns
  BY <1>1, <1>2, <1>7 DEF HandlerReturns, FrameInv, entity
<1>8. CASE UNCHANGED vars
  BY <1>1, <1>8 DEF vars, frame, entity
<1>9. ~(UntouchDone \/ EndThinks \/ BeginTouch \/ EndTouch \/ EndFrame)
      /\ ~ \E simulating \in BOOLEAN : BeginFrame(simulating)
  BY DEF UntouchDone, EndThinks, BeginTouch, EndTouch, EndFrame, BeginFrame
<1> QED
  BY FunctionsOfProperties, <1>1, <1>3, <1>4, <1>5, <1>6, <1>7, <1>8, <1>9 DEF Next, Handler, GameFrame

LEMMA NextTouchLists ==
  ASSUME ThinksInv, FrameInv, TouchListInv, TouchCopyInv, [Next]_vars
  PROVE  TouchListInv' /\ TouchCopyInv'
<1>a. CASE /\ UNCHANGED <<touches, copy, phase>>
           /\ \A e : IsTouched(e, touchList) => e \notin killme'
  BY <1>a DEF touches, TouchListInv, TouchCopyInv, NoTwice, IsIn, IsTouched
<1>b. CASE /\ touchList' = touchList /\ phase' # "touch"
           /\ \A e : IsTouched(e, touchList) => e \in checkUntouch' /\ e \notin killme'
  BY <1>b DEF TouchListInv, TouchCopyInv, NoTwice, IsIn, IsTouched
<1>1. ASSUME NEW f \in Ents, NEW t \in Times,
             \/ \E moves \in BOOLEAN : Create(f, t, moves)
             \/ \E c \in Functions : SetNextThink(f, c, t)
      PROVE  TouchListInv' /\ TouchCopyInv'
  BY <1>a, <1>1 DEF Create, SetNextThink, entity, frame, TouchListInv
<1>2. ASSUME NEW f \in Ents, SetMoveType(f)
      PROVE  TouchListInv' /\ TouchCopyInv'
  BY <1>a, <1>2 DEF SetMoveType, entity, frame, TouchListInv
<1>3. ASSUME NEW f \in Ents, SetCheckUntouch(f)
      PROVE  TouchListInv' /\ TouchCopyInv'
  <2>1. /\ f \notin checkUntouch /\ checkUntouch' = checkUntouch \cup {f}
        /\ killme' = killme /\ copy' = copy /\ phase' = phase
    BY <1>3 DEF SetCheckUntouch, entity, frame
  <2>2. ~IsTouched(f, touchList)
    BY <2>1 DEF TouchListInv
  <2>3. CASE f \in killme
    <3>1. touchList' = touchList
      BY <1>3, <2>3 DEF SetCheckUntouch
    <3> QED BY <2>1, <3>1 DEF TouchListInv, TouchCopyInv, NoTwice, IsIn, IsTouched
  <2>4. CASE f \notin killme
    <3>1. touchList' = Append(touchList, f)
      BY <1>3, <2>4 DEF SetCheckUntouch
    <3>2. /\ \A e : IsIn(e, touchList') <=> e = f \/ IsIn(e, touchList)
          /\ NoTwice(touchList')
      BY <2>2, <3>1, AppendKeeps DEF TouchListInv, FrameInv
    <3>3. TouchListInv'
      BY <2>1, <2>4, <3>2 DEF TouchListInv, NoTwice, IsIn, IsTouched
    <3>4. ASSUME phase = "touch"
          PROVE  NoTwice(copy') /\ \A e : IsTouched(e, copy') => e \in checkUntouch' /\ ~IsTouched(e, touchList')
      BY <2>1, <3>2, <3>4 DEF TouchCopyInv, IsTouched
    <3> QED BY <2>1, <3>3, <3>4 DEF TouchCopyInv, NoTwice, IsIn, IsTouched
  <2> QED BY <2>3, <2>4
<1>4. ASSUME NEW f \in Ents, UTIL_Remove(f) \/ UTIL_RemoveImmediate(f)
      PROVE  TouchListInv' /\ TouchCopyInv'
  <2>1. /\ touchList' = RemoveTouch(f) /\ copy' = copy /\ phase' = phase
        /\ \A e : e \in checkUntouch /\ e # f => e \in checkUntouch'
        /\ \A e : e \in killme' => e \in killme \/ e = f
    BY <1>4 DEF UTIL_Remove, UTIL_RemoveImmediate, UpdateOnRemove, Destroyed, frame
  <2>2. /\ touchList' \in Seq(Ents)
        /\ \A e \in Ents \ {f} : IsIn(e, touchList') <=> IsIn(e, touchList)
        /\ NoTwice(touchList') /\ ~IsTouched(f, touchList')
    BY <2>1, RemoveTouchProperties DEF TouchListInv, FrameInv, IsTouched
  <2>3. \A e : IsTouched(e, touchList') => e # f /\ IsTouched(e, touchList)
    <3>1. \A e : IsIn(e, touchList') => e \in Ents
      BY <2>2, LenProperties DEF IsIn
    <3> QED BY <2>2, <3>1 DEF IsTouched
  <2>4. TouchListInv'
    BY <2>1, <2>2, <2>3 DEF TouchListInv, NoTwice, IsIn, IsTouched
  <2>5. phase = "touch" /\ IsTouched(f, copy) => f \in checkUntouch'
    BY <1>4 DEF UTIL_Remove, UTIL_RemoveImmediate, TouchCopyInv, IsIn, IsTouched
  <2>6. ASSUME phase = "touch"
        PROVE  NoTwice(copy') /\ \A e : IsTouched(e, copy') => e \in checkUntouch' /\ ~IsTouched(e, touchList')
    BY <2>1, <2>3, <2>5, <2>6 DEF TouchCopyInv
  <2> QED BY <2>1, <2>4, <2>6 DEF TouchCopyInv, NoTwice, IsIn, IsTouched
<1>5. CASE BeginThinks \/ EndFrame \/ \E simulating \in BOOLEAN : BeginFrame(simulating)
  <2>1. touchList' = touchList /\ phase' # "touch"
    BY <1>5 DEF BeginThinks, EndFrame, BeginFrame, CleanupDeleteList
  <2>2. \A e : IsTouched(e, touchList) => e \in checkUntouch' /\ e \notin killme'
    BY <1>5 DEF BeginThinks, EndFrame, BeginFrame, CleanupDeleteList, Destroyed, TouchListInv,
                ThinksInv, ThinksTypeOK
  <2> QED BY <1>b, <2>1, <2>2
<1>6. ASSUME NEW f \in Ents, RunThink(f) \/ PassThink(f) \/ Move(f)
      PROVE  TouchListInv' /\ TouchCopyInv'
  BY <1>b, <1>6 DEF RunThink, PassThink, Move, InTurn, touches, entity, TouchListInv
<1>7. CASE HandlerReturns \/ EndThinks \/ EndTouch
  BY <1>b, <1>7 DEF HandlerReturns, EndThinks, EndTouch, touches, entity, TouchListInv
<1>8. CASE BeginTouch
  <2>1. /\ copy' = touchList /\ touchList' = <<>> /\ checkUntouch' = checkUntouch
        /\ killme' = killme
    BY <1>8 DEF BeginTouch, entity
  <2>2. DOMAIN touchList' = {}
    BY <2>1
  <2>3. TouchListInv'
    BY <2>2 DEF TouchListInv, NoTwice, IsIn, IsTouched
  <2>4. TouchCopyInv'
    BY <2>1, <2>2 DEF TouchListInv, TouchCopyInv, NoTwice, IsIn, IsTouched
  <2> QED BY <2>3, <2>4
<1>9. CASE /\ phase = "touch" /\ phase' = "touch" /\ copy # <<>> /\ copy' = Tail(copy)
           /\ touchList' = touchList /\ killme' = killme
           /\ checkUntouch' = checkUntouch \ {Head(copy)}
  <2>1. NoTwice(copy) /\ copy \in Seq(Ents) /\ Head(copy) = copy[1] /\ 1 \in DOMAIN copy
    BY <1>9, TailType DEF TouchCopyInv, FrameInv
  <2>2. Head(copy) \in PlayerSimulated \/ IsTouched(Head(copy), copy)
    BY <2>1 DEF IsIn, IsTouched
  <2>3. TouchListInv'
    BY <1>9, <2>2 DEF TouchListInv, TouchCopyInv, NoTwice, IsIn, IsTouched
  <2>4. NoTwice(copy') /\ ~IsTouched(Head(copy), copy')
    BY <1>9, <2>1, TailNoTwice
  <2>5. \A e : IsTouched(e, copy') => e \in checkUntouch' /\ ~IsTouched(e, touchList)
    BY <1>9, <2>1, <2>4, TailKeeps DEF TouchCopyInv, IsTouched
  <2> QED BY <1>9, <2>3, <2>4, <2>5 DEF TouchCopyInv, NoTwice, IsIn, IsTouched
<1>10. ASSUME NEW f \in Ents, CheckForEntityUntouch(f)
       PROVE  TouchListInv' /\ TouchCopyInv'
  <2>1. /\ phase = "touch" /\ phase' = "touch" /\ copy # <<>> /\ f = Head(copy)
        /\ touchList' = touchList /\ killme' = killme /\ checkUntouch' = checkUntouch
    BY <1>10 DEF CheckForEntityUntouch, touches, entity
  <2>2. CASE f \in checkUntouch
    BY <1>a, <1>10, <2>1, <2>2 DEF CheckForEntityUntouch, touches, TouchListInv
  <2>3. CASE f \notin checkUntouch
    <3>1. copy' = Tail(copy)
      BY <1>10, <2>3 DEF CheckForEntityUntouch, NextEntity
    <3>2. checkUntouch' = checkUntouch \ {Head(copy)}
      BY <2>1, <2>3
    <3> QED BY <1>9, <2>1, <3>1, <3>2
  <2> QED BY <2>2, <2>3
<1>11. CASE UntouchDone
  <2>1. /\ phase = "touch" /\ phase' = "touch" /\ copy # <<>> /\ copy' = Tail(copy)
        /\ touchList' = touchList /\ killme' = killme
        /\ checkUntouch' = checkUntouch \ {Head(copy)}
    BY <1>11 DEF UntouchDone, NextEntity, entity, FrameInv
  <2> QED BY <1>9, <2>1
<1>12. ASSUME NEW f \in Ents, PlayerUntouch(f)
       PROVE  TouchListInv' /\ TouchCopyInv'
  <2>1. \A e : IsTouched(e, touchList) => e \in checkUntouch' /\ e \notin killme'
    BY <1>12 DEF PlayerUntouch, TouchListInv, IsTouched, entity
  <2>2. touchList' = touchList /\ phase' # "touch"
    BY <1>12 DEF PlayerUntouch, frame
  <2> QED BY <1>b, <2>1, <2>2
<1>13. CASE UNCHANGED vars
  BY <1>a, <1>13 DEF vars, frame, entity, TouchListInv
<1> QED
  BY FunctionsOfProperties, <1>1, <1>2, <1>3, <1>4, <1>5, <1>6, <1>7, <1>8, <1>10, <1>11, <1>12, <1>13
     DEF Next, Handler, GameFrame

(* "Entity will not actually be deleted until the next frame, so there can *)
(* be no pointer errors": true of the copied lists and of the list of      *)
(* touches, but for the entities that players simulate.                    *)
THEOREM PointersCorrect == Spec => []PointersAlive
<1>1. Init => PointerInv
  BY InitPointerInv
<1>2. ThinksInv /\ FrameInv /\ PointerInv /\ [Next]_vars => PointerInv'
  BY NextThinkCopy, NextTouchLists DEF PointerInv
<1>3. FrameInv /\ PointerInv => PointersAlive
  BY PointerInvImplies
<1> QED BY <1>1, <1>2, <1>3, ThinksInvariant, FrameInvariant, PTL DEF Spec
=============================================================================
