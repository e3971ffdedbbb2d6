---------------------------- MODULE TSQueueProofs ----------------------------
(***************************************************************************)
(* Proofs about TSQueue, as long as the sequence number of the free list   *)
(* does not come round (MaxPop < Half): types, no element lost or          *)
(* delivered twice, empty means empty, and the free list is a stack.       *)
(***************************************************************************)
EXTENDS TSQueue, SelectionProofs, FiniteSetTheorems

LEMMA ConstantsApart ==
  /\ Null \notin Nodes /\ End \notin Nodes /\ Null # End /\ Dummy \in Nodes
  /\ MaxPush \in Nat /\ MaxPop \in Nat /\ Half \in Nat \ {0} /\ NoItem \notin Items
  /\ IsFiniteSet(Nodes)
  BY QueueConstants DEF Items

-----------------------------------------------------------------------------
(* The chains of nodes.  own[n] is the chain that n stands in: End for the *)
(* queue, the first node for one that a push prepares, Null for none.      *)
(* pos[n] is its place there.  No chain has a node twice, only the last    *)
(* node of a chain leads to End, and nodes outside never do.               *)
Forest(nx, own, pos, h) ==
  /\ nx \in [Nodes -> Pointers]
  /\ own \in [Nodes -> Pointers] /\ pos \in [Nodes -> Nat]
  /\ \A n \in Nodes : own[n] = Null => nx[n] # End
  /\ \A n \in Nodes : own[n] # Null => nx[n] # Null
  /\ \A n \in Nodes : own[n] # Null /\ nx[n] # End
        => own[nx[n]] = own[n] /\ pos[nx[n]] = pos[n] + 1
  /\ \A n, m \in Nodes : own[n] # Null /\ own[m] = own[n] /\ pos[m] = pos[n] => m = n
  /\ \A n, m \in Nodes : own[n] # Null /\ own[m] = own[n] /\ nx[n] = End => pos[m] <= pos[n]
  /\ \A n \in Nodes : own[n] \in Nodes => own[own[n]] = own[n] /\ pos[own[n]] = 0
  /\ h \in Nodes /\ own[h] = End
  /\ \A n \in Nodes : own[n] = End => pos[h] <= pos[n]

LEMMA ForestNext ==
  ASSUME NEW nx, NEW own, NEW pos, NEW h, Forest(nx, own, pos, h),
         NEW n \in Nodes, own[n] # Null, nx[n] # End
  PROVE  nx[n] \in Nodes /\ own[nx[n]] = own[n] /\ pos[nx[n]] = pos[n] + 1
  BY DEF Forest, Pointers

(* Push prepares a node: a chain of its own. *)
LEMMA ChainBegins ==
  ASSUME NEW nx, NEW own, NEW pos, NEW h, Forest(nx, own, pos, h),
         NEW x \in Nodes, own[x] = Null
  PROVE  Forest([nx EXCEPT ![x] = End], [own EXCEPT ![x] = x], [pos EXCEPT ![x] = 0], h)
<1> DEFINE nx2 == [nx EXCEPT ![x] = End]
           own2 == [own EXCEPT ![x] = x]
           pos2 == [pos EXCEPT ![x] = 0]
<1>1. /\ nx \in [Nodes -> Pointers] /\ own \in [Nodes -> Pointers] /\ pos \in [Nodes -> Nat]
      /\ h \in Nodes /\ own[h] = End
  BY DEF Forest
<1>2. /\ nx2 \in [Nodes -> Pointers] /\ own2 \in [Nodes -> Pointers] /\ pos2 \in [Nodes -> Nat]
      /\ \A n \in Nodes : /\ nx2[n] = IF n = x THEN End ELSE nx[n]
                          /\ own2[n] = IF n = x THEN x ELSE own[n]
                          /\ pos2[n] = IF n = x THEN 0 ELSE pos[n]
  BY <1>1 DEF Pointers
<1>3. x # Null /\ x # End /\ x # h /\ Null # End
  BY <1>1, ConstantsApart
<1> HIDE DEF nx2, own2, pos2
<1>4. ASSUME NEW n \in Nodes, n # x, own[n] # Null  PROVE own[n] # x
  <2>1. own[n] = x => own[x] = x
    BY DEF Forest
  <2> QED  BY <1>3, <2>1
<1>5. ASSUME NEW n \in Nodes, own2[n] # Null, nx2[n] # End
      PROVE  own2[nx2[n]] = own2[n] /\ pos2[nx2[n]] = pos2[n] + 1
  <2>1. n # x /\ own[n] # Null /\ nx[n] # End /\ nx2[n] = nx[n]
    BY <1>2, <1>5
  <2>2. nx[n] \in Nodes /\ own[nx[n]] = own[n] /\ pos[nx[n]] = pos[n] + 1
    BY <2>1, ForestNext
  <2> QED  BY <1>2, <2>1, <2>2
<1>6. ASSUME NEW n \in Nodes, NEW m \in Nodes, own2[n] # Null, own2[m] = own2[n]
      PROVE  /\ pos2[m] = pos2[n] => m = n
             /\ nx2[n] = End => pos2[m] <= pos2[n]
  <2>1. CASE n = x \/ m = x
    BY <1>1, <1>2, <1>3, <1>4, <1>6, <2>1
  <2>2. CASE n # x /\ m # x
    BY <1>2, <1>6, <2>2 DEF Forest
  <2> QED  BY <2>1, <2>2
<1>7. \A n \in Nodes : own2[n] \in Nodes => own2[own2[n]] = own2[n] /\ pos2[own2[n]] = 0
  BY <1>2, <1>4, ConstantsApart DEF Forest
<1>8. \A n \in Nodes : /\ own2[n] = Null => nx2[n] # End
                       /\ own2[n] # Null => nx2[n] # Null
                       /\ own2[n] = End => pos2[h] <= pos2[n]
  BY <1>2, <1>3 DEF Forest
<1>9. own2[h] = End
  BY <1>1, <1>2, <1>3
<1> QED  BY <1>1, <1>2, <1>5, <1>6, <1>7, <1>8, <1>9 DEF Forest, nx2, own2, pos2

(* A chain is hung behind the last node of another. *)
Hung(own, x, z) == [n \in Nodes |-> IF own[n] = x THEN own[z] ELSE own[n]]
Moved(own, pos, x, z) == [n \in Nodes |-> IF own[n] = x THEN pos[n] + pos[z] + 1 ELSE pos[n]]

LEMMA ChainHung ==
  ASSUME NEW nx, NEW own, NEW pos, NEW h, Forest(nx, own, pos, h),
         NEW x \in Nodes, own[x] = x, NEW z \in Nodes, own[z] # Null, own[z] # x, nx[z] = End
  PROVE  Forest([nx EXCEPT ![z] = x], Hung(own, x, z), Moved(own, pos, x, z), h)
<1> DEFINE nx2 == [nx EXCEPT ![z] = x]
           own2 == Hung(own, x, z)
           pos2 == Moved(own, pos, x, z)
<1>1. /\ nx \in [Nodes -> Pointers] /\ own \in [Nodes -> Pointers] /\ pos \in [Nodes -> Nat]
      /\ h \in Nodes /\ own[h] = End /\ pos[x] = 0
  BY DEF Forest
<1>2. /\ nx2 \in [Nodes -> Pointers] /\ own2 \in [Nodes -> Pointers] /\ pos2 \in [Nodes -> Nat]
      /\ \A n \in Nodes : /\ nx2[n] = IF n = z THEN x ELSE nx[n]
                          /\ own2[n] = IF own[n] = x THEN own[z] ELSE own[n]
                          /\ pos2[n] = IF own[n] = x THEN pos[n] + pos[z] + 1 ELSE pos[n]
  BY <1>1 DEF Pointers, Hung, Moved
<1>3. x # Null /\ x # End /\ x # z /\ Null # End
  BY <1>1, ConstantsApart
<1> HIDE DEF nx2, own2, pos2
<1>4. \A n \in Nodes : own[n] # x => own2[n] = own[n] /\ pos2[n] = pos[n]
  BY <1>2
<1>5. \A n \in Nodes : own[n] = x => own2[n] = own[z] /\ pos2[n] = pos[n] + pos[z] + 1
  BY <1>2
<1>6. ASSUME NEW n \in Nodes, own2[n] # Null, nx2[n] # End
      PROVE  own2[nx2[n]] = own2[n] /\ pos2[nx2[n]] = pos2[n] + 1
  <2>1. CASE n = z
    <3>1. nx2[n] = x /\ own2[x] = own[z] /\ pos2[x] = pos[z] + 1 /\ own2[z] = own[z] /\ pos2[z] = pos[z]
      BY <1>1, <1>2, <1>4, <1>5, <2>1
    <3> QED  BY <2>1, <3>1
  <2>2. CASE n # z
    <3>1. own[n] # Null /\ nx[n] # End /\ nx2[n] = nx[n]
      BY <1>2, <1>3, <1>6, <2>2
    <3>2. nx[n] \in Nodes /\ own[nx[n]] = own[n] /\ pos[nx[n]] = pos[n] + 1
      BY <3>1, ForestNext
    <3>3. CASE own[n] = x
      <4>1. own2[nx[n]] = own[z] /\ pos2[nx[n]] = pos[n] + 1 + pos[z] + 1 /\ own2[n] = own[z]
            /\ pos2[n] = pos[n] + pos[z] + 1
        BY <1>5, <3>2, <3>3
      <4> QED  BY <1>1, <3>1, <4>1
    <3>4. CASE own[n] # x
      BY <1>4, <3>1, <3>2, <3>4
    <3> QED  BY <3>3, <3>4
  <2> QED  BY <2>1, <2>2
<1>7. ASSUME NEW n \in Nodes, NEW m \in Nodes, own2[n] # Null, own2[m] = own2[n]
      PROVE  /\ pos2[m] = pos2[n] => m = n
             /\ nx2[n] = End => pos2[m] <= pos2[n]
  <2>0. /\ pos[n] \in Nat /\ pos[m] \in Nat /\ pos[z] \in Nat
        /\ nx2[n] = End => n # z /\ nx[n] = End
    BY <1>1, <1>2, <1>3
  <2>1. CASE own[n] = x /\ own[m] = x
    <3>1. (pos[m] = pos[n] => m = n) /\ (nx[n] = End => pos[m] <= pos[n])
      BY <1>3, <2>1 DEF Forest
    <3> QED  BY <1>5, <2>0, <2>1, <3>1
  <2>2. CASE own[n] # x /\ own[m] # x
    <3>1. own[n] # Null /\ own[m] = own[n]
      BY <1>4, <1>7, <2>2
    <3>2. (pos[m] = pos[n] => m = n) /\ (nx[n] = End => pos[m] <= pos[n])
      BY <3>1 DEF Forest
    <3> QED  BY <1>4, <2>0, <2>2, <3>2
  <2>3. CASE own[n] = x /\ own[m] # x
    <3>1. own[m] = own[z]
      BY <1>4, <1>5, <1>7, <2>3
    <3>2. pos[m] <= pos[z]
      BY <3>1 DEF Forest
    <3>3. pos2[n] = pos[n] + pos[z] + 1 /\ pos2[m] = pos[m]
      BY <1>4, <1>5, <2>3
    <3> QED  BY <2>0, <3>2, <3>3
  <2>4. CASE own[n] # x /\ own[m] = x
    <3>1. own[n] = own[z]
      BY <1>4, <1>5, <1>7, <2>4
    <3>2. pos[n] <= pos[z] /\ (nx[n] = End => pos[z] <= pos[n])
      BY <3>1 DEF Forest
    <3>3. nx[n] = End => n = z
      <4>1. own[n] # Null /\ own[z] = own[n]
        BY <3>1
      <4>2. pos[z] = pos[n] => z = n
        BY <4>1 DEF Forest
      <4> QED  BY <2>0, <3>2, <4>2
    <3>4. pos2[n] = pos[n] /\ pos2[m] = pos[m] + pos[z] + 1
      BY <1>4, <1>5, <2>4
    <3> QED  BY <2>0, <3>2, <3>3, <3>4
  <2> QED  BY <2>1, <2>2, <2>3, <2>4
<1>8. ASSUME NEW n \in Nodes, own2[n] \in Nodes  PROVE own2[own2[n]] = own2[n] /\ pos2[own2[n]] = 0
  <2>1. PICK k \in Nodes : own2[n] = own[k] /\ own[k] # x
    BY <1>2
  <2>2. own[k] \in Nodes /\ own[own[k]] = own[k] /\ pos[own[k]] = 0
    BY <1>8, <2>1 DEF Forest
  <2> QED  BY <1>4, <2>1, <2>2
<1>9. \A n \in Nodes : /\ own2[n] = Null => nx2[n] # End
                       /\ own2[n] # Null => nx2[n] # Null
  BY <1>2, <1>3 DEF Forest
<1>10. own2[h] = End /\ pos2[h] = pos[h]
  BY <1>1, <1>3, <1>4
<1>11. ASSUME NEW n \in Nodes, own2[n] = End  PROVE pos2[h] <= pos2[n]
  <2>0. pos[n] \in Nat /\ pos[z] \in Nat /\ pos[h] \in Nat
    BY <1>1
  <2>1. CASE own[n] = x
    <3>1. own[z] = End /\ pos2[n] = pos[n] + pos[z] + 1
      BY <1>5, <1>11, <2>1
    <3>2. pos[h] <= pos[z]
      BY <3>1 DEF Forest
    <3> QED  BY <1>10, <2>0, <3>1, <3>2
  <2>2. CASE own[n] # x
    <3>1. own[n] = End /\ pos2[n] = pos[n]
      BY <1>4, <1>11, <2>2
    <3> QED  BY <1>10, <3>1 DEF Forest
  <2> QED  BY <2>1, <2>2
<1> QED  BY <1>1, <1>2, <1>6, <1>7, <1>8, <1>9, <1>10, <1>11 DEF Forest, nx2, own2, pos2

(* Pop takes the first node of the queue off. *)
LEMMA HeadTaken ==
  ASSUME NEW nx, NEW own, NEW pos, NEW h, Forest(nx, own, pos, h), nx[h] # End
  PROVE  /\ Forest(nx, [own EXCEPT ![h] = Null], pos, nx[h])
         /\ nx[h] \in Nodes /\ own[nx[h]] = End /\ nx[h] # h
<1> DEFINE own2 == [own EXCEPT ![h] = Null]
           m == nx[h]
<1>1. /\ nx \in [Nodes -> Pointers] /\ own \in [Nodes -> Pointers] /\ pos \in [Nodes -> Nat]
      /\ h \in Nodes /\ own[h] = End /\ Null # End
  BY ConstantsApart DEF Forest
<1>2. m \in Nodes /\ own[m] = End /\ pos[m] = pos[h] + 1
  BY <1>1, ForestNext
<1>3. m # h
  BY <1>1, <1>2
<1>4. own2 \in [Nodes -> Pointers] /\ \A n \in Nodes : own2[n] = IF n = h THEN Null ELSE own[n]
  BY <1>1 DEF Pointers
<1> HIDE DEF own2, m
<1>5. ASSUME NEW n \in Nodes, own2[n] # Null, nx[n] # End
      PROVE  own2[nx[n]] = own2[n] /\ pos[nx[n]] = pos[n] + 1
  <2>1. n # h /\ own2[n] = own[n] /\ own[n] # Null
    BY <1>4, <1>5
  <2>2. nx[n] \in Nodes /\ own[nx[n]] = own[n] /\ pos[nx[n]] = pos[n] + 1
    BY <1>5, <2>1, ForestNext
  <2>3. nx[n] # h
    <3> SUFFICES ASSUME nx[n] = h  PROVE FALSE
      OBVIOUS
    <3>1. own[n] = End /\ pos[h] = pos[n] + 1
      BY <1>1, <2>2
    <3>2. pos[h] <= pos[n]
      BY <3>1 DEF Forest
    <3> QED  BY <1>1, <3>1, <3>2
  <2> QED  BY <1>4, <2>1, <2>2, <2>3
<1>6. ASSUME NEW n \in Nodes, own2[n] = End  PROVE pos[m] <= pos[n]
  <2>1. n # h /\ own[n] = End
    BY <1>1, <1>4, <1>6
  <2>2. pos[h] <= pos[n] /\ pos[h] # pos[n]
    BY <1>1, <2>1 DEF Forest
  <2> QED  BY <1>1, <1>2, <2>2
<1>7. ASSUME NEW n \in Nodes, own2[n] \in Nodes  PROVE own2[own2[n]] = own2[n] /\ pos[own2[n]] = 0
  <2>1. own2[n] = own[n]
    BY <1>4, <1>7, ConstantsApart
  <2>2. own[own[n]] = own[n] /\ pos[own[n]] = 0
    BY <1>7, <2>1 DEF Forest
  <2>3. own[n] # h
    BY <1>1, <1>7, <2>1, <2>2, ConstantsApart
  <2> QED  BY <1>4, <1>7, <2>1, <2>2, <2>3
<1>8. own2[m] = End
  BY <1>2, <1>3, <1>4
<1>9. \A n \in Nodes : /\ own2[n] = Null => nx[n] # End
                       /\ own2[n] # Null => nx[n] # Null
  BY <1>4 DEF Forest
<1>10. ASSUME NEW n \in Nodes, NEW k \in Nodes, own2[n] # Null, own2[k] = own2[n]
       PROVE  /\ pos[k] = pos[n] => k = n
              /\ nx[n] = End => pos[k] <= pos[n]
  <2>1. own[n] = own2[n] /\ own[k] = own2[k]
    BY <1>4, <1>10
  <2> QED  BY <1>10, <2>1 DEF Forest
<1> QED  BY <1>1, <1>2, <1>3, <1>4, <1>5, <1>6, <1>7, <1>8, <1>9, <1>10 DEF Forest, own2, m

(* The free list and new nodes are outside of the chains. *)
LEMMA OutsideWritten ==
  ASSUME NEW nx, NEW own, NEW pos, NEW h, Forest(nx, own, pos, h),
         NEW x \in Nodes, own[x] = Null, NEW v \in Nodes \cup {Null}
  PROVE  Forest([nx EXCEPT ![x] = v], own, pos, h)
<1> DEFINE nx2 == [nx EXCEPT ![x] = v]
<1>1. /\ nx2 \in [Nodes -> Pointers] /\ v # End
      /\ \A n \in Nodes : nx2[n] = IF n = x THEN v ELSE nx[n]
  BY ConstantsApart DEF Forest, Pointers
<1>2. \A n \in Nodes : own[n] # Null => nx2[n] = nx[n]
  BY <1>1
<1> HIDE DEF nx2
<1> QED  BY <1>1, <1>2 DEF Forest, nx2

-----------------------------------------------------------------------------
(* The threads that have prepared a node and not linked it.               *)
PrepareLabels == {"tailNode", "tailSeq", "link", "helpRead", "help"}
Prepares(t) == pc[t] \in PrepareLabels

(* head and tail stand in the queue; whatever is prepared begins a chain.  *)
(* A thread may be about to link behind a node that has left the queue and *)
(* that another thread prepares by now; rank says which of the two came    *)
(* first, so that no chain is hung behind itself.                          *)
Queue(own, pos, rank) ==
  /\ Forest(next, own, pos, head.node)
  /\ own[tail.node] = End
  /\ \A t \in Threads : Prepares(t) => own[loc[t].node] = loc[t].node
  /\ \A n \in Nodes : own[n] = n => \E t \in Threads : Prepares(t) /\ loc[t].node = n
  /\ rank \in [Nodes -> Nat]
  /\ \A t \in Threads : pc[t] \in {"tailSeq", "link"} /\ own[loc[t].old.node] \in Nodes
        => rank[own[loc[t].old.node]] < rank[loc[t].node]

(* The node that t alone has, if any. *)
Held(t) == IF pc[t] = "setNext" \/ Prepares(t) THEN loc[t].node
           ELSE IF pc[t] = "getNode" /\ step[t] = "ready" THEN mine[t]
           ELSE IF pc[t] = "countDown" THEN loc[t].old.node
           ELSE IF pc[t] = "freeNode" /\ step[t] # "ready" THEN mine[t]
           ELSE Null

(* s is the free list; its nodes, the new ones and those that threads hold *)
(* are apart from each other and from the queue.                           *)
Stacked(s) ==
  /\ s \in Seq(Nodes)
  /\ \A i, j \in 1 .. Len(s) : s[i] = s[j] => i = j
  /\ top.node = IF Len(s) = 0 THEN Null ELSE s[1]
  /\ \A i \in 1 .. Len(s) : next[s[i]] = IF i = Len(s) THEN Null ELSE s[i + 1]
Apart(own, s) ==
  /\ \A i \in 1 .. Len(s) : own[s[i]] = Null /\ s[i] \notin heap
  /\ \A n \in heap : own[n] = Null
  /\ \A t \in Threads : Held(t) # Null =>
        /\ Held(t) \in Nodes /\ Held(t) \notin heap
        /\ \A i \in 1 .. Len(s) : s[i] # Held(t)
        /\ Prepares(t) \/ own[Held(t)] = Null
  /\ \A t, u \in Threads : Held(t) = Held(u) /\ Held(t) # Null => t = u

-----------------------------------------------------------------------------
(* What a thread in Pop knows: while the sequence of m_Head is what it has *)
(* read, so is the node, and pNext was read from the first node.           *)
SincePopSeq == {"popTailSeq", "headNext", "recheck", "compare", "popHelp", "readElem",
                "swapHead"}
HeadSide(t) ==
  /\ pc[t] \in SincePopSeq \cup {"headNode"} => loc[t].old.seq <= head.seq
  /\ pc[t] \in SincePopSeq /\ loc[t].old.seq = head.seq => loc[t].old = head
  /\ pc[t] \in {"recheck", "compare", "popHelp", "readElem", "swapHead"} /\ loc[t].old = head
       => loc[t].succ \in {End, next[head.node]}
  /\ pc[t] = "compare" => loc[t].succ # Null
  /\ pc[t] \in {"popHelp", "readElem", "swapHead"} => loc[t].succ \in Nodes
  /\ pc[t] \in {"readElem", "swapHead"} /\ loc[t].old = head => tail.node # head.node
  /\ pc[t] = "swapHead" /\ loc[t].old = head => loc[t].item = elem[next[head.node]]
(* What a thread knows that may move m_Tail: if it does, then to the next  *)
(* node.                                                                   *)
TailSide(t) ==
  /\ pc[t] \in {"headNext", "recheck", "compare", "popHelp"} => loc[t].tailSeq <= tail.seq
  /\ pc[t] \in {"recheck", "compare", "popHelp"}
        /\ tail = [node |-> loc[t].old.node, seq |-> loc[t].tailSeq]
       => loc[t].succ \in {End, next[tail.node]}
  /\ pc[t] \in {"link", "helpRead", "help", "finish"} => loc[t].old.seq <= tail.seq
  /\ pc[t] = "helpRead" /\ loc[t].old = tail => next[tail.node] \in Nodes
  /\ pc[t] = "help" /\ loc[t].old = tail => next[tail.node] \in Nodes /\ loc[t].succ = next[tail.node]
  /\ pc[t] = "finish" /\ loc[t].old = tail => next[tail.node] = loc[t].node

(* How a step changes what other threads know of. *)
Advances ==
  /\ head' = head \/ head'.seq = head.seq + 1
  /\ tail' = tail \/ tail'.seq = tail.seq + 1
  /\ head' = head /\ next[head.node] # End
       => next'[head.node] = next[head.node] /\ elem'[next[head.node]] = elem[next[head.node]]
  /\ tail' = tail /\ next[tail.node] # End => next'[tail.node] = next[tail.node]
  /\ head' = head /\ tail'.node = head.node => tail.node = head.node

LEMMA SidesKept ==
  ASSUME head \in Link, tail \in Link, loc \in [Threads -> Locals],
         Advances, NEW u \in Threads, HeadSide(u), TailSide(u),
         next[head.node] \in Nodes \cup {End}, next[tail.node] \in Nodes \cup {End},
         pc'[u] = pc[u], loc'[u] = loc[u]
  PROVE  HeadSide(u)' /\ TailSide(u)'
<1>1. /\ head.seq \in Nat /\ tail.seq \in Nat /\ head.node \in Nodes /\ tail.node \in Nodes
      /\ loc[u].old \in Link /\ loc[u].old.seq \in Nat /\ loc[u].tailSeq \in Nat /\ End \notin Nodes
  BY ConstantsApart DEF Link, Locals
<1>2. ASSUME head' # head, loc[u].old.seq <= head.seq  PROVE loc[u].old.seq # head'.seq /\ loc[u].old # head' /\ loc[u].old.seq <= head'.seq
  BY <1>1, <1>2 DEF Advances
<1>3. ASSUME tail' # tail, NEW k \in Nat, k <= tail.seq  PROVE k # tail'.seq /\ k <= tail'.seq
  BY <1>1, <1>3 DEF Advances
<1>4. HeadSide(u)'
  <2>1. CASE head' # head
    <3>1. pc[u] \in SincePopSeq \cup {"headNode"} => loc[u].old.seq <= head.seq
      BY DEF HeadSide
    <3> QED  BY <1>2, <2>1, <3>1 DEF HeadSide, SincePopSeq
  <2>2. CASE head' = head
    <3>1. pc[u] = "swapHead" /\ loc[u].old = head => next[head.node] # End
      BY <1>1 DEF HeadSide
    <3> QED  BY <2>2, <3>1 DEF HeadSide, Advances
  <2> QED  BY <2>1, <2>2
<1>5. TailSide(u)'
  <2>1. CASE tail' # tail
    <3>1. /\ pc[u] \in {"headNext", "recheck", "compare", "popHelp"}
              => loc[u].tailSeq # tail'.seq /\ loc[u].tailSeq <= tail'.seq
          /\ pc[u] \in {"link", "helpRead", "help", "finish"}
              => loc[u].old.seq # tail'.seq /\ loc[u].old.seq <= tail'.seq
      BY <1>1, <1>3, <2>1 DEF TailSide
    <3>2. [node |-> loc[u].old.node, seq |-> loc[u].tailSeq].seq = loc[u].tailSeq
      OBVIOUS
    <3>3. pc[u] \in {"headNext", "recheck", "compare", "popHelp"}
              => tail' # [node |-> loc[u].old.node, seq |-> loc[u].tailSeq]
      BY <3>1, <3>2
    <3> QED  BY <3>1, <3>3 DEF TailSide
  <2>2. CASE tail' = tail
    <3>1. next[tail.node] # End => next'[tail.node] = next[tail.node]
      BY <2>2 DEF Advances
    <3>2. /\ pc'[u] \in {"headNext", "recheck", "compare", "popHelp"} => loc'[u].tailSeq <= tail'.seq
          /\ pc'[u] \in {"link", "helpRead", "help", "finish"} => loc'[u].old.seq <= tail'.seq
      BY <2>2 DEF TailSide
    <3>3. pc'[u] \in {"recheck", "compare", "popHelp"}
             /\ tail' = [node |-> loc'[u].old.node, seq |-> loc'[u].tailSeq]
            => loc'[u].succ \in {End, next'[tail'.node]}
      BY <2>2, <3>1 DEF TailSide
    <3>4. /\ pc'[u] = "helpRead" /\ loc'[u].old = tail' => next'[tail'.node] \in Nodes
          /\ pc'[u] = "help" /\ loc'[u].old = tail'
               => next'[tail'.node] \in Nodes /\ loc'[u].succ = next'[tail'.node]
      BY <1>1, <2>2, <3>1 DEF TailSide
    <3>5. pc'[u] = "finish" /\ loc'[u].old = tail' => next'[tail'.node] = loc'[u].node
      <4>1. loc[u].node \in Nodes
        BY DEF Locals
      <4> QED  BY <1>1, <2>2, <3>1, <4>1 DEF TailSide
    <3> QED  BY <3>2, <3>3, <3>4, <3>5 DEF TailSide
  <2> QED  BY <2>1, <2>2
<1> QED  BY <1>4, <1>5

-----------------------------------------------------------------------------
(* The word beside the top: so many pushes, so many nodes.  A word that    *)
(* was read has fewer pushes, or as many and no fewer nodes.               *)
Word(q, n) == q * Half + n
Older(w, q, n) ==
  \E a, b \in Nat : w = Word(a, b) /\ b < Half /\ (a < q \/ (a = q /\ n <= b))

LEMMA Times ==
  ASSUME NEW a \in Nat, NEW b \in Nat, a < b
  PROVE  a * Half \in Nat /\ b * Half \in Nat /\ a * Half + Half <= b * Half
<1>1. Half \in Nat
  BY ConstantsApart
<1>2. PICK k \in Nat : b = a + 1 + k
  <2>1. b - (a + 1) \in Nat /\ b = a + 1 + (b - (a + 1))
    OBVIOUS
  <2> QED  BY <2>1
<1>3. a * Half \in Nat /\ b * Half \in Nat /\ k * Half \in Nat
  BY <1>1
<1>4. b * Half = a * Half + Half + k * Half
  BY <1>1, <1>2
<1> QED  BY <1>1, <1>3, <1>4

LEMMA WordsDiffer ==
  ASSUME NEW a \in Nat, NEW b \in Nat, NEW c \in Nat, NEW d \in Nat,
         b < Half, d < Half, Word(a, b) = Word(c, d)
  PROVE  a = c /\ b = d
<1>1. Half \in Nat
  BY ConstantsApart
<1>2. ~(a < c)
  <2> SUFFICES ASSUME a < c  PROVE FALSE
    OBVIOUS
  <2>1. a * Half \in Nat /\ c * Half \in Nat /\ a * Half + Half <= c * Half
    BY Times
  <2> QED  BY <1>1, <2>1 DEF Word
<1>3. ~(c < a)
  <2> SUFFICES ASSUME c < a  PROVE FALSE
    OBVIOUS
  <2>1. a * Half \in Nat /\ c * Half \in Nat /\ c * Half + Half <= a * Half
    BY Times
  <2> QED  BY <1>1, <2>1 DEF Word
<1>4. a = c
  BY <1>2, <1>3
<1>5. a * Half \in Nat
  BY <1>1
<1> QED  BY <1>4, <1>5 DEF Word

LEMMA OlderNow ==
  ASSUME NEW q \in Nat, NEW n \in Nat, n < Half  PROVE Older(Word(q, n), q, n)
  BY DEF Older

LEMMA OlderPushed ==
  ASSUME NEW q \in Nat, NEW n \in Nat, n + 1 < Half, NEW w, Older(w, q, n)
  PROVE  Older(w, q + 1, n + 1) /\ w # Word(q + 1, n + 1)
<1>1. PICK a \in Nat, b \in Nat : w = Word(a, b) /\ b < Half /\ (a < q \/ (a = q /\ n <= b))
  BY DEF Older
<1>2. a < q + 1
  BY <1>1
<1>3. w # Word(q + 1, n + 1)
  BY <1>1, <1>2, WordsDiffer
<1> QED  BY <1>1, <1>2, <1>3 DEF Older

LEMMA OlderPopped ==
  ASSUME NEW q \in Nat, NEW n \in Nat, n # 0, n < Half, NEW w, Older(w, q, n)
  PROVE  Older(w, q, n - 1) /\ w # Word(q, n - 1)
<1>1. PICK a \in Nat, b \in Nat : w = Word(a, b) /\ b < Half /\ (a < q \/ (a = q /\ n <= b))
  BY DEF Older
<1>2. Half \in Nat /\ n - 1 \in Nat /\ n - 1 < Half /\ ~(a = q /\ b = n - 1)
  BY <1>1, ConstantsApart
<1>3. w # Word(q, n - 1)
  BY <1>1, <1>2, WordsDiffer
<1>4. a < q \/ (a = q /\ n - 1 <= b)
  BY <1>1
<1> QED  BY <1>1, <1>3, <1>4 DEF Older

(* The two additions do not come round. *)
LEMMA WordPushed ==
  ASSUME NEW q \in Nat, NEW n \in Nat, n <= q, q + 1 < Half
  PROVE  Free!Pushed(Word(q, n)) = Word(q + 1, n + 1) /\ n + 1 < Half
<1>1. Half \in Nat
  BY ConstantsApart
<1>2. q * Half \in Nat /\ (q + 1) * Half \in Nat /\ (q + 1) * Half = q * Half + Half
  BY <1>1
<1>3. (q + 1) * Half + Half <= Half * Half /\ Half * Half \in Nat
  BY <1>1, Times
<1>4. Word(q, n) + Half + 1 = Word(q + 1, n + 1)
  BY <1>1, <1>2 DEF Word
<1>5. Word(q + 1, n + 1) \in 0 .. Half * Half - 1
  BY <1>1, <1>2, <1>3 DEF Word
<1>6. \A x \in Nat, y \in Nat : x \in 0 .. y - 1 => x % y = x
  OBVIOUS
<1>7. Word(q + 1, n + 1) \in Nat
  BY <1>5
<1>8. Word(q + 1, n + 1) % (Half * Half) = Word(q + 1, n + 1)
  <2> DEFINE x == Word(q + 1, n + 1)
             y == Half * Half
  <2>1. x \in Nat /\ y \in Nat /\ x \in 0 .. y - 1
    BY <1>3, <1>5, <1>7
  <2> HIDE DEF x, y
  <2>2. x % y = x
    BY <1>6, <2>1
  <2> QED  BY <2>2 DEF x, y
<1> QED  BY <1>1, <1>4, <1>8 DEF Free!Pushed

LEMMA WordPopped ==
  ASSUME NEW q \in Nat, NEW n \in Nat, n # 0, n <= q, q < Half
  PROVE  Free!Popped(Word(q, n)) = Word(q, n - 1)
<1>1. Half \in Nat /\ n - 1 \in Nat
  BY ConstantsApart
<1>2. q * Half \in Nat
  BY <1>1
<1>3. q * Half + Half <= Half * Half /\ Half * Half \in Nat
  BY <1>1, Times
<1>4. Word(q, n) - 1 = Word(q, n - 1)
  BY <1>1, <1>2 DEF Word
<1>5. Word(q, n - 1) \in 0 .. Half * Half - 1
  BY <1>1, <1>2, <1>3 DEF Word
<1>6. \A x \in Nat, y \in Nat : x \in 0 .. y - 1 => x % y = x
  OBVIOUS
<1>8. Word(q, n - 1) % (Half * Half) = Word(q, n - 1)
  <2> DEFINE x == Word(q, n - 1)
             y == Half * Half
  <2>1. x \in Nat /\ y \in Nat /\ x \in 0 .. y - 1
    BY <1>3, <1>5
  <2> HIDE DEF x, y
  <2>2. x % y = x
    BY <1>6, <2>1
  <2> QED  BY <2>2 DEF x, y
<1> QED  BY <1>1, <1>4, <1>8 DEF Free!Popped

LEMMA WordsTyped ==
  ASSUME NEW w \in 0 .. Half * Half - 1
  PROVE  Free!Pushed(w) \in 0 .. Half * Half - 1 /\ Free!Popped(w) \in 0 .. Half * Half - 1
<1>1. Half \in Nat /\ Half # 0
  BY ConstantsApart
<1>2. Half * Half \in Nat /\ Half * Half # 0
  <2>1. 0 * Half + Half <= Half * Half /\ 0 * Half \in Nat /\ Half * Half \in Nat
    BY <1>1, Times
  <2> QED  BY <1>1, <2>1
<1> DEFINE y == Half * Half
<1>3. y \in Nat /\ y # 0
  BY <1>2
<1>4. w \in Int /\ Free!Pushed(w) = (w + Half + 1) % y /\ Free!Popped(w) = (w - 1) % y
  BY DEF Free!Pushed, Free!Popped
<1> HIDE DEF y
<1>5. \A x \in Int : x % y \in 0 .. y - 1
  BY <1>3
<1> QED  BY <1>1, <1>4, <1>5 DEF y

-----------------------------------------------------------------------------
(* The calls of Pop that may still push their node on the free list.       *)
Active == {t \in Threads : pc[t] \in PopLabels /\ ~(pc[t] = "freeNode" /\ step[t] = "ready")}
(* q nodes were pushed on the free list, each by a call of its own. *)
Counted(q, s) ==
  /\ q \in Nat /\ Len(s) <= q
  /\ top.word = Word(q, Len(s))
  /\ IsFiniteSet(Active) /\ q + Cardinality(Active) <= pops

(* What a thread in a call of the free list knows. *)
PopSteps == {"pop", "popWord", "popNext", "popSwap"}
PushSteps == {"push", "pushWord", "pushLink", "pushSwap"}
FreeSide(t, q, s) ==
  /\ step[t] \in PopSteps => pc[t] = "getNode" /\ mine[t] = Null
  /\ step[t] \in PushSteps => pc[t] = "freeNode" /\ mine[t] \in Nodes
  /\ step[t] \in {"popNext", "popSwap"} => seen[t].node \in Nodes /\ Older(seen[t].word, q, Len(s))
  /\ step[t] = "popSwap" /\ top = seen[t] => nxt[t] = next[top.node]
  /\ step[t] = "pushSwap" => next[mine[t]] = seen[t].node

(* Where the elements are. *)
Queued(own, n) == own[n] \in Nodes \/ (own[n] = End /\ n # head.node)
Placed(own, i) == i \in Delivered \/ \E n \in Nodes : Queued(own, n) /\ elem[n] = i
Coming(t) == pc[t] \in {"getNode", "setNext"}
ElementsOnce(own) ==
  /\ \A n \in Nodes : Queued(own, n) => elem[n] \in 1 .. pushed /\ elem[n] \notin Delivered
  /\ \A n, m \in Nodes : Queued(own, n) /\ Queued(own, m) /\ elem[n] = elem[m] => n = m
  /\ \A t \in Threads : Coming(t) =>
        /\ loc[t].item \in 1 .. pushed /\ loc[t].item \notin Delivered
        /\ \A n \in Nodes : Queued(own, n) => elem[n] # loc[t].item
  /\ \A t, u \in Threads : Coming(t) /\ Coming(u) /\ loc[t].item = loc[u].item => t = u
  /\ \A i \in DOMAIN out : out[i] \in 1 .. pushed
  /\ \A i, j \in DOMAIN out : i # j => out[i] # out[j]
NothingLost(own) ==
  /\ \A t \in Threads : pc[t] = "setNext" \/ Prepares(t) => elem[loc[t].node] = loc[t].item
  /\ \A t \in Threads : pc[t] \in {"finish", "countUp"} => Placed(own, loc[t].item)
  /\ \A i \in returned : Placed(own, i)

(* A thread that is about to find the queue empty has seen it empty. *)
Told(t) ==
  /\ pc[t] = "recheck" /\ loc[t].succ = End /\ loc[t].old = head => t \in emptied
  /\ pc[t] = "compare" /\ loc[t].succ = End => t \in emptied

Typed ==
  /\ TypeOK
  /\ nxt \in [Threads -> Pointers]
  /\ pushed \in 0 .. MaxPush /\ pops \in 0 .. MaxPop /\ out \in Seq(Items)

(* The inductive invariant. *)
Shape(own, pos, rank, s, q) ==
  /\ Queue(own, pos, rank)
  /\ Stacked(s) /\ Apart(own, s) /\ Counted(q, s)
  /\ \A t \in Threads : HeadSide(t) /\ TailSide(t) /\ FreeSide(t, q, s) /\ Told(t)
  /\ ElementsOnce(own) /\ NothingLost(own)
Shaped == \E own, pos, rank, s, q : Shape(own, pos, rank, s, q)

-----------------------------------------------------------------------------
(* A step changes what one thread has only. *)
Others(t) == \A u \in Threads \ {t} :
  /\ pc'[u] = pc[u] /\ loc'[u] = loc[u]
  /\ step'[u] = step[u] /\ mine'[u] = mine[u] /\ seen'[u] = seen[u] /\ nxt'[u] = nxt[u]

LEMMA OneThread ==
  ASSUME Typed, NEW t \in Threads, Thread(t)
  PROVE  Others(t)
<1>1. /\ pc \in [Threads -> PushLabels \cup PopLabels \cup {"idle"}] /\ loc \in [Threads -> Locals]
      /\ DOMAIN step = Threads /\ DOMAIN mine = Threads /\ DOMAIN seen = Threads /\ DOMAIN nxt = Threads
  BY DEF Typed, TypeOK, Free!LTypeOK
<1>2. CASE PushStep(t)
  BY <1>1, <1>2 DEF PushStep, BeginPushItem, GetNode, SetNext, ReadTailNode, ReadTailSeq, LinkNode,
     HelpRead, Help, FinishOwnPush, CountUp, Step, Read, Return, Others, freeVars, historyVars, queueVars,
     Free!CallPop, Free!Goto
<1>3. CASE PopStep(t)
  BY <1>1, <1>3 DEF PopStep, BeginPopItem, ReadHeadSeq, ReadHeadNode, ReadPopTailSeq, ReadHeadNext,
     Recheck, Compare, PopHelp, ReadElem, SwapHead, CountDown, FreeNode, Step, Read, Return, Others,
     freeVars, historyVars, queueVars, Free!CallPush, Free!Goto
<1>4. CASE FreeListStep(t)
  BY <1>1, <1>4 DEF FreeListStep, Free!ListStep, Free!ReadNode, Free!ReadWord, Free!PushLink,
     Free!PushSwap, Free!PopNext, Free!PopSwap, Free!Goto, Free!Drop, Free!locals, Others
<1> QED  BY <1>2, <1>3, <1>4 DEF Thread

(* Parts of the invariant that a step of t leaves as they are. *)
LEMMA QueueKept ==
  ASSUME NEW own, NEW pos, NEW rank, Queue(own, pos, rank), NEW t \in Threads, Others(t),
         Forest(next', own, pos, head.node'), own[tail.node'] = End,
         Prepares(t)' <=> Prepares(t),
         Prepares(t) => loc'[t].node = loc[t].node,
         pc'[t] \in {"tailSeq", "link"} =>
           \/ own[loc'[t].old.node] \notin Nodes
           \/ pc[t] \in {"tailSeq", "link"} /\ loc'[t].old.node = loc[t].old.node
  PROVE  Queue(own, pos, rank)'
<1>1. \A u \in Threads : u # t => (Prepares(u)' <=> Prepares(u)) /\ loc'[u] = loc[u] /\ pc'[u] = pc[u]
  BY DEF Others, Prepares
<1>2. \A u \in Threads : Prepares(u)' <=> Prepares(u)
  BY <1>1
<1>3. \A u \in Threads : Prepares(u) => loc'[u].node = loc[u].node
  BY <1>1
<1>4. \A u \in Threads : Prepares(u)' => own[loc'[u].node] = loc'[u].node
  BY <1>2, <1>3 DEF Queue
<1>5. \A n \in Nodes : own[n] = n => \E u \in Threads : Prepares(u)' /\ loc'[u].node = n
  BY <1>2, <1>3 DEF Queue
<1>6. \A u \in Threads : pc'[u] \in {"tailSeq", "link"} /\ own[loc'[u].old.node] \in Nodes
        => rank[own[loc'[u].old.node]] < rank[loc'[u].node]
  <2> SUFFICES ASSUME NEW u \in Threads, pc'[u] \in {"tailSeq", "link"}, own[loc'[u].old.node] \in Nodes
               PROVE  rank[own[loc'[u].old.node]] < rank[loc'[u].node]
    OBVIOUS
  <2>1. pc[u] \in {"tailSeq", "link"} /\ loc'[u].old.node = loc[u].old.node
    BY <1>1
  <2>2. loc'[u].node = loc[u].node
    BY <1>3, <2>1 DEF Prepares, PrepareLabels
  <2> QED  BY <2>1, <2>2 DEF Queue
<1>7. rank \in [Nodes -> Nat]
  BY DEF Queue
<1> QED  BY <1>4, <1>5, <1>6, <1>7 DEF Queue

LEMMA HeldByOthers ==
  ASSUME NEW t \in Threads, Others(t)
  PROVE  \A u \in Threads \ {t} : Held(u)' = Held(u) /\ (Prepares(u)' <=> Prepares(u))
  BY DEF Others, Held, Prepares

LEMMA ApartKept ==
  ASSUME NEW own, NEW s, Apart(own, s), NEW t \in Threads, Others(t), heap' = heap,
         Held(t)' \in {Held(t), Null}, Prepares(t) => Prepares(t)' \/ Held(t)' = Null
  PROVE  Apart(own, s)'
<1>1. \A u \in Threads \ {t} : Held(u)' = Held(u) /\ (Prepares(u)' <=> Prepares(u))
  BY HeldByOthers
<1>2. \A u \in Threads : Held(u)' # Null => Held(u)' = Held(u) /\ (Prepares(u) => Prepares(u)')
  BY <1>1
<1> QED  BY <1>2 DEF Apart

LEMMA StackedKept ==
  ASSUME NEW s, Stacked(s), top'.node = top.node,
         \A i \in 1 .. Len(s) : next'[s[i]] = next[s[i]]
  PROVE  Stacked(s)'
  BY DEF Stacked

LEMMA CountedKept ==
  ASSUME NEW q, NEW s, Counted(q, s), NEW t \in Threads, Others(t), top' = top, pops' = pops,
         t \in Active' => t \in Active, Typed
  PROVE  Counted(q, s)'
<1>1. Active' \subseteq Active
  BY DEF Active, Others
<1>2. IsFiniteSet(Active)
  BY DEF Counted
<1>3. IsFiniteSet(Active') /\ Cardinality(Active') <= Cardinality(Active)
  BY <1>1, <1>2, FS_Subset
<1>4. Cardinality(Active') \in Nat /\ Cardinality(Active) \in Nat
  BY <1>2, <1>3, FS_CardinalityType
<1>5. q \in Nat /\ pops \in Nat /\ q + Cardinality(Active) <= pops
  BY DEF Counted, Typed
<1>6. q + Cardinality(Active') <= pops
  BY <1>3, <1>4, <1>5
<1> QED  BY <1>3, <1>6 DEF Counted

LEMMA FreeSideKept ==
  ASSUME NEW q, NEW s, NEW u \in Threads, FreeSide(u, q, s),
         pc'[u] = pc[u], step'[u] = step[u], mine'[u] = mine[u], seen'[u] = seen[u], nxt'[u] = nxt[u],
         top' = top, top.node \in Nodes => next'[top.node] = next[top.node],
         step[u] = "pushSwap" => next'[mine[u]] = next[mine[u]]
  PROVE  FreeSide(u, q, s)'
  BY DEF FreeSide, PopSteps, PushSteps

LEMMA ToldKept ==
  ASSUME NEW u \in Threads, Told(u), HeadSide(u), Typed, pc'[u] = pc[u], loc'[u] = loc[u],
         head' = head \/ head'.seq = head.seq + 1,
         emptied' = {v \in Threads : pc'[v] \in InPop /\ (v \in emptied \/ Empty')}
  PROVE  Told(u)'
<1>1. u \in emptied /\ pc[u] \in {"recheck", "compare"} => u \in emptied'
  BY DEF InPop
<1>2. pc[u] = "recheck" /\ loc[u].old = head' => head' = head
  <2>1. pc[u] = "recheck" => loc[u].old.seq <= head.seq
    BY DEF HeadSide, SincePopSeq
  <2>2. head.seq \in Nat
    BY DEF Typed, TypeOK, Link
  <2> QED  BY <2>1, <2>2
<1> QED  BY <1>1, <1>2 DEF Told

LEMMA ElementsOnceKept ==
  ASSUME NEW own, ElementsOnce(own), NEW t \in Threads, Others(t),
         pushed' = pushed, out' = out, head'.node = head.node,
         \A n \in Nodes : Queued(own, n) => elem'[n] = elem[n],
         Coming(t)' => Coming(t) /\ loc'[t].item = loc[t].item
  PROVE  ElementsOnce(own)'
<1>1. \A n : Queued(own, n)' <=> Queued(own, n)
  BY DEF Queued
<1>2. Delivered' = Delivered
  BY DEF Delivered
<1>3. \A u \in Threads : Coming(u)' => Coming(u) /\ loc'[u].item = loc[u].item
  BY DEF Others, Coming
<1> QED  BY <1>1, <1>2, <1>3 DEF ElementsOnce

LEMMA NothingLostKept ==
  ASSUME NEW own, NothingLost(own), NEW t \in Threads, Others(t),
         out' = out, head'.node = head.node, returned' = returned,
         \A n \in Nodes : Queued(own, n) => elem'[n] = elem[n],
         \A u \in Threads : pc[u] = "setNext" \/ Prepares(u) => elem'[loc[u].node] = elem[loc[u].node],
         pc'[t] = "setNext" \/ Prepares(t)' =>
           (pc[t] = "setNext" \/ Prepares(t)) /\ loc'[t].node = loc[t].node /\ loc'[t].item = loc[t].item,
         pc'[t] \in {"finish", "countUp"} =>
           pc[t] \in {"finish", "countUp"} /\ loc'[t].item = loc[t].item
  PROVE  NothingLost(own)'
<1>1. \A i : Placed(own, i)' <=> Placed(own, i)
  BY DEF Placed, Queued, Delivered
<1>2. \A u \in Threads : pc'[u] = "setNext" \/ Prepares(u)' =>
        (pc[u] = "setNext" \/ Prepares(u)) /\ loc'[u].node = loc[u].node /\ loc'[u].item = loc[u].item
  BY DEF Others, Prepares
<1>3. \A u \in Threads : pc'[u] \in {"finish", "countUp"} =>
        pc[u] \in {"finish", "countUp"} /\ loc'[u].item = loc[u].item
  BY DEF Others
<1> QED  BY <1>1, <1>2, <1>3 DEF NothingLost

-----------------------------------------------------------------------------
(* Steps that leave the nodes, m_Head and the free list alone. *)
LEMMA TailMoves ==
  ASSUME NEW own, NEW pos, NEW rank, Queue(own, pos, rank), next[tail.node] \in Nodes,
         tail \in Link
  PROVE  own[next[tail.node]] = End /\ next[tail.node] # head.node /\ next[tail.node] # tail.node
<1>1. tail.node \in Nodes /\ own[tail.node] = End /\ End \notin Nodes /\ Null # End
  BY ConstantsApart DEF Queue, Link
<1>2. Forest(next, own, pos, head.node) /\ pos \in [Nodes -> Nat]
  BY DEF Queue, Forest
<1>3. own[next[tail.node]] = End /\ pos[next[tail.node]] = pos[tail.node] + 1
  BY <1>1, <1>2, ForestNext
<1>4. pos[head.node] <= pos[tail.node] /\ pos[head.node] \in Nat /\ pos[tail.node] \in Nat
  BY <1>1, <1>2 DEF Forest
<1> QED  BY <1>3, <1>4

LEMMA Ends ==
  ASSUME NEW own, NEW pos, NEW rank, Queue(own, pos, rank), tail \in Link
  PROVE  /\ next[head.node] \in Nodes \cup {End} /\ next[tail.node] \in Nodes \cup {End}
         /\ head.node \in Nodes /\ tail.node \in Nodes
         /\ own[head.node] = End /\ own[tail.node] = End
         /\ own \in [Nodes -> Pointers] /\ pos \in [Nodes -> Nat] /\ next \in [Nodes -> Pointers]
  BY ConstantsApart DEF Queue, Forest, Link, Pointers

TailStep ==
  \/ tail' = tail
  \/ next[tail.node] \in Nodes /\ tail' = [node |-> next[tail.node], seq |-> tail.seq + 1]
Calm(t) ==
  /\ Others(t) /\ step[t] = "ready"
  /\ UNCHANGED <<next, elem, head, heap, freeVars, pushed, out>>
  /\ TailStep
  /\ emptied' = {u \in Threads : pc'[u] \in InPop /\ (u \in emptied \/ Empty')}
  /\ pc[t] \notin {"getNode", "setNext", "countDown"}
  /\ pc'[t] \notin {"getNode", "setNext", "countDown", "freeNode"}
  /\ pc[t] = "freeNode" => pc'[t] = "idle"
  /\ Prepares(t)' <=> Prepares(t)
  /\ Prepares(t) => loc'[t].node = loc[t].node /\ loc'[t].item = loc[t].item
  /\ pc'[t] \in {"finish", "countUp"} => pc[t] \in {"finish", "countUp"} /\ loc'[t].item = loc[t].item

LEMMA CalmAdvances ==
  ASSUME Typed, NEW own, NEW pos, NEW rank, Queue(own, pos, rank), NEW t \in Threads, Calm(t)
  PROVE  Advances /\ own[tail'.node] = End
<1>1. tail \in Link /\ own[tail.node] = End
  BY DEF Typed, TypeOK, Queue
<1>2. CASE tail' = tail
  BY <1>1, <1>2 DEF Calm, Advances
<1>3. CASE tail' # tail
  <2>1. next[tail.node] \in Nodes /\ tail'.node = next[tail.node] /\ tail'.seq = tail.seq + 1
    BY <1>3 DEF Calm, TailStep
  <2>2. own[next[tail.node]] = End /\ next[tail.node] # head.node
    BY <1>1, <2>1, TailMoves
  <2>3. head' = head /\ next' = next /\ elem' = elem
    BY DEF Calm
  <2> QED  BY <1>3, <2>1, <2>2, <2>3 DEF Advances
<1> QED  BY <1>2, <1>3

LEMMA CalmStep ==
  ASSUME Typed, NEW own, NEW pos, NEW rank, NEW s, NEW q, Shape(own, pos, rank, s, q),
         NEW t \in Threads, Calm(t),
         pc'[t] \in {"tailSeq", "link"} =>
           \/ own[loc'[t].old.node] \notin Nodes
           \/ pc[t] \in {"tailSeq", "link"} /\ loc'[t].old.node = loc[t].old.node,
         HeadSide(t)', TailSide(t)', Told(t)',
         (pops' = pops /\ (pc'[t] \in PopLabels => pc[t] \in PopLabels)) \/ Counted(q, s)',
         returned' = returned \/ NothingLost(own)'
  PROVE  Shape(own, pos, rank, s, q)'
<1>1. /\ Others(t) /\ step[t] = "ready" /\ next' = next /\ elem' = elem /\ head' = head /\ heap' = heap
      /\ top' = top /\ step' = step /\ mine' = mine /\ seen' = seen /\ nxt' = nxt
      /\ pushed' = pushed /\ out' = out
      /\ emptied' = {u \in Threads : pc'[u] \in InPop /\ (u \in emptied \/ Empty')}
  BY DEF Calm, freeVars
<1>2. /\ Queue(own, pos, rank) /\ Stacked(s) /\ Apart(own, s) /\ Counted(q, s)
      /\ ElementsOnce(own) /\ NothingLost(own)
      /\ \A u \in Threads : HeadSide(u) /\ TailSide(u) /\ FreeSide(u, q, s) /\ Told(u)
  BY DEF Shape
<1>3. Advances /\ own[tail'.node] = End
  BY <1>2, CalmAdvances
<1>4. head \in Link /\ tail \in Link /\ loc \in [Threads -> Locals]
  BY DEF Typed, TypeOK
<1>5. Queue(own, pos, rank)'
  <2>1. Forest(next', own, pos, head.node')
    BY <1>1, <1>2 DEF Queue
  <2>2. /\ Prepares(t)' <=> Prepares(t)
        /\ Prepares(t) => loc'[t].node = loc[t].node
    BY DEF Calm
  <2> QED  BY <1>1, <1>2, <1>3, <2>1, <2>2, QueueKept
<1>6. Apart(own, s)'
  <2>1. Held(t)' \in {Held(t), Null} /\ (Prepares(t) => Prepares(t)')
    BY DEF Calm, Held
  <2> QED  BY <1>1, <1>2, <2>1, ApartKept
<1>7. Stacked(s)'
  BY <1>1, <1>2, StackedKept
<1>8. Counted(q, s)'
  <2> SUFFICES ASSUME pops' = pops, pc'[t] \in PopLabels => pc[t] \in PopLabels
               PROVE  Counted(q, s)'
    OBVIOUS
  <2>1. t \in Active' => t \in Active
    <3>1. pc'[t] \in PopLabels => pc[t] # "freeNode"
      BY DEF Calm, PopLabels, InPop
    <3> QED  BY <1>1, <3>1 DEF Active
  <2> QED  BY <1>1, <1>2, <2>1, CountedKept
<1>9. \A u \in Threads : HeadSide(u)' /\ TailSide(u)' /\ Told(u)' /\ FreeSide(u, q, s)'
  <2> SUFFICES ASSUME NEW u \in Threads
               PROVE  HeadSide(u)' /\ TailSide(u)' /\ Told(u)' /\ FreeSide(u, q, s)'
    OBVIOUS
  <2>1. CASE u = t
    <3>1. FreeSide(t, q, s)'
      BY <1>1 DEF FreeSide, PopSteps, PushSteps
    <3> QED  BY <2>1, <3>1
  <2>2. CASE u # t
    <3>1. pc'[u] = pc[u] /\ loc'[u] = loc[u]
      BY <1>1, <2>2 DEF Others
    <3>2. next[head.node] \in Nodes \cup {End} /\ next[tail.node] \in Nodes \cup {End}
      BY <1>2, <1>4, Ends
    <3>3. HeadSide(u)' /\ TailSide(u)'
      BY <1>2, <1>3, <1>4, <3>1, <3>2, SidesKept
    <3>4. Told(u)'
      BY <1>1, <1>2, <3>1, ToldKept
    <3>5. FreeSide(u, q, s)'
      BY <1>1, <1>2, <3>1, FreeSideKept
    <3> QED  BY <3>3, <3>4, <3>5
  <2> QED  BY <2>1, <2>2
<1>10. ElementsOnce(own)'
  <2>1. ~Coming(t)'
    BY DEF Calm, Coming
  <2> QED  BY <1>1, <1>2, <2>1, ElementsOnceKept
<1>11. NothingLost(own)'
  <2> SUFFICES ASSUME returned' = returned  PROVE NothingLost(own)'
    OBVIOUS
  <2>1. pc'[t] = "setNext" \/ Prepares(t)' =>
           (pc[t] = "setNext" \/ Prepares(t)) /\ loc'[t].node = loc[t].node /\ loc'[t].item = loc[t].item
    BY DEF Calm
  <2>2. pc'[t] \in {"finish", "countUp"} =>
           pc[t] \in {"finish", "countUp"} /\ loc'[t].item = loc[t].item
    BY DEF Calm
  <2> QED  BY <1>1, <1>2, <2>1, <2>2, NothingLostKept
<1> QED  BY <1>5, <1>6, <1>7, <1>8, <1>9, <1>10, <1>11 DEF Shape

(* What a step of t on the queue starts from. *)
LEMMA Here ==
  ASSUME Typed, NEW own, NEW pos, NEW rank, NEW s, NEW q, Shape(own, pos, rank, s, q),
         NEW t \in Threads
  PROVE  /\ Queue(own, pos, rank) /\ Stacked(s) /\ Apart(own, s) /\ Counted(q, s)
         /\ ElementsOnce(own) /\ NothingLost(own)
         /\ HeadSide(t) /\ TailSide(t) /\ FreeSide(t, q, s) /\ Told(t)
         /\ pc[t] \notin {"getNode", "freeNode"} => step[t] = "ready"
         /\ next[head.node] \in Nodes \cup {End} /\ next[tail.node] \in Nodes \cup {End}
         /\ head \in Link /\ tail \in Link /\ next \in [Nodes -> Pointers]
         /\ loc[t] \in Locals /\ loc[t].old \in Link /\ loc[t].node \in Nodes /\ loc[t].succ \in Pointers
<1>1. /\ Queue(own, pos, rank) /\ Stacked(s) /\ Apart(own, s) /\ Counted(q, s)
      /\ ElementsOnce(own) /\ NothingLost(own)
      /\ HeadSide(t) /\ TailSide(t) /\ FreeSide(t, q, s) /\ Told(t)
  BY DEF Shape
<1>2. /\ head \in Link /\ tail \in Link /\ next \in [Nodes -> Pointers] /\ loc \in [Threads -> Locals]
      /\ step[t] \in {"ready"} \cup PopSteps \cup PushSteps
  BY DEF Typed, TypeOK, Free!LTypeOK, PopSteps, PushSteps
<1>3. next[head.node] \in Nodes \cup {End} /\ next[tail.node] \in Nodes \cup {End}
  BY <1>1, <1>2, Ends
<1>4. loc[t] \in Locals /\ loc[t].old \in Link /\ loc[t].node \in Nodes /\ loc[t].succ \in Pointers
  BY <1>2 DEF Locals
<1>5. pc[t] \notin {"getNode", "freeNode"} => step[t] = "ready"
  BY <1>1, <1>2 DEF FreeSide
<1> QED  BY <1>1, <1>2, <1>3, <1>4, <1>5

LEMMA SameLink ==
  ASSUME NEW a \in Link, NEW b \in Link, a.node = b.node, a.seq = b.seq
  PROVE  a = b
  BY DEF Link

(* A step that only reads. *)
LEMMA ReadIsCalm ==
  ASSUME Typed, NEW t \in Threads, NEW from, NEW to, Thread(t), Read(t, from, to), step[t] = "ready",
         from \notin {"getNode", "setNext", "countDown", "freeNode"},
         to \notin {"getNode", "setNext", "countDown", "freeNode", "finish", "countUp"},
         from \in PrepareLabels <=> to \in PrepareLabels,
         from \in PrepareLabels => loc'[t].node = loc[t].node /\ loc'[t].item = loc[t].item
  PROVE  Calm(t) /\ pc[t] = from /\ pc'[t] = to /\ pops' = pops /\ returned' = returned
<1>1. Others(t)
  BY OneThread
<1>2. pc[t] = from /\ pc'[t] = to
  BY DEF Read, Step, Typed, TypeOK
<1>3. /\ UNCHANGED <<next, elem, head, heap, freeVars, pushed, out>> /\ TailStep
      /\ pops' = pops /\ returned' = returned
  BY DEF Read, queueVars, historyVars, TailStep
<1>4. emptied' = {u \in Threads : pc'[u] \in InPop /\ (u \in emptied \/ Empty')}
  BY DEF Thread
<1> QED  BY <1>1, <1>2, <1>3, <1>4 DEF Calm, Prepares

LEMMA ReadTailNodeStep ==
  ASSUME Typed, NEW own, NEW pos, NEW rank, NEW s, NEW q, Shape(own, pos, rank, s, q),
         NEW t \in Threads, Thread(t), ReadTailNode(t)
  PROVE  Shape(own, pos, rank, s, q)'
<1>0. pc[t] = "tailNode"
  BY DEF ReadTailNode, Read, Step
<1>1. /\ step[t] = "ready" /\ loc[t] \in Locals /\ tail \in Link /\ own[tail.node] = End
  BY <1>0, Here DEF Queue
<1>2. loc'[t].old.node = tail.node /\ loc'[t].node = loc[t].node /\ loc'[t].item = loc[t].item
  BY <1>1 DEF ReadTailNode, Typed, TypeOK, Locals, Link
<1>3. Calm(t) /\ pc'[t] = "tailSeq" /\ pops' = pops /\ returned' = returned
  BY <1>1, <1>2, ReadIsCalm DEF ReadTailNode, PrepareLabels
<1>4. HeadSide(t)' /\ TailSide(t)' /\ Told(t)'
  BY <1>3 DEF HeadSide, TailSide, Told, SincePopSeq
<1>5. own[loc'[t].old.node] \notin Nodes
  BY <1>1, <1>2, ConstantsApart
<1> QED  BY <1>3, <1>4, <1>5, CalmStep DEF PopLabels, InPop

LEMMA ReadTailSeqStep ==
  ASSUME Typed, NEW own, NEW pos, NEW rank, NEW s, NEW q, Shape(own, pos, rank, s, q),
         NEW t \in Threads, Thread(t), ReadTailSeq(t)
  PROVE  Shape(own, pos, rank, s, q)'
<1>0. pc[t] = "tailSeq"
  BY DEF ReadTailSeq, Read, Step
<1>1. step[t] = "ready" /\ loc[t] \in Locals /\ tail \in Link
  BY <1>0, Here
<1>2. /\ loc'[t].old.seq = tail.seq /\ loc'[t].old.node = loc[t].old.node
      /\ loc'[t].node = loc[t].node /\ loc'[t].item = loc[t].item
  BY <1>1 DEF ReadTailSeq, Typed, TypeOK, Locals, Link
<1>3. Calm(t) /\ pc'[t] = "link" /\ pops' = pops /\ returned' = returned /\ tail' = tail
  BY <1>1, <1>2, ReadIsCalm DEF ReadTailSeq, PrepareLabels, Read, queueVars
<1>4. tail.seq \in Nat
  BY <1>1 DEF Link
<1>5. HeadSide(t)' /\ TailSide(t)' /\ Told(t)'
  BY <1>2, <1>3, <1>4 DEF HeadSide, TailSide, Told, SincePopSeq
<1> QED  BY <1>0, <1>2, <1>3, <1>5, CalmStep DEF PopLabels, InPop

LEMMA LinkNodeFails ==
  ASSUME Typed, NEW own, NEW pos, NEW rank, NEW s, NEW q, Shape(own, pos, rank, s, q),
         NEW t \in Threads, Thread(t), LinkNode(t), next[loc[t].old.node] # End
  PROVE  Shape(own, pos, rank, s, q)'
<1>0. Step(t, "link", "helpRead") /\ UNCHANGED <<next, elem, head, tail, count, heap, loc, freeVars, historyVars>>
  BY DEF LinkNode
<1>1. /\ pc[t] = "link" /\ pc'[t] = "helpRead"
  BY <1>0 DEF Step, Typed, TypeOK
<1>2. /\ step[t] = "ready" /\ TailSide(t) /\ next[tail.node] \in Nodes \cup {End}
  BY <1>1, Here
<1>3. Calm(t) /\ pops' = pops /\ returned' = returned /\ loc' = loc /\ tail' = tail /\ next' = next
  BY <1>0, <1>1, <1>2, OneThread
     DEF Calm, Thread, historyVars, TailStep, Prepares, PrepareLabels
<1>4. HeadSide(t)' /\ TailSide(t)' /\ Told(t)'
  BY <1>1, <1>2, <1>3 DEF HeadSide, TailSide, Told, SincePopSeq
<1> QED  BY <1>1, <1>3, <1>4, CalmStep DEF PopLabels, InPop

LEMMA HelpReadStep ==
  ASSUME Typed, NEW own, NEW pos, NEW rank, NEW s, NEW q, Shape(own, pos, rank, s, q),
         NEW t \in Threads, Thread(t), HelpRead(t)
  PROVE  Shape(own, pos, rank, s, q)'
<1>0. pc[t] = "helpRead"
  BY DEF HelpRead, Read, Step
<1>1. step[t] = "ready" /\ loc[t] \in Locals /\ TailSide(t)
  BY <1>0, Here
<1>2. /\ loc'[t].succ = next[loc[t].old.node] /\ loc'[t].old = loc[t].old
      /\ loc'[t].node = loc[t].node /\ loc'[t].item = loc[t].item
  BY <1>1 DEF HelpRead, Typed, TypeOK, Locals
<1>3. Calm(t) /\ pc'[t] = "help" /\ pops' = pops /\ returned' = returned /\ tail' = tail /\ next' = next
  BY <1>1, <1>2, ReadIsCalm DEF HelpRead, PrepareLabels, Read, queueVars
<1>4. HeadSide(t)' /\ TailSide(t)' /\ Told(t)'
  BY <1>0, <1>1, <1>2, <1>3 DEF HeadSide, TailSide, Told, SincePopSeq
<1> QED  BY <1>3, <1>4, CalmStep DEF PopLabels, InPop

LEMMA HelpStep ==
  ASSUME Typed, NEW own, NEW pos, NEW rank, NEW s, NEW q, Shape(own, pos, rank, s, q),
         NEW t \in Threads, Thread(t), Help(t)
  PROVE  Shape(own, pos, rank, s, q)'
<1>1. pc[t] = "help" /\ pc'[t] = "tailNode"
  BY DEF Help, Step, Typed, TypeOK
<1>2. step[t] = "ready" /\ TailSide(t)
  BY <1>1, Here
<1>3. TailStep
  BY <1>1, <1>2 DEF Help, FinishPush, TailSide, TailStep
<1>4. Calm(t) /\ pops' = pops /\ returned' = returned /\ loc' = loc
  BY <1>1, <1>2, <1>3, OneThread DEF Help, Calm, Thread, historyVars, Prepares, PrepareLabels
<1>5. HeadSide(t)' /\ TailSide(t)' /\ Told(t)'
  BY <1>1 DEF HeadSide, TailSide, Told, SincePopSeq
<1> QED  BY <1>1, <1>4, <1>5, CalmStep DEF PopLabels, InPop

LEMMA FinishOwnPushStep ==
  ASSUME Typed, NEW own, NEW pos, NEW rank, NEW s, NEW q, Shape(own, pos, rank, s, q),
         NEW t \in Threads, Thread(t), FinishOwnPush(t)
  PROVE  Shape(own, pos, rank, s, q)'
<1>1. pc[t] = "finish" /\ pc'[t] = "countUp"
  BY DEF FinishOwnPush, Step, Typed, TypeOK
<1>2. step[t] = "ready" /\ TailSide(t) /\ loc[t].node \in Nodes
  BY <1>1, Here
<1>3. TailStep
  BY <1>1, <1>2 DEF FinishOwnPush, FinishPush, TailSide, TailStep
<1>4. Calm(t) /\ pops' = pops /\ returned' = returned /\ loc' = loc
  BY <1>1, <1>2, <1>3, OneThread DEF FinishOwnPush, Calm, Thread, historyVars, Prepares, PrepareLabels
<1>5. HeadSide(t)' /\ TailSide(t)' /\ Told(t)'
  BY <1>1 DEF HeadSide, TailSide, Told, SincePopSeq
<1> QED  BY <1>1, <1>4, <1>5, CalmStep DEF PopLabels, InPop

LEMMA CountUpStep ==
  ASSUME Typed, NEW own, NEW pos, NEW rank, NEW s, NEW q, Shape(own, pos, rank, s, q),
         NEW t \in Threads, Thread(t), CountUp(t)
  PROVE  Shape(own, pos, rank, s, q)'
<1>1. pc[t] = "countUp" /\ pc'[t] = "idle"
  BY DEF CountUp, Step, Typed, TypeOK
<1>2. step[t] = "ready" /\ NothingLost(own) /\ Queue(own, pos, rank)
  BY <1>1, Here
<1>3. Calm(t) /\ pops' = pops
  BY <1>1, <1>2, OneThread DEF CountUp, Calm, Thread, TailStep, Prepares, PrepareLabels
<1>4. NothingLost(own)'
  <2>1. \A i : Placed(own, i)' <=> Placed(own, i)
    BY DEF CountUp, Placed, Queued, Delivered
  <2>2. returned' = returned \cup {loc[t].item} /\ Placed(own, loc[t].item)
    BY <1>1, <1>2 DEF CountUp, NothingLost
  <2>3. \A u \in Threads : pc'[u] \in {"finish", "countUp"} \/ pc'[u] = "setNext" \/ Prepares(u)' =>
          pc'[u] = pc[u] /\ loc'[u] = loc[u] /\ (Prepares(u)' => Prepares(u))
    BY <1>1, <1>3 DEF Calm, Others, Prepares, PrepareLabels
  <2>4. elem' = elem
    BY DEF CountUp
  <2> QED  BY <1>2, <2>1, <2>2, <2>3, <2>4 DEF NothingLost
<1>5. HeadSide(t)' /\ TailSide(t)' /\ Told(t)'
  BY <1>1 DEF HeadSide, TailSide, Told, SincePopSeq
<1> QED  BY <1>1, <1>3, <1>4, <1>5, CalmStep DEF PopLabels, InPop

LEMMA BeginPopItemStep ==
  ASSUME Typed, NEW own, NEW pos, NEW rank, NEW s, NEW q, Shape(own, pos, rank, s, q),
         NEW t \in Threads, Thread(t), BeginPopItem(t)
  PROVE  Shape(own, pos, rank, s, q)'
<1>1. pc[t] = "idle" /\ pc'[t] = "headSeq"
  BY DEF BeginPopItem, Step, Typed, TypeOK
<1>2. step[t] = "ready" /\ Counted(q, s)
  BY <1>1, Here
<1>3. Calm(t) /\ returned' = returned /\ pops' = pops + 1
  BY <1>1, <1>2, OneThread DEF BeginPopItem, queueVars, Calm, Thread, TailStep, Prepares, PrepareLabels
<1>4. Counted(q, s)'
  <2>1. Active' = Active \cup {t} /\ t \notin Active
    <3>1. \A u \in Threads \ {t} : u \in Active' <=> u \in Active
      BY <1>3 DEF Calm, Others, Active
    <3>2. t \in Active' /\ t \notin Active
      BY <1>1 DEF Active, PopLabels, InPop
    <3> QED  BY <3>1, <3>2 DEF Active
  <2>2. IsFiniteSet(Active) /\ q + Cardinality(Active) <= pops
    BY <1>2 DEF Counted
  <2>3. IsFiniteSet(Active') /\ Cardinality(Active') = Cardinality(Active) + 1
    BY <2>1, <2>2, FS_AddElement
  <2>4. q \in Nat /\ Cardinality(Active) \in Nat /\ pops \in Nat
    BY <1>2, <2>2, FS_CardinalityType DEF Counted, Typed
  <2>5. q + Cardinality(Active') <= pops'
    BY <1>3, <2>2, <2>3, <2>4
  <2>6. top' = top
    BY <1>3 DEF Calm, freeVars
  <2> QED  BY <1>2, <2>3, <2>5, <2>6 DEF Counted
<1>5. HeadSide(t)' /\ TailSide(t)' /\ Told(t)'
  BY <1>1 DEF HeadSide, TailSide, Told, SincePopSeq
<1> QED  BY <1>1, <1>3, <1>4, <1>5, CalmStep

LEMMA ReadHeadSeqStep ==
  ASSUME Typed, NEW own, NEW pos, NEW rank, NEW s, NEW q, Shape(own, pos, rank, s, q),
         NEW t \in Threads, Thread(t), ReadHeadSeq(t)
  PROVE  Shape(own, pos, rank, s, q)'
<1>0. pc[t] = "headSeq"
  BY DEF ReadHeadSeq, Read, Step
<1>1. step[t] = "ready" /\ loc[t] \in Locals /\ head \in Link
  BY <1>0, Here
<1>2. loc'[t].old.seq = head.seq
  BY <1>1 DEF ReadHeadSeq, Typed, TypeOK, Locals, Link
<1>3. Calm(t) /\ pc'[t] = "headNode" /\ pops' = pops /\ returned' = returned /\ head' = head
  BY <1>1, ReadIsCalm DEF ReadHeadSeq, PrepareLabels, Read, queueVars
<1>4. head.seq \in Nat
  BY <1>1 DEF Link
<1>5. HeadSide(t)' /\ TailSide(t)' /\ Told(t)'
  BY <1>2, <1>3, <1>4 DEF HeadSide, TailSide, Told, SincePopSeq
<1> QED  BY <1>0, <1>3, <1>5, CalmStep DEF PopLabels, InPop

LEMMA ReadHeadNodeStep ==
  ASSUME Typed, NEW own, NEW pos, NEW rank, NEW s, NEW q, Shape(own, pos, rank, s, q),
         NEW t \in Threads, Thread(t), ReadHeadNode(t)
  PROVE  Shape(own, pos, rank, s, q)'
<1>0. pc[t] = "headNode"
  BY DEF ReadHeadNode, Read, Step
<1>1. step[t] = "ready" /\ loc[t] \in Locals /\ head \in Link /\ HeadSide(t)
  BY <1>0, Here
<1>2. loc'[t].old.node = head.node /\ loc'[t].old.seq = loc[t].old.seq /\ loc'[t].old \in Link
  BY <1>1 DEF ReadHeadNode, Typed, TypeOK, Locals, Link
<1>3. Calm(t) /\ pc'[t] = "popTailSeq" /\ pops' = pops /\ returned' = returned /\ head' = head
  BY <1>1, ReadIsCalm DEF ReadHeadNode, PrepareLabels, Read, queueVars
<1>4. loc'[t].old.seq = head.seq => loc'[t].old = head
  BY <1>1, <1>2, SameLink
<1>5. HeadSide(t)' /\ TailSide(t)' /\ Told(t)'
  BY <1>0, <1>1, <1>2, <1>3, <1>4 DEF HeadSide, TailSide, Told, SincePopSeq
<1> QED  BY <1>0, <1>3, <1>5, CalmStep DEF PopLabels, InPop

LEMMA ReadPopTailSeqStep ==
  ASSUME Typed, NEW own, NEW pos, NEW rank, NEW s, NEW q, Shape(own, pos, rank, s, q),
         NEW t \in Threads, Thread(t), ReadPopTailSeq(t)
  PROVE  Shape(own, pos, rank, s, q)'
<1>0. pc[t] = "popTailSeq"
  BY DEF ReadPopTailSeq, Read, Step
<1>1. step[t] = "ready" /\ loc[t] \in Locals /\ tail \in Link /\ HeadSide(t)
  BY <1>0, Here
<1>2. loc'[t].old = loc[t].old /\ loc'[t].tailSeq = tail.seq
  BY <1>1 DEF ReadPopTailSeq, Typed, TypeOK, Locals
<1>3. Calm(t) /\ pc'[t] = "headNext" /\ pops' = pops /\ returned' = returned /\ head' = head /\ tail' = tail
  BY <1>1, ReadIsCalm DEF ReadPopTailSeq, PrepareLabels, Read, queueVars
<1>4. tail.seq \in Nat
  BY <1>1 DEF Link
<1>5. HeadSide(t)' /\ TailSide(t)' /\ Told(t)'
  BY <1>0, <1>1, <1>2, <1>3, <1>4 DEF HeadSide, TailSide, Told, SincePopSeq
<1> QED  BY <1>0, <1>3, <1>5, CalmStep DEF PopLabels, InPop

LEMMA ReadHeadNextStep ==
  ASSUME Typed, NEW own, NEW pos, NEW rank, NEW s, NEW q, Shape(own, pos, rank, s, q),
         NEW t \in Threads, Thread(t), ReadHeadNext(t)
  PROVE  Shape(own, pos, rank, s, q)'
<1>0. pc[t] = "headNext"
  BY DEF ReadHeadNext, Read, Step
<1>1. step[t] = "ready" /\ loc[t] \in Locals /\ HeadSide(t) /\ TailSide(t)
  BY <1>0, Here
<1>2. /\ loc'[t].old = loc[t].old /\ loc'[t].tailSeq = loc[t].tailSeq
      /\ loc'[t].succ = next[loc[t].old.node]
  BY <1>1 DEF ReadHeadNext, Typed, TypeOK, Locals
<1>3. /\ Calm(t) /\ pc'[t] = "recheck" /\ pops' = pops /\ returned' = returned
      /\ head' = head /\ tail' = tail /\ next' = next
  BY <1>1, ReadIsCalm DEF ReadHeadNext, PrepareLabels, Read, queueVars
<1>4. HeadSide(t)'
  BY <1>0, <1>1, <1>2, <1>3 DEF HeadSide, SincePopSeq
<1>5. TailSide(t)'
  <2>1. tail = [node |-> loc[t].old.node, seq |-> loc[t].tailSeq] => tail.node = loc[t].old.node
    OBVIOUS
  <2> QED  BY <1>0, <1>1, <1>2, <1>3, <2>1 DEF TailSide
<1>6. Told(t)'
  <2>1. loc'[t].succ = End /\ loc'[t].old = head' => Empty'
    BY <1>2, <1>3 DEF Empty
  <2>2. Empty' => t \in emptied'
    BY <1>3 DEF Calm, InPop
  <2> QED  BY <1>3, <2>1, <2>2 DEF Told
<1> QED  BY <1>0, <1>3, <1>4, <1>5, <1>6, CalmStep DEF PopLabels, InPop

LEMMA RecheckStep ==
  ASSUME Typed, NEW own, NEW pos, NEW rank, NEW s, NEW q, Shape(own, pos, rank, s, q),
         NEW t \in Threads, Thread(t), Recheck(t)
  PROVE  Shape(own, pos, rank, s, q)'
<1>0. pc[t] = "recheck" /\ loc' = loc
  BY DEF Recheck, Read, Step
<1>1. step[t] = "ready" /\ loc[t] \in Locals /\ HeadSide(t) /\ TailSide(t) /\ Told(t)
  BY <1>0, Here
<1> DEFINE to == IF loc[t].succ # Null /\ loc[t].old.seq = head.seq THEN "compare" ELSE "headSeq"
<1>2. Read(t, "recheck", to) /\ to \in {"compare", "headSeq"}
  BY DEF Recheck
<1>3. to = "compare" => loc[t].succ # Null /\ loc[t].old.seq = head.seq
  OBVIOUS
<1> HIDE DEF to
<1>4. /\ Calm(t) /\ pc'[t] = to /\ pops' = pops /\ returned' = returned
      /\ head' = head /\ tail' = tail /\ next' = next
  BY <1>1, <1>2, ReadIsCalm DEF PrepareLabels, Read, queueVars
<1>5. HeadSide(t)' /\ TailSide(t)'
  BY <1>0, <1>1, <1>2, <1>3, <1>4 DEF HeadSide, TailSide, SincePopSeq
<1>6. Told(t)'
  <2>1. to = "compare" /\ loc[t].succ = End => t \in emptied
    BY <1>0, <1>1, <1>3 DEF Told, HeadSide, SincePopSeq
  <2>2. to = "compare" /\ t \in emptied => t \in emptied'
    BY <1>4 DEF Calm, InPop
  <2> QED  BY <1>0, <1>2, <1>4, <2>1, <2>2 DEF Told
<1> QED  BY <1>0, <1>2, <1>4, <1>5, <1>6, CalmStep DEF PopLabels, InPop

LEMMA CompareStep ==
  ASSUME Typed, NEW own, NEW pos, NEW rank, NEW s, NEW q, Shape(own, pos, rank, s, q),
         NEW t \in Threads, Thread(t), Compare(t)
  PROVE  Shape(own, pos, rank, s, q)'
<1>0. pc[t] = "compare"
  BY DEF Compare, Read, Step
<1>1. step[t] = "ready" /\ loc[t].succ \in Pointers /\ HeadSide(t) /\ TailSide(t)
  BY <1>0, Here
<1>2. PICK to \in {"idle", "popHelp", "readElem", "headSeq"} :
        /\ Read(t, "compare", to)
        /\ to \in {"popHelp", "readElem"} => loc'[t] = loc[t] /\ loc[t].succ # End
        /\ to = "readElem" => loc[t].old.node # tail.node
  BY DEF Compare
<1>3. /\ Calm(t) /\ pc'[t] = to /\ pops' = pops /\ returned' = returned
      /\ head' = head /\ tail' = tail /\ next' = next
  BY <1>1, <1>2, ReadIsCalm DEF PrepareLabels, Read, queueVars
<1>4. to \in {"popHelp", "readElem"} => loc[t].succ \in Nodes
  BY <1>0, <1>1, <1>2 DEF HeadSide, Pointers
<1>5. HeadSide(t)'
  BY <1>0, <1>1, <1>2, <1>3, <1>4 DEF HeadSide, SincePopSeq
<1>6. TailSide(t)' /\ Told(t)'
  BY <1>0, <1>1, <1>2, <1>3 DEF TailSide, Told
<1> QED  BY <1>0, <1>2, <1>3, <1>5, <1>6, CalmStep DEF PopLabels, InPop

LEMMA PopHelpStep ==
  ASSUME Typed, NEW own, NEW pos, NEW rank, NEW s, NEW q, Shape(own, pos, rank, s, q),
         NEW t \in Threads, Thread(t), PopHelp(t)
  PROVE  Shape(own, pos, rank, s, q)'
<1>1. pc[t] = "popHelp" /\ pc'[t] = "headSeq"
  BY DEF PopHelp, Step, Typed, TypeOK
<1>2. step[t] = "ready" /\ TailSide(t) /\ HeadSide(t) /\ next[tail.node] \in Nodes \cup {End}
  BY <1>1, Here
<1>3. TailStep
  <2>1. CASE tail = [node |-> loc[t].old.node, seq |-> loc[t].tailSeq]
    <3>1. loc[t].succ = next[tail.node] /\ loc[t].succ \in Nodes
      BY <1>1, <1>2, <2>1, ConstantsApart DEF TailSide, HeadSide
    <3>2. tail' = [node |-> loc[t].succ, seq |-> loc[t].tailSeq + 1] /\ tail.seq = loc[t].tailSeq
      BY <2>1 DEF PopHelp, FinishPush
    <3> QED  BY <3>1, <3>2 DEF TailStep
  <2>2. CASE tail # [node |-> loc[t].old.node, seq |-> loc[t].tailSeq]
    BY <2>2 DEF PopHelp, FinishPush, TailStep
  <2> QED  BY <2>1, <2>2
<1>4. Calm(t) /\ pops' = pops /\ returned' = returned
  BY <1>1, <1>2, <1>3, OneThread DEF PopHelp, Calm, Thread, historyVars, Prepares, PrepareLabels
<1>5. HeadSide(t)' /\ TailSide(t)' /\ Told(t)'
  BY <1>1 DEF HeadSide, TailSide, Told, SincePopSeq
<1> QED  BY <1>1, <1>4, <1>5, CalmStep DEF PopLabels, InPop

LEMMA ReadElemStep ==
  ASSUME Typed, NEW own, NEW pos, NEW rank, NEW s, NEW q, Shape(own, pos, rank, s, q),
         NEW t \in Threads, Thread(t), ReadElem(t)
  PROVE  Shape(own, pos, rank, s, q)'
<1>0. pc[t] = "readElem"
  BY DEF ReadElem, Read, Step
<1>1. step[t] = "ready" /\ loc[t] \in Locals /\ HeadSide(t)
  BY <1>0, Here
<1>2. /\ loc'[t].old = loc[t].old /\ loc'[t].succ = loc[t].succ
      /\ loc'[t].item = elem[loc[t].succ]
  BY <1>1 DEF ReadElem, Typed, TypeOK, Locals
<1>3. /\ Calm(t) /\ pc'[t] = "swapHead" /\ pops' = pops /\ returned' = returned
      /\ head' = head /\ tail' = tail /\ next' = next /\ elem' = elem
  BY <1>1, ReadIsCalm DEF ReadElem, PrepareLabels, Read, queueVars
<1>4. loc[t].old = head => loc[t].succ = next[head.node]
  BY <1>0, <1>1, ConstantsApart DEF HeadSide
<1>5. HeadSide(t)'
  BY <1>0, <1>1, <1>2, <1>3, <1>4 DEF HeadSide, SincePopSeq
<1>6. TailSide(t)' /\ Told(t)'
  BY <1>3 DEF TailSide, Told
<1> QED  BY <1>0, <1>3, <1>5, <1>6, CalmStep DEF PopLabels, InPop

LEMMA SwapHeadFails ==
  ASSUME Typed, NEW own, NEW pos, NEW rank, NEW s, NEW q, Shape(own, pos, rank, s, q),
         NEW t \in Threads, Thread(t), SwapHead(t), head # loc[t].old
  PROVE  Shape(own, pos, rank, s, q)'
<1>0. /\ Step(t, "swapHead", "headSeq") /\ UNCHANGED <<head, out>>
      /\ UNCHANGED <<next, elem, tail, count, heap, loc, freeVars, pushed, pops, returned, before>>
  BY DEF SwapHead
<1>1. pc[t] = "swapHead" /\ pc'[t] = "headSeq"
  BY <1>0 DEF Step, Typed, TypeOK
<1>2. step[t] = "ready"
  BY <1>1, Here
<1>3. Calm(t) /\ pops' = pops /\ returned' = returned
  BY <1>0, <1>1, <1>2, OneThread DEF Calm, Thread, TailStep, Prepares, PrepareLabels
<1>4. HeadSide(t)' /\ TailSide(t)' /\ Told(t)'
  BY <1>1 DEF HeadSide, TailSide, Told, SincePopSeq
<1> QED  BY <1>1, <1>3, <1>4, CalmStep DEF PopLabels, InPop

LEMMA FreeNodeStep ==
  ASSUME Typed, NEW own, NEW pos, NEW rank, NEW s, NEW q, Shape(own, pos, rank, s, q),
         NEW t \in Threads, Thread(t), FreeNode(t)
  PROVE  Shape(own, pos, rank, s, q)'
<1>1. pc[t] = "freeNode" /\ pc'[t] = "idle" /\ step[t] = "ready"
  BY DEF FreeNode, Read, Step, Typed, TypeOK
<1>2. Calm(t) /\ pops' = pops /\ returned' = returned
  BY <1>1, OneThread
     DEF FreeNode, Read, queueVars, historyVars, Calm, Thread, TailStep, Prepares, PrepareLabels
<1>3. HeadSide(t)' /\ TailSide(t)' /\ Told(t)'
  BY <1>1 DEF HeadSide, TailSide, Told, SincePopSeq
<1> QED  BY <1>1, <1>2, <1>3, CalmStep DEF PopLabels, InPop

-----------------------------------------------------------------------------
(* Steps on the free list. *)
LEMMA FreeListHere ==
  ASSUME Typed, NEW t \in Threads, FreeListStep(t), Thread(t)
  PROVE  /\ Others(t)
         /\ UNCHANGED <<elem, head, tail, heap, pc, loc, pushed, pops, out, returned>>
         /\ emptied' = {u \in Threads : pc'[u] \in InPop /\ (u \in emptied \/ Empty')}
         /\ seen[t] \in [node : Nodes \cup {Null}, word : 0 .. Half * Half - 1]
         /\ step \in [Threads -> {"ready"} \cup PopSteps \cup PushSteps]
         /\ mine \in [Threads -> Nodes \cup {Null}]
         /\ seen \in [Threads -> [node : Nodes \cup {Null}, word : 0 .. Half * Half - 1]]
         /\ nxt \in [Threads -> Pointers] /\ next \in [Nodes -> Pointers]
  BY OneThread DEF FreeListStep, Thread, historyVars, Typed, TypeOK, Free!LTypeOK, PopSteps, PushSteps

LEMMA AllSidesKept ==
  ASSUME Typed, NEW own, NEW pos, NEW rank, NEW s, NEW q, Shape(own, pos, rank, s, q),
         Advances, NEW u \in Threads, pc'[u] = pc[u], loc'[u] = loc[u],
         emptied' = {v \in Threads : pc'[v] \in InPop /\ (v \in emptied \/ Empty')}
  PROVE  HeadSide(u)' /\ TailSide(u)' /\ Told(u)'
<1>1. /\ HeadSide(u) /\ TailSide(u) /\ Told(u) /\ head \in Link /\ tail \in Link
      /\ next[head.node] \in Nodes \cup {End} /\ next[tail.node] \in Nodes \cup {End}
  BY Here
<1>2. loc \in [Threads -> Locals] /\ (head' = head \/ head'.seq = head.seq + 1)
  BY DEF Typed, TypeOK, Advances
<1>3. HeadSide(u)' /\ TailSide(u)'
  BY <1>1, <1>2, SidesKept
<1>4. Told(u)'
  BY <1>1, <1>2, ToldKept
<1> QED  BY <1>3, <1>4

LEMMA FreeListReads ==
  ASSUME Typed, NEW own, NEW pos, NEW rank, NEW s, NEW q, Shape(own, pos, rank, s, q),
         NEW t \in Threads, Thread(t), FreeListStep(t),
         UNCHANGED <<next, top, mine>>,
         step[t] # "ready", step'[t] = "ready" => mine[t] = Null,
         FreeSide(t, q, s)'
  PROVE  Shape(own, pos, rank, s, q)'
<1>1. /\ Others(t) /\ elem' = elem /\ head' = head /\ tail' = tail /\ heap' = heap /\ pc' = pc /\ loc' = loc
      /\ pushed' = pushed /\ pops' = pops /\ out' = out /\ returned' = returned
      /\ next' = next /\ top' = top /\ mine' = mine
      /\ emptied' = {u \in Threads : pc'[u] \in InPop /\ (u \in emptied \/ Empty')}
  BY FreeListHere
<1>2. /\ Queue(own, pos, rank) /\ Stacked(s) /\ Apart(own, s) /\ Counted(q, s)
      /\ ElementsOnce(own) /\ NothingLost(own)
      /\ \A u \in Threads : FreeSide(u, q, s)
  BY DEF Shape
<1>3. Queue(own, pos, rank)'
  BY <1>1, <1>2 DEF Queue, Prepares
<1>4. Stacked(s)'
  BY <1>1, <1>2, StackedKept
<1>5. Apart(own, s)'
  <2>1. Held(t)' \in {Held(t), Null} /\ (Prepares(t) => Prepares(t)')
    BY <1>1 DEF Held, Prepares
  <2> QED  BY <1>1, <1>2, <2>1, ApartKept
<1>6. Counted(q, s)'
  <2>1. t \in Active' => t \in Active
    BY <1>1 DEF Active
  <2> QED  BY <1>1, <1>2, <2>1, CountedKept
<1>7. \A u \in Threads : HeadSide(u)' /\ TailSide(u)' /\ Told(u)'
  BY <1>1, AllSidesKept DEF Advances
<1>8. \A u \in Threads : FreeSide(u, q, s)'
  <2> SUFFICES ASSUME NEW u \in Threads, u # t  PROVE FreeSide(u, q, s)'
    OBVIOUS
  <2> QED  BY <1>1, <1>2, FreeSideKept DEF Others
<1>9. ElementsOnce(own)'
  BY <1>1, <1>2, ElementsOnceKept DEF Coming
<1>10. NothingLost(own)'
  BY <1>1, <1>2, NothingLostKept DEF Prepares
<1> QED  BY <1>3, <1>4, <1>5, <1>6, <1>7, <1>8, <1>9, <1>10 DEF Shape

LEMMA ReadNodeStep ==
  ASSUME Typed, NEW own, NEW pos, NEW rank, NEW s, NEW q, Shape(own, pos, rank, s, q),
         NEW t \in Threads, Thread(t), FreeListStep(t), Free!ReadNode(t)
  PROVE  Shape(own, pos, rank, s, q)'
<1>1. FreeSide(t, q, s)
  BY Here
<1>2. UNCHANGED <<next, top, mine>> /\ step[t] # "ready" /\ pc' = pc
  BY FreeListHere DEF Free!ReadNode
<1>3. \/ step[t] = "push" /\ step'[t] = "pushWord"
      \/ step[t] = "pop" /\ step'[t] = "popWord"
  <2>1. \/ step[t] = "push" /\ step' = [step EXCEPT ![t] = "pushWord"]
        \/ step[t] = "pop" /\ step' = [step EXCEPT ![t] = "popWord"]
    BY DEF Free!ReadNode, Free!Goto
  <2>2. step \in [Threads -> {"ready"} \cup PopSteps \cup PushSteps]
    BY FreeListHere
  <2> QED  BY <2>1, <2>2
<1>4. FreeSide(t, q, s)'
  BY <1>1, <1>2, <1>3 DEF FreeSide, PushSteps, PopSteps
<1> QED  BY <1>2, <1>3, <1>4, FreeListReads

LEMMA ReadWordStep ==
  ASSUME Typed, MaxPop < Half, NEW own, NEW pos, NEW rank, NEW s, NEW q, Shape(own, pos, rank, s, q),
         NEW t \in Threads, Thread(t), FreeListStep(t), Free!ReadWord(t)
  PROVE  Shape(own, pos, rank, s, q)'
<1>1. FreeSide(t, q, s) /\ Counted(q, s) /\ Stacked(s)
  BY Here
<1>2. UNCHANGED <<next, top, mine>> /\ step[t] # "ready" /\ pc' = pc
  BY FreeListHere DEF Free!ReadWord
<1>3. \/ step[t] = "pushWord" /\ step'[t] = "pushLink"
      \/ /\ step[t] = "popWord" /\ step'[t] = "popNext"
         /\ seen'[t].node = seen[t].node /\ seen[t].node \in Nodes /\ seen'[t].word = top.word
      \/ step[t] = "popWord" /\ step'[t] = "ready"
  BY FreeListHere DEF Free!ReadWord, Free!Goto
<1>4. Older(top.word, q, Len(s))
  <2>1. q \in Nat /\ Len(s) \in Nat /\ Len(s) <= q /\ top.word = Word(q, Len(s))
    BY <1>1 DEF Counted, Stacked
  <2>2. q <= MaxPop
    <3>1. IsFiniteSet(Active) /\ q + Cardinality(Active) <= pops /\ pops \in 0 .. MaxPop
      BY <1>1 DEF Counted, Typed
    <3>2. Cardinality(Active) \in Nat
      BY <3>1, FS_CardinalityType
    <3> QED  BY <2>1, <3>1, <3>2, ConstantsApart
  <2>3. Len(s) < Half
    BY <2>1, <2>2, ConstantsApart
  <2> QED  BY <2>1, <2>3, OlderNow
<1>5. FreeSide(t, q, s)'
  BY <1>1, <1>2, <1>3, <1>4 DEF FreeSide, PushSteps, PopSteps
<1>6. step'[t] = "ready" => mine[t] = Null
  BY <1>1, <1>3 DEF FreeSide, PopSteps
<1> QED  BY <1>2, <1>5, <1>6, FreeListReads

LEMMA PopNextStep ==
  ASSUME Typed, NEW own, NEW pos, NEW rank, NEW s, NEW q, Shape(own, pos, rank, s, q),
         NEW t \in Threads, Thread(t), FreeListStep(t), Free!PopNext(t)
  PROVE  Shape(own, pos, rank, s, q)'
<1>1. FreeSide(t, q, s)
  BY Here
<1>2. UNCHANGED <<next, top, mine, seen>> /\ step[t] # "ready" /\ pc' = pc
  BY FreeListHere DEF Free!PopNext
<1>3. step[t] = "popNext" /\ step'[t] = "popSwap" /\ nxt'[t] = next[seen[t].node]
  BY FreeListHere DEF Free!PopNext, Free!Goto
<1>4. FreeSide(t, q, s)'
  BY <1>1, <1>2, <1>3 DEF FreeSide, PushSteps, PopSteps
<1> QED  BY <1>2, <1>3, <1>4, FreeListReads

LEMMA SwapFails ==
  ASSUME Typed, NEW own, NEW pos, NEW rank, NEW s, NEW q, Shape(own, pos, rank, s, q),
         NEW t \in Threads, Thread(t), FreeListStep(t),
         Free!PushSwap(t) \/ Free!PopSwap(t), top # seen[t]
  PROVE  Shape(own, pos, rank, s, q)'
<1>1. FreeSide(t, q, s)
  BY Here
<1>2. UNCHANGED <<next, top, mine>> /\ step[t] # "ready" /\ pc' = pc
  BY FreeListHere DEF Free!PushSwap, Free!PopSwap
<1>3. \/ step[t] = "pushSwap" /\ step'[t] = "push"
      \/ step[t] = "popSwap" /\ step'[t] = "pop"
  <2>1. \/ step[t] = "pushSwap" /\ step' = [step EXCEPT ![t] = "push"]
        \/ step[t] = "popSwap" /\ step' = [step EXCEPT ![t] = "pop"]
    BY DEF Free!PushSwap, Free!PopSwap, Free!Goto
  <2>2. step \in [Threads -> {"ready"} \cup PopSteps \cup PushSteps]
    BY FreeListHere
  <2> QED  BY <2>1, <2>2
<1>4. FreeSide(t, q, s)'
  BY <1>1, <1>2, <1>3 DEF FreeSide, PushSteps, PopSteps
<1> QED  BY <1>2, <1>3, <1>4, FreeListReads

(* Words are known as long as the two halves do not overflow. *)
LEMMA Bounded ==
  ASSUME Typed, NEW s, NEW q, Stacked(s), Counted(q, s)
  PROVE  /\ q \in Nat /\ Len(s) \in Nat /\ Len(s) <= q /\ q <= pops /\ pops <= MaxPop /\ pops \in Nat
         /\ \A t \in Active : q + 1 <= pops
<1>1. /\ IsFiniteSet(Active) /\ q + Cardinality(Active) <= pops /\ pops \in 0 .. MaxPop
      /\ q \in Nat /\ Len(s) \in Nat /\ Len(s) <= q
  BY DEF Counted, Typed, Stacked
<1>2. Cardinality(Active) \in Nat /\ MaxPop \in Nat
  BY <1>1, FS_CardinalityType, ConstantsApart
<1>3. ASSUME NEW t \in Active  PROVE Cardinality(Active) # 0
  BY <1>1, <1>3, FS_EmptySet
<1> QED  BY <1>1, <1>2, <1>3

(* The rest of the invariant when a step of the free list has moved its    *)
(* top.                                                                    *)
LEMMA TopMoves ==
  ASSUME Typed, NEW own, NEW pos, NEW rank, NEW s, NEW q, Shape(own, pos, rank, s, q),
         NEW t \in Threads, Thread(t), FreeListStep(t), next' = next,
         NEW s2, NEW q2, Stacked(s2)', Apart(own, s2)', Counted(q2, s2)',
         \A u \in Threads : FreeSide(u, q2, s2)'
  PROVE  Shape(own, pos, rank, s2, q2)'
<1>1. /\ Others(t) /\ elem' = elem /\ head' = head /\ tail' = tail /\ heap' = heap /\ pc' = pc /\ loc' = loc
      /\ pushed' = pushed /\ pops' = pops /\ out' = out /\ returned' = returned
      /\ emptied' = {u \in Threads : pc'[u] \in InPop /\ (u \in emptied \/ Empty')}
  BY FreeListHere
<1>2. Queue(own, pos, rank) /\ ElementsOnce(own) /\ NothingLost(own)
  BY DEF Shape
<1>3. Queue(own, pos, rank)'
  BY <1>1, <1>2 DEF Queue, Prepares
<1>4. \A u \in Threads : HeadSide(u)' /\ TailSide(u)' /\ Told(u)'
  BY <1>1, AllSidesKept DEF Advances
<1>5. ElementsOnce(own)'
  BY <1>1, <1>2, ElementsOnceKept DEF Coming
<1>6. NothingLost(own)'
  BY <1>1, <1>2, NothingLostKept DEF Prepares
<1> QED  BY <1>3, <1>4, <1>5, <1>6 DEF Shape

LEMMA PushSwapDone ==
  ASSUME Typed, MaxPop < Half, NEW own, NEW pos, NEW rank, NEW s, NEW q, Shape(own, pos, rank, s, q),
         NEW t \in Threads, Thread(t), FreeListStep(t), Free!PushSwap(t), top = seen[t]
  PROVE  \E s2 : s2 = <<mine[t]>> \o s /\ Shape(own, pos, rank, s2, q + 1)'
<1>1. /\ FreeSide(t, q, s) /\ Counted(q, s) /\ Stacked(s) /\ Apart(own, s)
  BY Here
<1>2. /\ Others(t) /\ heap' = heap /\ pc' = pc /\ loc' = loc /\ pops' = pops
      /\ step \in [Threads -> {"ready"} \cup PopSteps \cup PushSteps]
  BY FreeListHere
<1>3. /\ step[t] = "pushSwap" /\ step' = [step EXCEPT ![t] = "ready"] /\ mine' = mine /\ next' = next
      /\ top' = [node |-> mine[t], word |-> Free!Pushed(top.word)]
  BY DEF Free!PushSwap, Free!Goto
<1>4. step'[t] = "ready"
  BY <1>2, <1>3
<1>0. PICK x : x = mine[t]
  OBVIOUS
<1> DEFINE n == Len(s)
           s2 == <<x>> \o s
<1>5. /\ pc[t] = "freeNode" /\ x \in Nodes /\ next[x] = top.node
  BY <1>0, <1>1, <1>3 DEF FreeSide, PushSteps
<1>6. Held(t) = x /\ x # Null /\ Held(t)' = Null /\ ~Prepares(t)
  BY <1>0, <1>2, <1>3, <1>4, <1>5, ConstantsApart DEF Held, Prepares, PrepareLabels
<1>7. /\ s \in Seq(Nodes) /\ n \in Nat /\ s2 \in Seq(Nodes) /\ Len(s2) = n + 1 /\ s2[1] = x
      /\ \A i \in 1 .. n : s[i] \in Nodes /\ s2[i + 1] = s[i]
  BY <1>1, <1>5 DEF Stacked
<1>8. /\ \A i \in 1 .. n : s[i] # x
      /\ own[x] = Null /\ x \notin heap
      /\ \A u \in Threads \ {t} : Held(u) # x
  BY <1>1, <1>6 DEF Apart
<1> HIDE DEF n, s2
<1>9. \A i \in 1 .. n + 1 : (i = 1 /\ s2[i] = x) \/ (i - 1 \in 1 .. n /\ s2[i] = s[i - 1])
  <2> SUFFICES ASSUME NEW i \in 1 .. n + 1, i # 1  PROVE i - 1 \in 1 .. n /\ s2[i] = s[i - 1]
    BY <1>7
  <2>1. i - 1 \in 1 .. n /\ (i - 1) + 1 = i
    BY <1>7
  <2> QED  BY <1>7, <2>1
<1>10. Stacked(s2)'
  <2>1. \A i, j \in 1 .. n + 1 : s2[i] = s2[j] => i = j
    <3> SUFFICES ASSUME NEW i \in 1 .. n + 1, NEW j \in 1 .. n + 1, s2[i] = s2[j]  PROVE i = j
      OBVIOUS
    <3>1. i = 1 <=> j = 1
      BY <1>8, <1>9
    <3>2. ASSUME i # 1, j # 1  PROVE i = j
      <4>1. i - 1 \in 1 .. n /\ j - 1 \in 1 .. n /\ s[i - 1] = s[j - 1]
        BY <1>9, <3>2
      <4>2. \A k, l \in 1 .. n : s[k] = s[l] => k = l
        BY <1>1 DEF Stacked, n
      <4>3. i - 1 = j - 1
        BY <4>1, <4>2
      <4> QED  BY <4>3
    <3> QED  BY <1>7, <3>1, <3>2
  <2>2. top'.node = x
    BY <1>0, <1>3
  <2>3. \A i \in 1 .. n + 1 : next[s2[i]] = IF i = n + 1 THEN Null ELSE s2[i + 1]
    <3> SUFFICES ASSUME NEW i \in 1 .. n + 1
                 PROVE  next[s2[i]] = IF i = n + 1 THEN Null ELSE s2[i + 1]
      OBVIOUS
    <3>1. CASE i = 1
      <4>1. next[s2[i]] = IF n = 0 THEN Null ELSE s[1]
        BY <1>1, <1>5, <1>7, <3>1 DEF Stacked, n
      <4>2. n # 0 => 1 \in 1 .. n /\ s2[1 + 1] = s[1]
        BY <1>7
      <4> QED  BY <1>7, <3>1, <4>1, <4>2
    <3>2. CASE i # 1
      <4>1. i - 1 \in 1 .. n /\ s2[i] = s[i - 1]
        BY <1>9, <3>2
      <4>2. next[s[i - 1]] = IF i - 1 = n THEN Null ELSE s[(i - 1) + 1]
        BY <1>1, <4>1 DEF Stacked, n
      <4>3. i # n + 1 => i \in 1 .. n /\ s2[i + 1] = s[i]
        BY <1>7
      <4> QED  BY <1>7, <4>1, <4>2, <4>3
    <3> QED  BY <3>1, <3>2
  <2> QED  BY <1>3, <1>7, <2>1, <2>2, <2>3 DEF Stacked
<1>11. Apart(own, s2)'
  <2>1. \A u \in Threads \ {t} : Held(u)' = Held(u) /\ (Prepares(u)' <=> Prepares(u))
    BY <1>2, HeldByOthers
  <2>2. \A i \in 1 .. Len(s2) : own[s2[i]] = Null /\ s2[i] \notin heap
    <3>1. \A i \in 1 .. n : own[s[i]] = Null /\ s[i] \notin heap
      BY <1>1 DEF Apart, n
    <3> SUFFICES ASSUME NEW i \in 1 .. n + 1  PROVE own[s2[i]] = Null /\ s2[i] \notin heap
      BY <1>7
    <3>2. CASE i = 1
      BY <1>7, <1>8, <3>2
    <3>3. CASE i # 1
      <4>1. i - 1 \in 1 .. n /\ s2[i] = s[i - 1]
        BY <1>9, <3>3
      <4>2. own[s[i - 1]] = Null /\ s[i - 1] \notin heap
        BY <3>1, <4>1
      <4> QED  BY <4>1, <4>2
    <3> QED  BY <3>2, <3>3
  <2>3. ASSUME NEW u \in Threads, Held(u)' # Null
        PROVE  /\ Held(u)' \in Nodes /\ Held(u)' \notin heap
               /\ \A i \in 1 .. Len(s2) : s2[i] # Held(u)'
               /\ Prepares(u)' \/ own[Held(u)'] = Null
    <3>1. u # t /\ Held(u)' = Held(u) /\ (Prepares(u)' <=> Prepares(u))
      BY <1>6, <2>1, <2>3
    <3>2. \A i \in 1 .. n : s[i] # Held(u)
      BY <1>1, <2>3, <3>1 DEF Apart, n
    <3>3. \A i \in 1 .. Len(s2) : s2[i] # Held(u)
      BY <1>7, <1>8, <1>9, <3>1, <3>2
    <3> QED  BY <1>1, <2>3, <3>1, <3>3 DEF Apart
  <2>4. \A u, v \in Threads : Held(u)' = Held(v)' /\ Held(u)' # Null => u = v
    BY <1>1, <1>6, <2>1 DEF Apart
  <2>5. \A k \in heap : own[k] = Null
    BY <1>1 DEF Apart
  <2> QED  BY <1>2, <2>2, <2>3, <2>4, <2>5 DEF Apart
<1>12. t \in Active /\ Active' = Active \ {t}
  <2>1. t \in Active /\ t \notin Active'
    BY <1>2, <1>3, <1>4, <1>5 DEF Active, PopLabels, InPop
  <2>2. \A u \in Threads \ {t} : u \in Active' <=> u \in Active
    BY <1>2 DEF Others, Active
  <2> QED  BY <2>1, <2>2 DEF Active
<1>13. q \in Nat /\ n <= q /\ q + 1 <= pops /\ pops <= MaxPop /\ q + 1 < Half /\ top.word = Word(q, n) /\ pops \in Nat
  <2>1. q \in Nat /\ n \in Nat /\ n <= q /\ pops <= MaxPop /\ q + 1 <= pops /\ pops \in Nat
    BY <1>1, <1>12, Bounded DEF n
  <2>2. q + 1 < Half
    BY <2>1, ConstantsApart
  <2> QED  BY <1>1, <2>1, <2>2 DEF Counted, n
<1>14. top'.word = Word(q + 1, n + 1) /\ n + 1 < Half
  <2>1. Free!Pushed(Word(q, n)) = Word(q + 1, n + 1) /\ n + 1 < Half
    BY <1>7, <1>13, WordPushed
  <2> QED  BY <1>3, <1>13, <2>1
<1>15. Counted(q + 1, s2)'
  <2>1. IsFiniteSet(Active) /\ q + Cardinality(Active) <= pops
    BY <1>1 DEF Counted
  <2>2. IsFiniteSet(Active') /\ Cardinality(Active') = Cardinality(Active) - 1 /\ Cardinality(Active) \in Nat
    BY <1>12, <2>1, FS_RemoveElement, FS_CardinalityType
  <2>3. (q + 1) + Cardinality(Active') <= pops
    BY <1>13, <2>1, <2>2
  <2>4. q + 1 \in Nat /\ n + 1 <= q + 1
    BY <1>7, <1>13
  <2> QED  BY <1>2, <1>7, <1>14, <2>2, <2>3, <2>4 DEF Counted
<1>16. \A u \in Threads : FreeSide(u, q + 1, s2)'
  <2> SUFFICES ASSUME NEW u \in Threads  PROVE FreeSide(u, q + 1, s2)'
    OBVIOUS
  <2>1. CASE u = t
    BY <1>4, <2>1 DEF FreeSide, PopSteps, PushSteps
  <2>2. CASE u # t
    <3>1. FreeSide(u, q, s) /\ pc'[u] = pc[u] /\ step'[u] = step[u] /\ mine'[u] = mine[u]
          /\ seen'[u] = seen[u] /\ nxt'[u] = nxt[u]
      BY <1>2, <2>2 DEF Shape, Others
    <3>2. step[u] \in {"popNext", "popSwap"} => Older(seen[u].word, q + 1, n + 1) /\ top' # seen[u]
      <4>1. step[u] \in {"popNext", "popSwap"} => Older(seen[u].word, q, n)
        BY <3>1 DEF FreeSide, n
      <4>2. Older(seen[u].word, q, n) => Older(seen[u].word, q + 1, n + 1) /\ seen[u].word # Word(q + 1, n + 1)
        BY <1>7, <1>13, <1>14, OlderPushed
      <4> QED  BY <1>14, <4>1, <4>2
    <3> QED  BY <1>3, <1>7, <3>1, <3>2 DEF FreeSide, PopSteps, PushSteps
  <2> QED  BY <2>1, <2>2
<1>17. Shape(own, pos, rank, s2, q + 1)'
  BY <1>3, <1>10, <1>11, <1>15, <1>16, TopMoves
<1> QED  BY <1>0, <1>17 DEF s2

LEMMA PopSwapDone ==
  ASSUME Typed, MaxPop < Half, NEW own, NEW pos, NEW rank, NEW s, NEW q, Shape(own, pos, rank, s, q),
         NEW t \in Threads, Thread(t), FreeListStep(t), Free!PopSwap(t), top = seen[t]
  PROVE  /\ Len(s) # 0 /\ mine'[t] = s[1]
         /\ Shape(own, pos, rank, Tail(s), q)'
<1>1. /\ FreeSide(t, q, s) /\ Counted(q, s) /\ Stacked(s) /\ Apart(own, s)
  BY Here
<1>2. /\ Others(t) /\ heap' = heap /\ pc' = pc /\ loc' = loc /\ pops' = pops
      /\ step \in [Threads -> {"ready"} \cup PopSteps \cup PushSteps]
      /\ mine \in [Threads -> Nodes \cup {Null}]
  BY FreeListHere
<1>3. /\ step[t] = "popSwap" /\ step' = [step EXCEPT ![t] = "ready"]
      /\ mine' = [mine EXCEPT ![t] = top.node] /\ next' = next
      /\ top' = [node |-> nxt[t], word |-> Free!Popped(top.word)]
  BY DEF Free!PopSwap, Free!Goto
<1> DEFINE n == Len(s)
           s2 == Tail(s)
<1>4. /\ step'[t] = "ready" /\ mine'[t] = top.node
      /\ pc[t] = "getNode" /\ top.node \in Nodes /\ nxt[t] = next[top.node]
  BY <1>1, <1>2, <1>3 DEF FreeSide, PopSteps
<1>5. /\ n \in Nat /\ n # 0 /\ s \in Seq(Nodes) /\ top.node = s[1]
  BY <1>1, <1>4, ConstantsApart DEF Stacked
<1>6. /\ s2 \in Seq(Nodes) /\ Len(s2) = n - 1
      /\ \A i \in 1 .. n - 1 : s2[i] = s[i + 1] /\ i + 1 \in 1 .. n
  BY <1>5
<1> HIDE DEF n, s2
<1>7. Held(t) = Null /\ Held(t)' = s[1] /\ ~Prepares(t) /\ s[1] # Null
  BY <1>2, <1>3, <1>4, <1>5, ConstantsApart DEF Held, Prepares, PrepareLabels
<1>8. \A i \in 1 .. n - 1 : s2[i] # s[1]
  <2> SUFFICES ASSUME NEW i \in 1 .. n - 1, s[i + 1] = s[1]  PROVE FALSE
    BY <1>6
  <2>1. i + 1 \in 1 .. n /\ 1 \in 1 .. n /\ i + 1 # 1
    BY <1>5
  <2> QED  BY <1>1, <2>1 DEF Stacked, n
<1>9. Stacked(s2)'
  <2>1. \A i, j \in 1 .. n - 1 : s2[i] = s2[j] => i = j
    <3> SUFFICES ASSUME NEW i \in 1 .. n - 1, NEW j \in 1 .. n - 1, s2[i] = s2[j]  PROVE i = j
      OBVIOUS
    <3>1. i + 1 \in 1 .. n /\ j + 1 \in 1 .. n /\ s[i + 1] = s[j + 1]
      BY <1>6
    <3>2. \A k, l \in 1 .. n : s[k] = s[l] => k = l
      BY <1>1 DEF Stacked, n
    <3>3. i + 1 = j + 1
      BY <3>1, <3>2
    <3> QED  BY <3>3
  <2>2. nxt[t] = IF n = 1 THEN Null ELSE s[2]
    <3>1. 1 \in 1 .. n /\ \A i \in 1 .. n : next[s[i]] = IF i = n THEN Null ELSE s[i + 1]
      BY <1>1, <1>5 DEF Stacked, n
    <3> QED  BY <1>4, <1>5, <3>1
  <2>3. top'.node = IF n - 1 = 0 THEN Null ELSE s2[1]
    <3>1. n # 1 => 1 \in 1 .. n - 1 /\ s2[1] = s[2]
      BY <1>5, <1>6
    <3> QED  BY <1>3, <1>5, <2>2, <3>1
  <2>4. \A i \in 1 .. n - 1 : next[s2[i]] = IF i = n - 1 THEN Null ELSE s2[i + 1]
    <3> SUFFICES ASSUME NEW i \in 1 .. n - 1
                 PROVE  next[s2[i]] = IF i = n - 1 THEN Null ELSE s2[i + 1]
      OBVIOUS
    <3>1. s2[i] = s[i + 1] /\ i + 1 \in 1 .. n
      BY <1>6
    <3>2. next[s[i + 1]] = IF i + 1 = n THEN Null ELSE s[(i + 1) + 1]
      BY <1>1, <3>1 DEF Stacked, n
    <3>3. i # n - 1 => i + 1 \in 1 .. n - 1 /\ s2[i + 1] = s[(i + 1) + 1]
      BY <1>5, <1>6
    <3> QED  BY <1>5, <3>1, <3>2, <3>3
  <2> QED  BY <1>3, <1>6, <2>1, <2>3, <2>4 DEF Stacked
<1>10. Apart(own, s2)'
  <2>1. \A u \in Threads \ {t} : Held(u)' = Held(u) /\ (Prepares(u)' <=> Prepares(u))
    BY <1>2, HeldByOthers
  <2>2. \A i \in 1 .. n : own[s[i]] = Null /\ s[i] \notin heap
    BY <1>1 DEF Apart, n
  <2>3. \A i \in 1 .. n - 1 : own[s2[i]] = Null /\ s2[i] \notin heap
    BY <1>6, <2>2
  <2>4. own[s[1]] = Null /\ s[1] \notin heap /\ s[1] \in Nodes
    BY <1>4, <1>5, <2>2
  <2>5. ASSUME NEW u \in Threads \ {t}, Held(u) # Null
        PROVE  /\ Held(u) \in Nodes /\ Held(u) \notin heap /\ Held(u) # s[1]
               /\ \A i \in 1 .. n - 1 : s2[i] # Held(u)
               /\ Prepares(u) \/ own[Held(u)] = Null
    <3>1. /\ Held(u) \in Nodes /\ Held(u) \notin heap /\ (Prepares(u) \/ own[Held(u)] = Null)
          /\ \A i \in 1 .. n : s[i] # Held(u)
      BY <1>1, <2>5 DEF Apart, n
    <3>2. 1 \in 1 .. n
      BY <1>5
    <3> QED  BY <1>6, <3>1, <3>2
  <2>6. \A u \in Threads : Held(u)' # Null =>
          /\ Held(u)' \in Nodes /\ Held(u)' \notin heap'
          /\ \A i \in 1 .. Len(s2) : s2[i] # Held(u)'
          /\ Prepares(u)' \/ own[Held(u)'] = Null
    BY <1>2, <1>6, <1>7, <1>8, <2>1, <2>4, <2>5
  <2>7. \A u, v \in Threads : Held(u)' = Held(v)' /\ Held(u)' # Null => u = v
    BY <1>1, <1>7, <2>1, <2>5 DEF Apart
  <2>8. \A k \in heap : own[k] = Null
    BY <1>1 DEF Apart
  <2> QED  BY <1>2, <1>6, <2>3, <2>6, <2>7, <2>8 DEF Apart
<1>11. q \in Nat /\ n <= q /\ q < Half /\ top.word = Word(q, n)
  <2>1. q \in Nat /\ n <= q /\ q <= pops /\ pops <= MaxPop /\ pops \in Nat
    BY <1>1, Bounded DEF n
  <2>2. q < Half
    BY <2>1, ConstantsApart
  <2> QED  BY <1>1, <2>1, <2>2 DEF Counted, n
<1>12. top'.word = Word(q, n - 1)
  <2>1. Free!Popped(Word(q, n)) = Word(q, n - 1)
    BY <1>5, <1>11, WordPopped
  <2> QED  BY <1>3, <1>11, <2>1
<1>13. Active' = Active
  <2>1. t \notin Active /\ t \notin Active'
    BY <1>2, <1>4 DEF Active, PopLabels, InPop
  <2>2. \A u \in Threads \ {t} : u \in Active' <=> u \in Active
    BY <1>2 DEF Others, Active
  <2> QED  BY <2>1, <2>2 DEF Active
<1>14. Counted(q, s2)'
  <2>1. n - 1 <= q
    BY <1>5, <1>11
  <2> QED  BY <1>1, <1>2, <1>6, <1>12, <1>13, <2>1 DEF Counted
<1>15. \A u \in Threads : FreeSide(u, q, s2)'
  <2> SUFFICES ASSUME NEW u \in Threads  PROVE FreeSide(u, q, s2)'
    OBVIOUS
  <2>1. CASE u = t
    BY <1>4, <2>1 DEF FreeSide, PopSteps, PushSteps
  <2>2. CASE u # t
    <3>1. FreeSide(u, q, s) /\ pc'[u] = pc[u] /\ step'[u] = step[u] /\ mine'[u] = mine[u]
          /\ seen'[u] = seen[u] /\ nxt'[u] = nxt[u]
      BY <1>2, <2>2 DEF Shape, Others
    <3>2. step[u] \in {"popNext", "popSwap"} => Older(seen[u].word, q, n - 1) /\ top' # seen[u]
      <4>1. step[u] \in {"popNext", "popSwap"} => Older(seen[u].word, q, n)
        BY <3>1 DEF FreeSide, n
      <4>2. n < Half
        BY <1>5, <1>11, ConstantsApart
      <4>3. Older(seen[u].word, q, n) => Older(seen[u].word, q, n - 1) /\ seen[u].word # Word(q, n - 1)
        BY <1>5, <1>11, <4>2, OlderPopped
      <4> QED  BY <1>12, <4>1, <4>3
    <3> QED  BY <1>3, <1>6, <3>1, <3>2 DEF FreeSide, PopSteps, PushSteps
  <2> QED  BY <2>1, <2>2
<1>16. Shape(own, pos, rank, s2, q)'
  BY <1>3, <1>9, <1>10, <1>14, <1>15, TopMoves
<1> QED  BY <1>4, <1>5, <1>16 DEF s2, n

LEMMA PushLinkStep ==
  ASSUME Typed, NEW own, NEW pos, NEW rank, NEW s, NEW q, Shape(own, pos, rank, s, q),
         NEW t \in Threads, Thread(t), FreeListStep(t), Free!PushLink(t)
  PROVE  Shape(own, pos, rank, s, q)'
<1>1. /\ Queue(own, pos, rank) /\ Stacked(s) /\ Apart(own, s) /\ Counted(q, s)
      /\ ElementsOnce(own) /\ NothingLost(own) /\ FreeSide(t, q, s)
      /\ tail \in Link
  BY Here
<1>2. /\ Others(t) /\ elem' = elem /\ head' = head /\ tail' = tail /\ heap' = heap /\ pc' = pc /\ loc' = loc
      /\ pushed' = pushed /\ pops' = pops /\ out' = out /\ returned' = returned
      /\ emptied' = {u \in Threads : pc'[u] \in InPop /\ (u \in emptied \/ Empty')}
      /\ step \in [Threads -> {"ready"} \cup PopSteps \cup PushSteps]
      /\ next \in [Nodes -> Pointers] /\ seen[t].node \in Nodes \cup {Null}
  BY FreeListHere
<1>0. PICK x, v : x = mine[t] /\ v = seen[t].node
  OBVIOUS
<1>3. /\ step[t] = "pushLink" /\ step' = [step EXCEPT ![t] = "pushSwap"]
      /\ next' = [next EXCEPT ![x] = v] /\ top' = top /\ mine' = mine /\ seen' = seen
  BY <1>0 DEF Free!PushLink, Free!Goto, Free!locals
<1>4. step'[t] = "pushSwap" /\ pc[t] = "freeNode" /\ x \in Nodes /\ v \in Nodes \cup {Null}
  BY <1>0, <1>1, <1>2, <1>3 DEF FreeSide, PushSteps
<1>5. next'[x] = v /\ \A n \in Nodes : n # x => next'[n] = next[n]
  BY <1>2, <1>3, <1>4 DEF Pointers
<1>6. Held(t) = x /\ x # Null /\ Held(t)' = x /\ ~Prepares(t) /\ ~Prepares(t)'
  BY <1>0, <1>2, <1>3, <1>4, ConstantsApart DEF Held, Prepares, PrepareLabels
<1>7. own[x] = Null /\ (\A i \in 1 .. Len(s) : s[i] # x) /\ \A u \in Threads \ {t} : Held(u) # x
  BY <1>1, <1>6 DEF Apart
<1>8. /\ head.node \in Nodes /\ tail.node \in Nodes /\ own[head.node] = End /\ own[tail.node] = End
      /\ next[head.node] \in Nodes \cup {End} /\ Null # End
  BY <1>1, Ends, ConstantsApart
<1>9. Queue(own, pos, rank)'
  <2>1. Forest(next', own, pos, head.node')
    BY <1>1, <1>2, <1>3, <1>4, <1>7, OutsideWritten DEF Queue
  <2> QED  BY <1>1, <1>2, <1>4, <1>8, <2>1, QueueKept DEF Prepares
<1>10. Stacked(s)'
  <2>1. \A i \in 1 .. Len(s) : s[i] \in Nodes
    BY <1>1 DEF Stacked
  <2>2. \A i \in 1 .. Len(s) : next'[s[i]] = next[s[i]]
    BY <1>5, <1>7, <2>1
  <2>3. top'.node = top.node
    BY <1>3
  <2> QED  BY <1>1, <2>2, <2>3, StackedKept
<1>11. Apart(own, s)'
  BY <1>1, <1>2, <1>6, ApartKept
<1>12. Counted(q, s)'
  <2>1. t \in Active' => t \in Active
    BY <1>2, <1>3 DEF Active
  <2> QED  BY <1>1, <1>2, <1>3, <2>1, CountedKept
<1>13. \A u \in Threads : HeadSide(u)' /\ TailSide(u)' /\ Told(u)'
  <2>1. next'[head.node] = next[head.node] /\ next'[tail.node] = next[tail.node]
    BY <1>5, <1>7, <1>8
  <2> QED  BY <1>2, <2>1, AllSidesKept DEF Advances
<1>14. \A u \in Threads : FreeSide(u, q, s)'
  <2> SUFFICES ASSUME NEW u \in Threads  PROVE FreeSide(u, q, s)'
    OBVIOUS
  <2>1. CASE u = t
    BY <1>0, <1>1, <1>2, <1>3, <1>4, <1>5, <2>1 DEF FreeSide, PopSteps, PushSteps
  <2>2. CASE u # t
    <3>1. FreeSide(u, q, s)
      BY DEF Shape
    <3>2. top.node \in Nodes => next'[top.node] = next[top.node]
      <4>1. top.node \in Nodes => 1 \in 1 .. Len(s) /\ top.node = s[1]
        BY <1>1, ConstantsApart DEF Stacked
      <4> QED  BY <1>5, <1>7, <4>1
    <3>3. step[u] = "pushSwap" => next'[mine[u]] = next[mine[u]]
      <4>1. step[u] = "pushSwap" => pc[u] = "freeNode" /\ mine[u] \in Nodes
        BY <3>1 DEF FreeSide, PushSteps
      <4>2. step[u] = "pushSwap" => Held(u) = mine[u]
        BY <4>1 DEF Held, Prepares, PrepareLabels
      <4> QED  BY <1>5, <1>7, <2>2, <4>1, <4>2
    <3> QED  BY <1>2, <1>3, <2>2, <3>1, <3>2, <3>3, FreeSideKept DEF Others
  <2> QED  BY <2>1, <2>2
<1>15. ElementsOnce(own)'
  BY <1>1, <1>2, ElementsOnceKept DEF Coming
<1>16. NothingLost(own)'
  BY <1>1, <1>2, NothingLostKept DEF Prepares
<1> QED  BY <1>9, <1>10, <1>11, <1>12, <1>13, <1>14, <1>15, <1>16 DEF Shape

(* The free list as every one of its steps leaves it. *)
LEMMA FreeListSteps ==
  ASSUME Typed, MaxPop < Half, NEW own, NEW pos, NEW rank, NEW s, NEW q, Shape(own, pos, rank, s, q),
         NEW t \in Threads, Thread(t), FreeListStep(t)
  PROVE  \E s2, q2 :
           /\ Shape(own, pos, rank, s2, q2)'
           /\ \/ s2 = s /\ mine' = mine
              \/ s2 = <<mine[t]>> \o s /\ mine' = mine
              \/ Len(s) # 0 /\ s2 = Tail(s) /\ mine' = [mine EXCEPT ![t] = s[1]]
<1>1. CASE Free!ReadNode(t)
  <2>1. mine' = mine
    BY <1>1 DEF Free!ReadNode
  <2> QED  BY <1>1, <2>1, ReadNodeStep
<1>2. CASE Free!ReadWord(t)
  <2>1. mine' = mine
    BY <1>2 DEF Free!ReadWord
  <2> QED  BY <1>2, <2>1, ReadWordStep
<1>3. CASE Free!PushLink(t)
  <2>1. mine' = mine
    BY <1>3 DEF Free!PushLink, Free!locals
  <2> QED  BY <1>3, <2>1, PushLinkStep
<1>4. CASE Free!PopNext(t)
  <2>1. mine' = mine
    BY <1>4 DEF Free!PopNext
  <2> QED  BY <1>4, <2>1, PopNextStep
<1>5. CASE (Free!PushSwap(t) \/ Free!PopSwap(t)) /\ top # seen[t]
  <2>1. mine' = mine
    BY <1>5 DEF Free!PushSwap, Free!PopSwap
  <2> QED  BY <1>5, <2>1, SwapFails
<1>6. CASE Free!PushSwap(t) /\ top = seen[t]
  <2>1. mine' = mine
    BY <1>6 DEF Free!PushSwap
  <2> QED  BY <1>6, <2>1, PushSwapDone
<1>7. CASE Free!PopSwap(t) /\ top = seen[t]
  <2>1. mine' = [mine EXCEPT ![t] = top.node]
    BY <1>7 DEF Free!PopSwap
  <2>2. Len(s) # 0 /\ Shape(own, pos, rank, Tail(s), q)'
    BY <1>7, PopSwapDone
  <2>3. top.node = s[1]
    BY <2>2 DEF Shape, Stacked
  <2> QED  BY <2>1, <2>2, <2>3
<1> QED  BY <1>1, <1>2, <1>3, <1>4, <1>5, <1>6, <1>7 DEF FreeListStep, Free!ListStep

-----------------------------------------------------------------------------
(* Steps that change the nodes. *)
LEMMA NodeWritten ==
  ASSUME NEW own, NEW s, NEW q, Stacked(s), Apart(own, s), NEW t \in Threads, Others(t),
         \A u \in Threads : FreeSide(u, q, s), NEW x \in Nodes,
         \A n \in Nodes : n # x => next'[n] = next[n],
         \A i \in 1 .. Len(s) : s[i] # x,
         \A u \in Threads \ {t} : step[u] = "pushSwap" => mine[u] # x,
         top' = top
  PROVE  Stacked(s)' /\ \A u \in Threads \ {t} : FreeSide(u, q, s)'
<1>1. \A i \in 1 .. Len(s) : next'[s[i]] = next[s[i]]
  BY DEF Stacked
<1>2. Stacked(s)'
  BY <1>1, StackedKept
<1>3. top.node \in Nodes => next'[top.node] = next[top.node]
  <2>1. top.node \in Nodes => 1 \in 1 .. Len(s) /\ top.node = s[1]
    BY ConstantsApart DEF Stacked
  <2> QED  BY <2>1
<1>4. ASSUME NEW u \in Threads \ {t}  PROVE FreeSide(u, q, s)'
  <2>1. step[u] = "pushSwap" => next'[mine[u]] = next[mine[u]]
    BY DEF FreeSide, PushSteps
  <2> QED  BY <1>3, <2>1, FreeSideKept DEF Others
<1> QED  BY <1>2, <1>4

LEMMA SwapperHolds ==
  ASSUME NEW u \in Threads, NEW q, NEW s, FreeSide(u, q, s), step[u] = "pushSwap"
  PROVE  Held(u) = mine[u] /\ mine[u] \in Nodes /\ ~Prepares(u)
  BY DEF FreeSide, PushSteps, Held, Prepares, PrepareLabels

LEMMA NotQueued ==
  ASSUME NEW own, NEW pos, NEW rank, Queue(own, pos, rank), tail \in Link, NEW x \in Nodes, own[x] = Null
  PROVE  /\ x # head.node /\ x # tail.node /\ ~Queued(own, x)
         /\ next[head.node] # End => x # next[head.node]
<1>1. own[head.node] = End /\ own[tail.node] = End /\ head.node \in Nodes /\ Null # End /\ Null \notin Nodes
  BY Ends, ConstantsApart
<1>2. Forest(next, own, pos, head.node)
  BY DEF Queue
<1>3. next[head.node] # End => own[next[head.node]] = End
  BY <1>1, <1>2, ForestNext
<1> QED  BY <1>1, <1>3 DEF Queued

LEMMA CountDownStep ==
  ASSUME Typed, NEW own, NEW pos, NEW rank, NEW s, NEW q, Shape(own, pos, rank, s, q),
         NEW t \in Threads, Thread(t), CountDown(t)
  PROVE  Shape(own, pos, rank, s, q)'
<1>1. /\ Queue(own, pos, rank) /\ Stacked(s) /\ Apart(own, s) /\ Counted(q, s)
      /\ ElementsOnce(own) /\ NothingLost(own) /\ tail \in Link
      /\ loc[t].old \in Link
  BY Here
<1>2. Others(t) /\ emptied' = {u \in Threads : pc'[u] \in InPop /\ (u \in emptied \/ Empty')}
  BY OneThread DEF Thread
<1>0. PICK x : x = loc[t].old.node
  OBVIOUS
<1>3. /\ pc[t] = "countDown" /\ pc'[t] = "freeNode" /\ step[t] = "ready" /\ step'[t] = "push" /\ mine'[t] = x
      /\ next' = next /\ top' = top /\ head' = head /\ tail' = tail /\ heap' = heap
      /\ pushed' = pushed /\ pops' = pops /\ out' = out /\ returned' = returned
      /\ elem' = [elem EXCEPT ![x] = loc[t].item]
  BY <1>0 DEF CountDown, Step, Free!CallPush, Free!Goto, historyVars, Typed, TypeOK, Free!LTypeOK
<1>4. x \in Nodes /\ x # Null
  BY <1>0, <1>1, ConstantsApart DEF Link
<1>5. \A n \in Nodes : n # x => elem'[n] = elem[n]
  BY <1>3 DEF Typed, TypeOK
<1>6. Held(t) = x /\ Held(t)' = x /\ ~Prepares(t) /\ ~Prepares(t)'
  BY <1>0, <1>3, <1>4 DEF Held, Prepares, PrepareLabels
<1>7. own[x] = Null /\ \A u \in Threads \ {t} : Held(u) # x
  BY <1>1, <1>4, <1>6 DEF Apart
<1>8. x # head.node /\ x # tail.node /\ ~Queued(own, x) /\ (next[head.node] # End => x # next[head.node])
  BY <1>1, <1>4, <1>7, NotQueued
<1>9. Queue(own, pos, rank)'
  <2>1. Forest(next', own, pos, head.node') /\ own[tail.node'] = End
    BY <1>1, <1>3 DEF Queue
  <2> QED  BY <1>1, <1>2, <1>3, <1>6, <2>1, QueueKept
<1>10. Stacked(s)'
  BY <1>1, <1>3, StackedKept
<1>11. Apart(own, s)'
  BY <1>1, <1>2, <1>3, <1>6, ApartKept
<1>12. Counted(q, s)'
  <2>1. t \in Active
    BY <1>3 DEF Active, PopLabels
  <2> QED  BY <1>1, <1>2, <1>3, <2>1, CountedKept
<1>13. \A u \in Threads : HeadSide(u)' /\ TailSide(u)' /\ Told(u)'
  <2> SUFFICES ASSUME NEW u \in Threads  PROVE HeadSide(u)' /\ TailSide(u)' /\ Told(u)'
    OBVIOUS
  <2>1. CASE u = t
    BY <1>3, <2>1 DEF HeadSide, TailSide, Told, SincePopSeq
  <2>2. CASE u # t
    <3>1. next[head.node] # End => elem'[next[head.node]] = elem[next[head.node]]
      <4>1. next[head.node] \in Nodes \cup {End}
        BY <1>1, Ends
      <4> QED  BY <1>5, <1>8, <4>1
    <3> QED  BY <1>2, <1>3, <2>2, <3>1, AllSidesKept DEF Advances, Others
  <2> QED  BY <2>1, <2>2
<1>14. \A u \in Threads : FreeSide(u, q, s)'
  <2> SUFFICES ASSUME NEW u \in Threads  PROVE FreeSide(u, q, s)'
    OBVIOUS
  <2>1. CASE u = t
    BY <1>3, <1>4, <2>1 DEF FreeSide, PopSteps, PushSteps
  <2>2. CASE u # t
    <3>1. FreeSide(u, q, s)
      BY DEF Shape
    <3> QED  BY <1>2, <1>3, <2>2, <3>1, FreeSideKept DEF Others
  <2> QED  BY <2>1, <2>2
<1>15. \A n \in Nodes : Queued(own, n) => elem'[n] = elem[n]
  BY <1>5, <1>8
<1>16. ElementsOnce(own)'
  BY <1>1, <1>2, <1>3, <1>15, ElementsOnceKept DEF Coming
<1>17. NothingLost(own)'
  <2>1. \A u \in Threads : pc[u] = "setNext" \/ Prepares(u) => elem'[loc[u].node] = elem[loc[u].node]
    <3> SUFFICES ASSUME NEW u \in Threads, pc[u] = "setNext" \/ Prepares(u)
                 PROVE  elem'[loc[u].node] = elem[loc[u].node]
      OBVIOUS
    <3>1. Held(u) = loc[u].node /\ u # t
      BY <1>3, <1>6 DEF Held
    <3>2. loc[u].node \in Nodes
      BY Here
    <3> QED  BY <1>5, <1>7, <3>1, <3>2
  <2> QED  BY <1>1, <1>2, <1>3, <1>6, <1>15, <2>1, NothingLostKept
<1> QED  BY <1>9, <1>10, <1>11, <1>12, <1>13, <1>14, <1>16, <1>17 DEF Shape

LEMMA BeginPushItemStep ==
  ASSUME Typed, NEW own, NEW pos, NEW rank, NEW s, NEW q, Shape(own, pos, rank, s, q),
         NEW t \in Threads, Thread(t), BeginPushItem(t)
  PROVE  Shape(own, pos, rank, s, q)'
<1>1. /\ Queue(own, pos, rank) /\ Stacked(s) /\ Apart(own, s) /\ Counted(q, s)
      /\ ElementsOnce(own) /\ NothingLost(own)
      /\ loc[t] \in Locals
  BY Here
<1>2. Others(t) /\ emptied' = {u \in Threads : pc'[u] \in InPop /\ (u \in emptied \/ Empty')}
  BY OneThread DEF Thread
<1>3. /\ pc[t] = "idle" /\ pc'[t] = "getNode" /\ step'[t] = "pop" /\ mine'[t] = Null
      /\ next' = next /\ elem' = elem /\ top' = top /\ head' = head /\ tail' = tail /\ heap' = heap
      /\ pushed' = pushed + 1 /\ pops' = pops /\ out' = out /\ returned' = returned
  BY DEF BeginPushItem, Step, Free!CallPop, Free!Goto, Typed, TypeOK, Free!LTypeOK
<1>4. loc'[t].item = pushed + 1
  BY <1>1 DEF BeginPushItem, Typed, TypeOK, Locals
<1>5. Held(t) = Null /\ Held(t)' = Null /\ ~Prepares(t) /\ ~Prepares(t)'
  BY <1>3 DEF Held, Prepares, PrepareLabels
<1>6. Queue(own, pos, rank)'
  <2>1. Forest(next', own, pos, head.node') /\ own[tail.node'] = End
    BY <1>1, <1>3 DEF Queue
  <2> QED  BY <1>1, <1>2, <1>3, <1>5, <2>1, QueueKept
<1>7. Stacked(s)'
  BY <1>1, <1>3, StackedKept
<1>8. Apart(own, s)'
  BY <1>1, <1>2, <1>3, <1>5, ApartKept
<1>9. Counted(q, s)'
  <2>1. t \notin Active'
    BY <1>3 DEF Active, PopLabels, InPop
  <2> QED  BY <1>1, <1>2, <1>3, <2>1, CountedKept
<1>10. \A u \in Threads : HeadSide(u)' /\ TailSide(u)' /\ Told(u)'
  <2> SUFFICES ASSUME NEW u \in Threads  PROVE HeadSide(u)' /\ TailSide(u)' /\ Told(u)'
    OBVIOUS
  <2>1. CASE u = t
    BY <1>3, <2>1 DEF HeadSide, TailSide, Told, SincePopSeq
  <2>2. CASE u # t
    BY <1>2, <1>3, <2>2, AllSidesKept DEF Advances, Others
  <2> QED  BY <2>1, <2>2
<1>11. \A u \in Threads : FreeSide(u, q, s)'
  <2> SUFFICES ASSUME NEW u \in Threads  PROVE FreeSide(u, q, s)'
    OBVIOUS
  <2>1. CASE u = t
    BY <1>3, <2>1 DEF FreeSide, PopSteps, PushSteps
  <2>2. CASE u # t
    <3>1. FreeSide(u, q, s)
      BY DEF Shape
    <3> QED  BY <1>2, <1>3, <2>2, <3>1, FreeSideKept DEF Others
  <2> QED  BY <2>1, <2>2
<1>12. ElementsOnce(own)'
  <2>1. pushed \in Nat /\ 1 .. pushed \subseteq 1 .. pushed' /\ pushed + 1 \in 1 .. pushed' /\ pushed + 1 \notin 1 .. pushed
    BY <1>3 DEF Typed
  <2>2. (\A n : Queued(own, n)' <=> Queued(own, n)) /\ Delivered' = Delivered
    BY <1>3 DEF Queued, Delivered
  <2>3. \A u \in Threads \ {t} : (Coming(u)' <=> Coming(u)) /\ loc'[u] = loc[u]
    BY <1>2 DEF Others, Coming
  <2>4. pushed + 1 \notin Delivered
    BY <1>1, <2>1 DEF ElementsOnce, Delivered
  <2>5. \A n \in Nodes : Queued(own, n) => elem[n] \in 1 .. pushed' /\ elem[n] # pushed + 1 /\ elem[n] \notin Delivered
    BY <1>1, <2>1 DEF ElementsOnce
  <2>6. \A u \in Threads : Coming(u)' =>
           /\ loc'[u].item \in 1 .. pushed' /\ loc'[u].item \notin Delivered
           /\ \A n \in Nodes : Queued(own, n) => elem[n] # loc'[u].item
    BY <1>1, <1>4, <2>1, <2>3, <2>4, <2>5 DEF ElementsOnce
  <2>7. \A u \in Threads \ {t} : Coming(u) => loc[u].item # pushed + 1
    BY <1>1, <2>1 DEF ElementsOnce
  <2>8. \A u, v \in Threads : Coming(u)' /\ Coming(v)' /\ loc'[u].item = loc'[v].item => u = v
    BY <1>1, <1>4, <2>3, <2>7 DEF ElementsOnce
  <2>9. \A i \in DOMAIN out : out[i] \in 1 .. pushed'
    BY <1>1, <2>1 DEF ElementsOnce
  <2>10. \A n, m \in Nodes : Queued(own, n) /\ Queued(own, m) /\ elem[n] = elem[m] => n = m
    BY <1>1 DEF ElementsOnce
  <2>11. \A i, j \in DOMAIN out : i # j => out[i] # out[j]
    BY <1>1 DEF ElementsOnce
  <2>12. elem' = elem /\ out' = out
    BY <1>3
  <2> QED  BY <2>2, <2>5, <2>6, <2>8, <2>9, <2>10, <2>11, <2>12 DEF ElementsOnce
<1>13. NothingLost(own)'
  BY <1>1, <1>2, <1>3, <1>5, NothingLostKept
<1> QED  BY <1>6, <1>7, <1>8, <1>9, <1>10, <1>11, <1>12, <1>13 DEF Shape

LEMMA GetNodeStep ==
  ASSUME Typed, NEW own, NEW pos, NEW rank, NEW s, NEW q, Shape(own, pos, rank, s, q),
         NEW t \in Threads, Thread(t), GetNode(t)
  PROVE  Shape(own, pos, rank, s, q)'
<1>1. /\ Queue(own, pos, rank) /\ Stacked(s) /\ Apart(own, s) /\ Counted(q, s)
      /\ ElementsOnce(own) /\ NothingLost(own) /\ tail \in Link /\ loc[t] \in Locals
  BY Here
<1>2. Others(t) /\ emptied' = {u \in Threads : pc'[u] \in InPop /\ (u \in emptied \/ Empty')}
  BY OneThread DEF Thread
<1>0. PICK x : x = IF mine[t] # Null THEN mine[t] ELSE CHOOSE m \in heap : TRUE
  OBVIOUS
<1>3. /\ pc[t] = "getNode" /\ pc'[t] = "setNext" /\ step[t] = "ready" /\ step' = step /\ mine' = mine
      /\ next' = next /\ top' = top /\ head' = head /\ tail' = tail /\ heap' = heap \ {x}
      /\ pushed' = pushed /\ pops' = pops /\ out' = out /\ returned' = returned
      /\ elem' = [elem EXCEPT ![x] = loc[t].item] /\ loc' = [loc EXCEPT ![t].node = x]
      /\ mine[t] # Null \/ heap # {}
  BY <1>0 DEF GetNode, Step, freeVars, historyVars, Typed, TypeOK
<1>4. Held(t) = mine[t] /\ ~Prepares(t) /\ ~Prepares(t)'
  BY <1>3 DEF Held, Prepares, PrepareLabels
<1>5. /\ x \in Nodes /\ own[x] = Null
      /\ \A i \in 1 .. Len(s) : s[i] # x
      /\ \A u \in Threads \ {t} : Held(u) # x
  <2>1. CASE mine[t] # Null
    BY <1>0, <1>1, <1>4, <2>1 DEF Apart
  <2>2. CASE mine[t] = Null
    <3>1. x \in heap
      BY <1>0, <1>3, <2>2
    <3>2. heap \subseteq Nodes /\ Null \notin Nodes
      BY ConstantsApart DEF Typed, TypeOK
    <3> QED  BY <1>1, <3>1, <3>2 DEF Apart
  <2> QED  BY <2>1, <2>2
<1>6. loc'[t].node = x /\ loc'[t].item = loc[t].item
  BY <1>1, <1>3 DEF Typed, TypeOK, Locals
<1>7. Held(t)' = x /\ x # Null
  BY <1>3, <1>5, <1>6, ConstantsApart DEF Held
<1>8. elem'[x] = loc[t].item /\ \A n \in Nodes : n # x => elem'[n] = elem[n]
  BY <1>3, <1>5 DEF Typed, TypeOK
<1>9. x # head.node /\ x # tail.node /\ ~Queued(own, x) /\ (next[head.node] # End => x # next[head.node])
  BY <1>1, <1>5, NotQueued
<1>10. Queue(own, pos, rank)'
  <2>1. Forest(next', own, pos, head.node') /\ own[tail.node'] = End
    BY <1>1, <1>3 DEF Queue
  <2> QED  BY <1>1, <1>2, <1>3, <1>4, <2>1, QueueKept
<1>11. Stacked(s)'
  BY <1>1, <1>3, StackedKept
<1>12. Apart(own, s)'
  <2>1. \A u \in Threads \ {t} : Held(u)' = Held(u) /\ (Prepares(u)' <=> Prepares(u))
    BY <1>2, HeldByOthers
  <2>2. /\ \A i \in 1 .. Len(s) : own[s[i]] = Null /\ s[i] \notin heap'
        /\ \A n \in heap' : own[n] = Null
    BY <1>1, <1>3 DEF Apart
  <2>3. \A u \in Threads : Held(u)' # Null =>
          /\ Held(u)' \in Nodes /\ Held(u)' \notin heap'
          /\ \A i \in 1 .. Len(s) : s[i] # Held(u)'
          /\ Prepares(u)' \/ own[Held(u)'] = Null
    BY <1>1, <1>3, <1>5, <1>7, <2>1 DEF Apart
  <2>4. \A u, v \in Threads : Held(u)' = Held(v)' /\ Held(u)' # Null => u = v
    BY <1>1, <1>5, <1>7, <2>1 DEF Apart
  <2> QED  BY <2>2, <2>3, <2>4 DEF Apart
<1>13. Counted(q, s)'
  <2>1. t \notin Active'
    BY <1>3 DEF Active, PopLabels, InPop
  <2> QED  BY <1>1, <1>2, <1>3, <2>1, CountedKept
<1>14. \A u \in Threads : HeadSide(u)' /\ TailSide(u)' /\ Told(u)'
  <2> SUFFICES ASSUME NEW u \in Threads  PROVE HeadSide(u)' /\ TailSide(u)' /\ Told(u)'
    OBVIOUS
  <2>1. CASE u = t
    BY <1>3, <2>1 DEF HeadSide, TailSide, Told, SincePopSeq
  <2>2. CASE u # t
    <3>1. next[head.node] # End => elem'[next[head.node]] = elem[next[head.node]]
      <4>1. next[head.node] \in Nodes \cup {End}
        BY <1>1, Ends
      <4> QED  BY <1>8, <1>9, <4>1
    <3> QED  BY <1>2, <1>3, <2>2, <3>1, AllSidesKept DEF Advances, Others
  <2> QED  BY <2>1, <2>2
<1>15. \A u \in Threads : FreeSide(u, q, s)'
  <2> SUFFICES ASSUME NEW u \in Threads  PROVE FreeSide(u, q, s)'
    OBVIOUS
  <2>1. CASE u = t
    BY <1>3, <2>1 DEF FreeSide, PopSteps, PushSteps
  <2>2. CASE u # t
    <3>1. FreeSide(u, q, s)
      BY DEF Shape
    <3> QED  BY <1>2, <1>3, <2>2, <3>1, FreeSideKept DEF Others
  <2> QED  BY <2>1, <2>2
<1>16. \A n \in Nodes : Queued(own, n) => elem'[n] = elem[n]
  BY <1>8, <1>9
<1>17. ElementsOnce(own)'
  BY <1>1, <1>2, <1>3, <1>6, <1>16, ElementsOnceKept DEF Coming
<1>18. NothingLost(own)'
  <2>1. \A i : Placed(own, i) => Placed(own, i)'
    BY <1>3, <1>16 DEF Placed, Queued, Delivered
  <2>2. \A u \in Threads \ {t} : pc'[u] = "setNext" \/ Prepares(u)' => elem'[loc'[u].node] = loc'[u].item
    <3> SUFFICES ASSUME NEW u \in Threads \ {t}, pc'[u] = "setNext" \/ Prepares(u)'
                 PROVE  elem'[loc'[u].node] = loc'[u].item
      OBVIOUS
    <3>1. loc'[u] = loc[u] /\ (pc[u] = "setNext" \/ Prepares(u))
      BY <1>2 DEF Others, Prepares
    <3>2. Held(u) = loc[u].node /\ loc[u].node \in Nodes
      BY <3>1, Here DEF Held
    <3>3. elem[loc[u].node] = loc[u].item
      BY <1>1, <3>1 DEF NothingLost
    <3> QED  BY <1>5, <1>8, <3>1, <3>2, <3>3
  <2>3. \A u \in Threads : pc'[u] \in {"finish", "countUp"} => pc'[u] = pc[u] /\ loc'[u] = loc[u]
    BY <1>2, <1>3 DEF Others
  <2>4. \A u \in Threads : pc'[u] \in {"finish", "countUp"} => Placed(own, loc[u].item)'
    <3> SUFFICES ASSUME NEW u \in Threads, pc'[u] \in {"finish", "countUp"}
                 PROVE  Placed(own, loc[u].item)'
      OBVIOUS
    <3>1. loc'[u] = loc[u] /\ Placed(own, loc[u].item)
      BY <1>1, <2>3 DEF NothingLost
    <3>2. PICK i : i = loc[u].item
      OBVIOUS
    <3>3. Placed(own, i)'
      BY <2>1, <3>1, <3>2
    <3> QED  BY <3>1, <3>2, <3>3
  <2>5. \A i \in returned : Placed(own, i)'
    BY <1>1, <2>1 DEF NothingLost
  <2> QED  BY <1>3, <1>6, <1>8, <2>2, <2>4, <2>5 DEF NothingLost
<1> QED  BY <1>10, <1>11, <1>12, <1>13, <1>14, <1>15, <1>17, <1>18 DEF Shape

LEMMA SetNextStep ==
  ASSUME Typed, NEW own, NEW pos, NEW rank, NEW s, NEW q, Shape(own, pos, rank, s, q),
         NEW t \in Threads, Thread(t), SetNext(t)
  PROVE  \E own2, pos2, rank2 : Shape(own2, pos2, rank2, s, q)'
<1>1. /\ Queue(own, pos, rank) /\ Stacked(s) /\ Apart(own, s) /\ Counted(q, s)
      /\ ElementsOnce(own) /\ NothingLost(own) /\ tail \in Link /\ loc[t].node \in Nodes
      /\ next \in [Nodes -> Pointers]
  BY Here
<1>2. Others(t) /\ emptied' = {u \in Threads : pc'[u] \in InPop /\ (u \in emptied \/ Empty')}
  BY OneThread DEF Thread
<1>0. PICK x : x = loc[t].node
  OBVIOUS
<1>3. /\ pc[t] = "setNext" /\ pc'[t] = "tailNode" /\ step' = step /\ mine' = mine /\ loc' = loc
      /\ next' = [next EXCEPT ![x] = End] /\ top' = top /\ head' = head /\ tail' = tail /\ heap' = heap
      /\ pushed' = pushed /\ pops' = pops /\ out' = out /\ returned' = returned /\ elem' = elem
  BY <1>0 DEF SetNext, Step, freeVars, historyVars, Typed, TypeOK
<1>4. /\ Held(t) = x /\ Held(t)' = x /\ ~Prepares(t) /\ Prepares(t)' /\ x \in Nodes /\ x # Null /\ x # End
      /\ step[t] = "ready"
  BY <1>0, <1>1, <1>3, Here, ConstantsApart DEF Held, Prepares, PrepareLabels
<1>5. /\ own[x] = Null /\ x \notin heap
      /\ \A i \in 1 .. Len(s) : s[i] # x
      /\ \A u \in Threads \ {t} : Held(u) # x
  BY <1>1, <1>4 DEF Apart
<1>6. x # head.node /\ x # tail.node /\ ~Queued(own, x)
  BY <1>1, <1>4, <1>5, NotQueued
<1>7. next'[x] = End /\ \A n \in Nodes : n # x => next'[n] = next[n]
  BY <1>1, <1>3, <1>4
<1>8. /\ own \in [Nodes -> Pointers] /\ head.node \in Nodes /\ tail.node \in Nodes
      /\ own[head.node] = End /\ own[tail.node] = End /\ rank \in [Nodes -> Nat]
      /\ Forest(next, own, pos, head.node)
  BY <1>1, Ends DEF Queue
<1> DEFINE own2 == [own EXCEPT ![x] = x]
           pos2 == [pos EXCEPT ![x] = 0]
           rank2 == [n \in Nodes |-> IF n = x THEN 0 ELSE rank[n] + 1]
<1>9. /\ own2[x] = x /\ \A n \in Nodes : n # x => own2[n] = own[n]
      /\ rank2[x] = 0 /\ (\A n \in Nodes : n # x => rank2[n] = rank[n] + 1) /\ rank2 \in [Nodes -> Nat]
  BY <1>4, <1>8
<1>10. Forest(next', own2, pos2, head.node')
  BY <1>3, <1>4, <1>5, <1>8, ChainBegins
<1> HIDE DEF own2, pos2, rank2
<1>11. \A n \in Nodes : own[n] # x
  <2>1. \A n \in Nodes : own[n] = x => own[x] = x
    BY <1>4, <1>8 DEF Forest
  <2> QED  BY <1>4, <1>5, <2>1
<1>12. \A u \in Threads \ {t} : /\ (Prepares(u)' <=> Prepares(u)) /\ Held(u)' = Held(u)
                                /\ Prepares(u) => loc[u].node # x /\ loc[u].node \in Nodes
  <2>1. \A u \in Threads \ {t} : Prepares(u) => Held(u) = loc[u].node /\ loc[u].node \in Nodes
    BY Here DEF Held
  <2> QED  BY <1>2, <1>5, <2>1, HeldByOthers
<1>13. Queue(own2, pos2, rank2)'
  <2>1. own2[tail.node] = End
    BY <1>6, <1>8, <1>9
  <2>2. \A u \in Threads : Prepares(u)' => own2[loc[u].node] = loc[u].node
    BY <1>0, <1>1, <1>9, <1>12 DEF Queue
  <2>3. \A n \in Nodes : own2[n] = n => \E u \in Threads : Prepares(u)' /\ loc[u].node = n
    <3> SUFFICES ASSUME NEW n \in Nodes, own2[n] = n, n # x
                 PROVE  \E u \in Threads : Prepares(u)' /\ loc[u].node = n
      BY <1>0, <1>4
    <3>1. PICK u \in Threads : Prepares(u) /\ loc[u].node = n
      BY <1>1, <1>9 DEF Queue
    <3> QED  BY <1>4, <1>12, <3>1
  <2>4. ASSUME NEW u \in Threads, pc'[u] \in {"tailSeq", "link"}, own2[loc[u].old.node] \in Nodes
        PROVE  rank2[own2[loc[u].old.node]] < rank2[loc[u].node]
    <3>1. u # t /\ pc[u] \in {"tailSeq", "link"}
      BY <1>2, <1>3, <2>4 DEF Others
    <3>2. loc[u].node # x /\ loc[u].node \in Nodes /\ rank2[loc[u].node] = rank[loc[u].node] + 1
          /\ rank[loc[u].node] \in Nat
      BY <1>8, <1>9, <1>12, <3>1 DEF Prepares, PrepareLabels
    <3>3. loc[u].old.node \in Nodes
      BY Here DEF Link
    <3>4. CASE loc[u].old.node = x
      BY <1>9, <3>2, <3>4
    <3>5. CASE loc[u].old.node # x
      <4>1. own2[loc[u].old.node] = own[loc[u].old.node] /\ own[loc[u].old.node] # x
        BY <1>9, <1>11, <3>3, <3>5
      <4>2. rank[own[loc[u].old.node]] < rank[loc[u].node]
        BY <1>1, <2>4, <3>1, <4>1 DEF Queue
      <4>3. rank2[own[loc[u].old.node]] = rank[own[loc[u].old.node]] + 1
            /\ rank[own[loc[u].old.node]] \in Nat
        BY <1>8, <1>9, <2>4, <4>1
      <4> QED  BY <3>2, <4>1, <4>2, <4>3
    <3> QED  BY <3>4, <3>5
  <2> QED  BY <1>3, <1>9, <1>10, <2>1, <2>2, <2>3, <2>4 DEF Queue
<1>14. Stacked(s)' /\ \A u \in Threads \ {t} : FreeSide(u, q, s)'
  <2>1. \A u \in Threads : FreeSide(u, q, s)
    BY DEF Shape
  <2>2. \A u \in Threads \ {t} : step[u] = "pushSwap" => mine[u] # x
    BY <1>5, <2>1, SwapperHolds
  <2> QED  BY <1>1, <1>2, <1>3, <1>4, <1>5, <1>7, <2>1, <2>2, NodeWritten
<1>15. FreeSide(t, q, s)'
  BY <1>3, <1>4 DEF FreeSide, PopSteps, PushSteps
<1>16. Apart(own2, s)'
  <2>1. \A i \in 1 .. Len(s) : own2[s[i]] = Null /\ s[i] \notin heap
    <3>1. \A i \in 1 .. Len(s) : own[s[i]] = Null /\ s[i] \notin heap
      BY <1>1 DEF Apart
    <3>2. \A i \in 1 .. Len(s) : s[i] \in Nodes
      BY <1>1 DEF Stacked
    <3> QED  BY <1>5, <1>9, <3>1, <3>2
  <2>2. \A n \in heap : own2[n] = Null
    BY <1>1, <1>5, <1>9 DEF Apart, Typed, TypeOK
  <2>3. \A u \in Threads : Held(u)' # Null =>
          /\ Held(u)' \in Nodes /\ Held(u)' \notin heap
          /\ \A i \in 1 .. Len(s) : s[i] # Held(u)'
          /\ Prepares(u)' \/ own2[Held(u)'] = Null
    BY <1>1, <1>4, <1>5, <1>9, <1>12 DEF Apart
  <2>4. \A u, v \in Threads : Held(u)' = Held(v)' /\ Held(u)' # Null => u = v
    BY <1>1, <1>4, <1>12 DEF Apart
  <2> QED  BY <1>3, <2>1, <2>2, <2>3, <2>4 DEF Apart
<1>17. Counted(q, s)'
  <2>1. t \notin Active'
    BY <1>3 DEF Active, PopLabels, InPop
  <2> QED  BY <1>1, <1>2, <1>3, <2>1, CountedKept
<1>18. \A u \in Threads : HeadSide(u)' /\ TailSide(u)' /\ Told(u)'
  <2> SUFFICES ASSUME NEW u \in Threads  PROVE HeadSide(u)' /\ TailSide(u)' /\ Told(u)'
    OBVIOUS
  <2>1. CASE u = t
    BY <1>3, <2>1 DEF HeadSide, TailSide, Told, SincePopSeq
  <2>2. CASE u # t
    <3>1. next'[head.node] = next[head.node] /\ next'[tail.node] = next[tail.node]
      BY <1>6, <1>7, <1>8
    <3> QED  BY <1>2, <1>3, <2>2, <3>1, AllSidesKept DEF Advances, Others
  <2> QED  BY <2>1, <2>2
<1>19. \A n \in Nodes : Queued(own2, n)' <=> Queued(own, n) \/ n = x
  BY <1>3, <1>4, <1>6, <1>9 DEF Queued
<1>20. Delivered' = Delivered
  BY <1>3 DEF Delivered
<1>21. elem[x] = loc[t].item /\ Coming(t) /\ ~Coming(t)'
  BY <1>0, <1>1, <1>3 DEF NothingLost, Coming
<1>22. \A u \in Threads \ {t} : Coming(u)' <=> Coming(u)
  BY <1>2 DEF Others, Coming
<1>23. ElementsOnce(own2)'
  <2>1. \A n \in Nodes : Queued(own2, n)' => elem[n] \in 1 .. pushed /\ elem[n] \notin Delivered
    BY <1>1, <1>19, <1>21 DEF ElementsOnce
  <2>2. \A n, m \in Nodes : Queued(own2, n)' /\ Queued(own2, m)' /\ elem[n] = elem[m] => n = m
    BY <1>1, <1>19, <1>21 DEF ElementsOnce
  <2>3. \A u \in Threads : Coming(u)' =>
           /\ loc[u].item \in 1 .. pushed /\ loc[u].item \notin Delivered
           /\ \A n \in Nodes : Queued(own2, n)' => elem[n] # loc[u].item
    BY <1>1, <1>19, <1>21, <1>22 DEF ElementsOnce
  <2>4. \A u, v \in Threads : Coming(u)' /\ Coming(v)' /\ loc[u].item = loc[v].item => u = v
    BY <1>1, <1>21, <1>22 DEF ElementsOnce
  <2>5. /\ \A i \in DOMAIN out : out[i] \in 1 .. pushed
        /\ \A i, j \in DOMAIN out : i # j => out[i] # out[j]
    BY <1>1 DEF ElementsOnce
  <2> QED  BY <1>3, <1>20, <2>1, <2>2, <2>3, <2>4, <2>5 DEF ElementsOnce
<1>24. NothingLost(own2)'
  <2>1. \A i : Placed(own, i) => Placed(own2, i)'
    BY <1>3, <1>19, <1>20 DEF Placed
  <2>2. \A u \in Threads \ {t} : pc'[u] = pc[u]
    BY <1>2 DEF Others
  <2>3. \A u \in Threads : pc'[u] = "setNext" \/ Prepares(u)' => elem[loc[u].node] = loc[u].item
    BY <1>0, <1>1, <1>12, <1>21, <2>2 DEF NothingLost
  <2>4. \A u \in Threads : pc'[u] \in {"finish", "countUp"} => Placed(own2, loc[u].item)'
    BY <1>1, <1>3, <2>1, <2>2 DEF NothingLost
  <2>5. \A i \in returned : Placed(own2, i)'
    BY <1>1, <2>1 DEF NothingLost
  <2> QED  BY <1>3, <2>3, <2>4, <2>5 DEF NothingLost
<1>25. \A u \in Threads : FreeSide(u, q, s)'
  BY <1>14, <1>15
<1> QED  BY <1>13, <1>14, <1>16, <1>17, <1>18, <1>23, <1>24, <1>25 DEF Shape

LEMMA LinkNodeDone ==
  ASSUME Typed, NEW own, NEW pos, NEW rank, NEW s, NEW q, Shape(own, pos, rank, s, q),
         NEW t \in Threads, Thread(t), LinkNode(t), next[loc[t].old.node] = End
  PROVE  \E own2, pos2 : Shape(own2, pos2, rank, s, q)'
<1>1. /\ Queue(own, pos, rank) /\ Stacked(s) /\ Apart(own, s) /\ Counted(q, s)
      /\ ElementsOnce(own) /\ NothingLost(own) /\ tail \in Link /\ loc[t].node \in Nodes
      /\ loc[t].old \in Link /\ next \in [Nodes -> Pointers] /\ TailSide(t)
  BY Here
<1>2. Others(t) /\ emptied' = {u \in Threads : pc'[u] \in InPop /\ (u \in emptied \/ Empty')}
  BY OneThread DEF Thread
<1>0. PICK x, z : x = loc[t].node /\ z = loc[t].old.node
  OBVIOUS
<1>3. /\ pc[t] = "link" /\ pc'[t] = "finish" /\ step' = step /\ mine' = mine /\ loc' = loc
      /\ next' = [next EXCEPT ![z] = x] /\ top' = top /\ head' = head /\ tail' = tail /\ heap' = heap
      /\ pushed' = pushed /\ pops' = pops /\ out' = out /\ returned' = returned /\ elem' = elem
      /\ next[z] = End
  BY <1>0 DEF LinkNode, Step, freeVars, historyVars, Typed, TypeOK
<1>4. /\ x \in Nodes /\ z \in Nodes /\ Prepares(t) /\ ~Prepares(t)' /\ Held(t) = x /\ Held(t)' = Null
      /\ step[t] = "ready" /\ x # Null /\ x # End /\ Null # End
  BY <1>0, <1>1, <1>3, Here, ConstantsApart DEF Held, Prepares, PrepareLabels, Link
<1>5. /\ own \in [Nodes -> Pointers] /\ head.node \in Nodes /\ tail.node \in Nodes
      /\ own[head.node] = End /\ own[tail.node] = End /\ rank \in [Nodes -> Nat]
      /\ Forest(next, own, pos, head.node)
      /\ next[head.node] \in Nodes \cup {End} /\ next[tail.node] \in Nodes \cup {End}
  BY <1>1, Ends DEF Queue
<1>6. own[x] = x /\ own[z] # Null /\ own[z] # x
  <2>1. own[x] = x
    BY <1>0, <1>1, <1>4 DEF Queue
  <2>2. own[z] # Null
    BY <1>3, <1>4, <1>5 DEF Forest
  <2>3. own[z] \in Nodes => rank[own[z]] < rank[x]
    BY <1>0, <1>1, <1>3 DEF Queue
  <2>4. rank[x] \in Nat
    BY <1>4, <1>5
  <2> QED  BY <1>4, <2>1, <2>2, <2>3, <2>4
<1>7. next'[z] = x /\ \A n \in Nodes : n # z => next'[n] = next[n]
  BY <1>1, <1>3, <1>4
<1> DEFINE own2 == Hung(own, x, z)
           pos2 == Moved(own, pos, x, z)
<1>8. \A n \in Nodes : own2[n] = IF own[n] = x THEN own[z] ELSE own[n]
  BY DEF Hung
<1>9. Forest(next', own2, pos2, head.node')
  BY <1>3, <1>4, <1>5, <1>6, ChainHung
<1> HIDE DEF own2, pos2
<1>10. \A u \in Threads \ {t} : /\ (Prepares(u)' <=> Prepares(u)) /\ Held(u)' = Held(u)
                                /\ Prepares(u) => loc[u].node # x /\ loc[u].node \in Nodes
  <2>1. \A u \in Threads \ {t} : Prepares(u) => Held(u) = loc[u].node /\ loc[u].node \in Nodes
    BY Here DEF Held
  <2>2. \A u \in Threads \ {t} : Held(u) # x
    BY <1>1, <1>4 DEF Apart
  <2> QED  BY <1>2, <2>1, <2>2, HeldByOthers
<1>11. own[z] \in Nodes => own[own[z]] = own[z]
  BY <1>4, <1>5 DEF Forest
<1>12. Queue(own2, pos2, rank)'
  <2>1. own2[tail.node] = End
    BY <1>4, <1>5, <1>8
  <2>2. \A u \in Threads : Prepares(u)' => own2[loc[u].node] = loc[u].node
    BY <1>1, <1>4, <1>8, <1>10 DEF Queue
  <2>3. \A n \in Nodes : own2[n] = n => \E u \in Threads : Prepares(u)' /\ loc[u].node = n
    <3> SUFFICES ASSUME NEW n \in Nodes, own2[n] = n
                 PROVE  \E u \in Threads : Prepares(u)' /\ loc[u].node = n
      OBVIOUS
    <3>1. own[n] # x
      BY <1>6, <1>8, <1>11
    <3>2. own[n] = n /\ n # x
      BY <1>6, <1>8, <3>1
    <3>3. PICK u \in Threads : Prepares(u) /\ loc[u].node = n
      BY <1>1, <3>2 DEF Queue
    <3> QED  BY <1>0, <1>10, <3>2, <3>3
  <2>4. ASSUME NEW u \in Threads, pc'[u] \in {"tailSeq", "link"}, own2[loc[u].old.node] \in Nodes
        PROVE  rank[own2[loc[u].old.node]] < rank[loc[u].node]
    <3>1. u # t /\ pc[u] \in {"tailSeq", "link"}
      BY <1>2, <1>3, <2>4 DEF Others
    <3>2. loc[u].old.node \in Nodes /\ loc[u].node \in Nodes
      BY Here DEF Link
    <3>3. CASE own[loc[u].old.node] = x
      <4>1. own2[loc[u].old.node] = own[z]
        BY <1>8, <3>2, <3>3
      <4>2. rank[x] < rank[loc[u].node]
        BY <1>1, <1>4, <3>1, <3>3 DEF Queue
      <4>3. rank[own[z]] < rank[x]
        BY <1>0, <1>1, <1>3, <2>4, <4>1 DEF Queue
      <4>4. rank[own[z]] \in Nat /\ rank[x] \in Nat /\ rank[loc[u].node] \in Nat
        BY <1>4, <1>5, <2>4, <3>2, <4>1
      <4> QED  BY <4>1, <4>2, <4>3, <4>4
    <3>4. CASE own[loc[u].old.node] # x
      <4>1. own2[loc[u].old.node] = own[loc[u].old.node]
        BY <1>8, <3>2, <3>4
      <4> QED  BY <1>1, <2>4, <3>1, <4>1 DEF Queue
    <3> QED  BY <3>3, <3>4
  <2> QED  BY <1>3, <1>5, <1>9, <2>1, <2>2, <2>3, <2>4 DEF Queue
<1>13. Stacked(s)' /\ \A u \in Threads \ {t} : FreeSide(u, q, s)'
  <2>1. \A u \in Threads : FreeSide(u, q, s)
    BY DEF Shape
  <2>2. \A u \in Threads \ {t} : step[u] = "pushSwap" => mine[u] # z
    <3> SUFFICES ASSUME NEW u \in Threads, step[u] = "pushSwap"  PROVE mine[u] # z
      OBVIOUS
    <3>1. Held(u) = mine[u] /\ mine[u] \in Nodes /\ ~Prepares(u)
      BY <2>1, SwapperHolds
    <3>2. own[mine[u]] = Null
      BY <1>1, <3>1, ConstantsApart DEF Apart
    <3> QED  BY <1>6, <3>2
  <2>3. \A i \in 1 .. Len(s) : s[i] # z
    BY <1>1, <1>6 DEF Apart
  <2> QED  BY <1>1, <1>2, <1>3, <1>4, <1>7, <2>1, <2>2, <2>3, NodeWritten
<1>14. \A u \in Threads : FreeSide(u, q, s)'
  <2>1. FreeSide(t, q, s)'
    BY <1>3, <1>4 DEF FreeSide, PopSteps, PushSteps
  <2> QED  BY <1>13, <2>1
<1>15. Apart(own2, s)'
  <2>0. \A n \in Nodes : own[n] = Null => own2[n] = Null
    BY <1>4, <1>8
  <2>1. \A i \in 1 .. Len(s) : own2[s[i]] = Null /\ s[i] \notin heap
    <3>1. \A i \in 1 .. Len(s) : own[s[i]] = Null /\ s[i] \notin heap
      BY <1>1 DEF Apart
    <3>2. \A i \in 1 .. Len(s) : s[i] \in Nodes
      BY <1>1 DEF Stacked
    <3> QED  BY <2>0, <3>1, <3>2
  <2>2. \A n \in heap : own2[n] = Null
    BY <1>1, <2>0 DEF Apart, Typed, TypeOK
  <2>3. \A u \in Threads : Held(u)' # Null =>
          /\ Held(u)' \in Nodes /\ Held(u)' \notin heap
          /\ \A i \in 1 .. Len(s) : s[i] # Held(u)'
          /\ Prepares(u)' \/ own2[Held(u)'] = Null
    BY <1>1, <1>4, <1>10, <2>0 DEF Apart
  <2>4. \A u, v \in Threads : Held(u)' = Held(v)' /\ Held(u)' # Null => u = v
    BY <1>1, <1>4, <1>10 DEF Apart
  <2> QED  BY <1>3, <2>1, <2>2, <2>3, <2>4 DEF Apart
<1>16. Counted(q, s)'
  <2>1. t \notin Active'
    BY <1>3 DEF Active, PopLabels, InPop
  <2> QED  BY <1>1, <1>2, <1>3, <2>1, CountedKept
<1>17. \A u \in Threads : HeadSide(u)' /\ TailSide(u)' /\ Told(u)'
  <2> SUFFICES ASSUME NEW u \in Threads  PROVE HeadSide(u)' /\ TailSide(u)' /\ Told(u)'
    OBVIOUS
  <2>1. CASE u = t
    <3>1. HeadSide(t)' /\ Told(t)'
      BY <1>3 DEF HeadSide, Told, SincePopSeq
    <3>2. TailSide(t)'
      BY <1>0, <1>1, <1>3, <1>7 DEF TailSide
    <3> QED  BY <2>1, <3>1, <3>2
  <2>2. CASE u # t
    <3>1. /\ next[head.node] # End => next'[head.node] = next[head.node]
          /\ next[tail.node] # End => next'[tail.node] = next[tail.node]
      BY <1>3, <1>5, <1>7
    <3> QED  BY <1>2, <1>3, <2>2, <3>1, AllSidesKept DEF Advances, Others
  <2> QED  BY <2>1, <2>2
<1>18. \A n \in Nodes : Queued(own2, n)' <=> Queued(own, n)
  <2> SUFFICES ASSUME NEW n \in Nodes  PROVE Queued(own2, n)' <=> Queued(own, n)
    OBVIOUS
  <2>1. CASE own[n] = x
    <3>1. own2[n] = own[z] /\ own[z] \in Nodes \cup {End}
      BY <1>4, <1>5, <1>6, <1>8, <2>1 DEF Pointers
    <3>2. n # head.node
      BY <1>4, <1>5, <2>1
    <3> QED  BY <1>3, <1>4, <2>1, <3>1, <3>2 DEF Queued
  <2>2. CASE own[n] # x
    BY <1>3, <1>8, <2>2 DEF Queued
  <2> QED  BY <2>1, <2>2
<1>19. Delivered' = Delivered
  BY <1>3 DEF Delivered
<1>20. \A u \in Threads : Coming(u)' <=> Coming(u)
  BY <1>2, <1>3 DEF Others, Coming
<1>21. ElementsOnce(own2)'
  <2>1. \A n \in Nodes : Queued(own2, n)' => elem[n] \in 1 .. pushed /\ elem[n] \notin Delivered
    BY <1>1, <1>18 DEF ElementsOnce
  <2>2. \A n, m \in Nodes : Queued(own2, n)' /\ Queued(own2, m)' /\ elem[n] = elem[m] => n = m
    BY <1>1, <1>18 DEF ElementsOnce
  <2>3. \A u \in Threads : Coming(u)' =>
           /\ loc[u].item \in 1 .. pushed /\ loc[u].item \notin Delivered
           /\ \A n \in Nodes : Queued(own2, n)' => elem[n] # loc[u].item
    BY <1>1, <1>18, <1>20 DEF ElementsOnce
  <2>4. \A u, v \in Threads : Coming(u)' /\ Coming(v)' /\ loc[u].item = loc[v].item => u = v
    BY <1>1, <1>20 DEF ElementsOnce
  <2>5. /\ \A i \in DOMAIN out : out[i] \in 1 .. pushed
        /\ \A i, j \in DOMAIN out : i # j => out[i] # out[j]
    BY <1>1 DEF ElementsOnce
  <2> QED  BY <1>3, <1>19, <2>1, <2>2, <2>3, <2>4, <2>5 DEF ElementsOnce
<1>22. NothingLost(own2)'
  <2>1. \A i : Placed(own, i) => Placed(own2, i)'
    BY <1>3, <1>18, <1>19 DEF Placed
  <2>2. \A u \in Threads \ {t} : pc'[u] = pc[u]
    BY <1>2 DEF Others
  <2>3. \A u \in Threads : pc'[u] = "setNext" \/ Prepares(u)' => elem[loc[u].node] = loc[u].item
    BY <1>1, <1>3, <1>4, <1>10, <2>2 DEF NothingLost
  <2>4. Placed(own2, loc[t].item)'
    <3>1. elem[x] = loc[t].item
      BY <1>0, <1>1, <1>4 DEF NothingLost
    <3>2. Queued(own, x)
      BY <1>4, <1>6 DEF Queued
    <3>3. Placed(own, loc[t].item)
      BY <1>4, <3>1, <3>2 DEF Placed
    <3> QED  BY <1>3, <2>1, <3>3
  <2>5. \A u \in Threads : pc'[u] \in {"finish", "countUp"} => Placed(own2, loc[u].item)'
    BY <1>1, <1>3, <2>1, <2>2, <2>4 DEF NothingLost
  <2>6. \A i \in returned : Placed(own2, i)'
    BY <1>1, <2>1 DEF NothingLost
  <2> QED  BY <1>3, <2>3, <2>5, <2>6 DEF NothingLost
<1> QED  BY <1>12, <1>13, <1>14, <1>15, <1>16, <1>17, <1>21, <1>22 DEF Shape

LEMMA SwapHeadDone ==
  ASSUME Typed, NEW own, NEW pos, NEW rank, NEW s, NEW q, Shape(own, pos, rank, s, q),
         NEW t \in Threads, Thread(t), SwapHead(t), head = loc[t].old
  PROVE  /\ \E own2 : Shape(own2, pos, rank, s, q)'
         /\ out' \in Seq(Items) /\ loc[t].succ \in Nodes
<1>1. /\ Queue(own, pos, rank) /\ Stacked(s) /\ Apart(own, s) /\ Counted(q, s)
      /\ ElementsOnce(own) /\ NothingLost(own) /\ tail \in Link /\ head \in Link
      /\ next \in [Nodes -> Pointers] /\ HeadSide(t) /\ step[t] = "ready"
  <2>1. pc[t] = "swapHead"
    BY DEF SwapHead, Step
  <2> QED  BY <2>1, Here
<1>2. Others(t) /\ emptied' = {u \in Threads : pc'[u] \in InPop /\ (u \in emptied \/ Empty')}
  BY OneThread DEF Thread
<1>0. PICK h, m, e : h = head.node /\ m = next[h] /\ e = loc[t].item
  OBVIOUS
<1>3. /\ pc[t] = "swapHead" /\ pc'[t] = "countDown" /\ step' = step /\ mine' = mine /\ loc' = loc
      /\ head' = [node |-> loc[t].succ, seq |-> head.seq + 1] /\ out' = Append(out, e)
      /\ next' = next /\ top' = top /\ tail' = tail /\ heap' = heap
      /\ pushed' = pushed /\ pops' = pops /\ returned' = returned /\ elem' = elem
  BY <1>0 DEF SwapHead, Step, freeVars, Typed, TypeOK
<1>4. loc[t].succ = m /\ m \in Nodes /\ tail.node # h /\ e = elem[m]
  BY <1>0, <1>1, <1>3, ConstantsApart DEF HeadSide
<1>5. /\ own \in [Nodes -> Pointers] /\ h \in Nodes /\ tail.node \in Nodes /\ Null \notin Nodes /\ End \notin Nodes
      /\ own[h] = End /\ own[tail.node] = End /\ Forest(next, own, pos, h) /\ m # End /\ Null # End
  BY <1>0, <1>1, <1>4, Ends, ConstantsApart DEF Queue
<1>6. /\ head'.node = m /\ head'.seq = head.seq + 1 /\ head.seq \in Nat /\ head' # head
  BY <1>1, <1>3, <1>4 DEF Link
<1> DEFINE own2 == [own EXCEPT ![h] = Null]
<1>7. own2[h] = Null /\ \A n \in Nodes : n # h => own2[n] = own[n]
  BY <1>5
<1>8. Forest(next, own2, pos, m) /\ own[m] = End /\ m # h
  <2>1. Forest(next, own, pos, h) /\ next[h] # End
    BY <1>0, <1>5
  <2>2. Forest(next, own2, pos, next[h]) /\ own[next[h]] = End /\ next[h] # h
    BY <2>1, HeadTaken
  <2> QED  BY <1>0, <2>2
<1> HIDE DEF own2
<1>9. Held(t) = Null /\ Held(t)' = h /\ h # Null /\ ~Prepares(t) /\ ~Prepares(t)'
  BY <1>0, <1>1, <1>3, <1>5 DEF Held, Prepares, PrepareLabels
<1>10. \A u \in Threads \ {t} : (Prepares(u)' <=> Prepares(u)) /\ Held(u)' = Held(u) /\ Held(u) # h
  <2>1. \A u \in Threads : Held(u) # h
    <3> SUFFICES ASSUME NEW u \in Threads, Held(u) = h  PROVE FALSE
      OBVIOUS
    <3>1. Prepares(u)
      BY <1>1, <1>5, <1>9 DEF Apart
    <3>2. own[h] = h
      BY <1>1, <3>1 DEF Held, Queue
    <3> QED  BY <1>5, <3>2
  <2> QED  BY <1>2, <2>1, HeldByOthers
<1>11. Queue(own2, pos, rank)'
  <2>1. own2[tail.node] = End
    BY <1>4, <1>5, <1>7
  <2>2. \A u \in Threads : Prepares(u)' => Prepares(u) /\ loc[u].node # h /\ loc[u].node \in Nodes
    <3>1. \A u \in Threads : Prepares(u) => Held(u) = loc[u].node /\ loc[u].node \in Nodes
      BY Here DEF Held
    <3> QED  BY <1>9, <1>10, <3>1
  <2>3. \A u \in Threads : Prepares(u)' => own2[loc[u].node] = loc[u].node
    BY <1>1, <1>7, <2>2 DEF Queue
  <2>4. \A n \in Nodes : own2[n] = n => \E u \in Threads : Prepares(u)' /\ loc[u].node = n
    <3> SUFFICES ASSUME NEW n \in Nodes, own2[n] = n
                 PROVE  \E u \in Threads : Prepares(u)' /\ loc[u].node = n
      OBVIOUS
    <3>1. own[n] = n
      BY <1>5, <1>7
    <3>2. PICK u \in Threads : Prepares(u) /\ loc[u].node = n
      BY <1>1, <3>1 DEF Queue
    <3> QED  BY <1>9, <1>10, <3>2
  <2>5. \A u \in Threads : pc'[u] \in {"tailSeq", "link"} /\ own2[loc[u].old.node] \in Nodes
          => rank[own2[loc[u].old.node]] < rank[loc[u].node]
    <3> SUFFICES ASSUME NEW u \in Threads, pc'[u] \in {"tailSeq", "link"}, own2[loc[u].old.node] \in Nodes
                 PROVE  rank[own2[loc[u].old.node]] < rank[loc[u].node]
      OBVIOUS
    <3>1. pc[u] \in {"tailSeq", "link"}
      BY <1>2, <1>3 DEF Others
    <3>2. loc[u].old.node \in Nodes
      BY Here DEF Link
    <3>3. own2[loc[u].old.node] = own[loc[u].old.node]
      BY <1>5, <1>7, <3>2
    <3> QED  BY <1>1, <3>1, <3>3 DEF Queue
  <2>6. rank \in [Nodes -> Nat]
    BY <1>1 DEF Queue
  <2> QED  BY <1>3, <1>6, <1>8, <2>1, <2>3, <2>4, <2>5, <2>6 DEF Queue
<1>12. Stacked(s)'
  BY <1>1, <1>3, StackedKept
<1>13. Apart(own2, s)'
  <2>0. \A n \in Nodes : own[n] = Null => own2[n] = Null /\ n # h
    BY <1>5, <1>7
  <2>1. \A i \in 1 .. Len(s) : own2[s[i]] = Null /\ s[i] \notin heap /\ s[i] # h
    <3>1. \A i \in 1 .. Len(s) : own[s[i]] = Null /\ s[i] \notin heap
      BY <1>1 DEF Apart
    <3>2. \A i \in 1 .. Len(s) : s[i] \in Nodes
      BY <1>1 DEF Stacked
    <3> QED  BY <2>0, <3>1, <3>2
  <2>2. (\A n \in heap : own2[n] = Null) /\ h \notin heap
    BY <1>1, <2>0 DEF Apart, Typed, TypeOK
  <2>3. \A u \in Threads : Held(u)' # Null =>
          /\ Held(u)' \in Nodes /\ Held(u)' \notin heap
          /\ \A i \in 1 .. Len(s) : s[i] # Held(u)'
          /\ Prepares(u)' \/ own2[Held(u)'] = Null
    BY <1>1, <1>5, <1>7, <1>9, <1>10, <2>0, <2>1, <2>2 DEF Apart
  <2>4. \A u, v \in Threads : Held(u)' = Held(v)' /\ Held(u)' # Null => u = v
    BY <1>1, <1>9, <1>10 DEF Apart
  <2> QED  BY <1>3, <2>1, <2>2, <2>3, <2>4 DEF Apart
<1>14. Counted(q, s)'
  <2>1. t \in Active
    BY <1>3 DEF Active, PopLabels, InPop
  <2> QED  BY <1>1, <1>2, <1>3, <2>1, CountedKept
<1>15. \A u \in Threads : HeadSide(u)' /\ TailSide(u)' /\ Told(u)'
  <2> SUFFICES ASSUME NEW u \in Threads  PROVE HeadSide(u)' /\ TailSide(u)' /\ Told(u)'
    OBVIOUS
  <2>1. CASE u = t
    BY <1>3, <2>1 DEF HeadSide, TailSide, Told, SincePopSeq
  <2>2. CASE u # t
    BY <1>2, <1>3, <1>6, <2>2, AllSidesKept DEF Advances, Others
  <2> QED  BY <2>1, <2>2
<1>16. \A u \in Threads : FreeSide(u, q, s)'
  <2> SUFFICES ASSUME NEW u \in Threads  PROVE FreeSide(u, q, s)'
    OBVIOUS
  <2>1. CASE u = t
    BY <1>1, <1>3, <2>1 DEF FreeSide, PopSteps, PushSteps
  <2>2. CASE u # t
    <3>1. FreeSide(u, q, s)
      BY DEF Shape
    <3> QED  BY <1>2, <1>3, <2>2, <3>1, FreeSideKept DEF Others
  <2> QED  BY <2>1, <2>2
<1>17. \A n \in Nodes : Queued(own2, n)' <=> Queued(own, n) /\ n # m
  <2> SUFFICES ASSUME NEW n \in Nodes  PROVE Queued(own2, n)' <=> Queued(own, n) /\ n # m
    OBVIOUS
  <2>1. Queued(own2, n)' <=> own2[n] \in Nodes \/ (own2[n] = End /\ n # m)
    BY <1>6 DEF Queued
  <2>2. CASE n = h
    BY <1>0, <1>5, <1>7, <2>1, <2>2 DEF Queued
  <2>3. CASE n # h
    BY <1>0, <1>5, <1>7, <1>8, <2>1, <2>3 DEF Queued
  <2> QED  BY <2>2, <2>3
<1>18. Queued(own, m)
  BY <1>0, <1>8 DEF Queued
<1>19. e \in 1 .. pushed /\ e \notin Delivered /\ pushed \in 0 .. MaxPush /\ out \in Seq(Items)
  BY <1>1, <1>4, <1>18 DEF ElementsOnce, Typed
<1>20. Delivered' = Delivered \cup {e}
  BY <1>3, <1>19 DEF Delivered
<1>21. \A u \in Threads : Coming(u)' <=> Coming(u)
  BY <1>2, <1>3 DEF Others, Coming
<1>22. ElementsOnce(own2)'
  <2>1. \A n \in Nodes : Queued(own2, n)' => elem[n] \in 1 .. pushed /\ elem[n] \notin Delivered'
    BY <1>1, <1>4, <1>17, <1>18, <1>20 DEF ElementsOnce
  <2>2. \A n, k \in Nodes : Queued(own2, n)' /\ Queued(own2, k)' /\ elem[n] = elem[k] => n = k
    BY <1>1, <1>17 DEF ElementsOnce
  <2>3. \A u \in Threads : Coming(u)' =>
           /\ loc[u].item \in 1 .. pushed /\ loc[u].item \notin Delivered'
           /\ \A n \in Nodes : Queued(own2, n)' => elem[n] # loc[u].item
    BY <1>1, <1>4, <1>17, <1>18, <1>20, <1>21 DEF ElementsOnce
  <2>4. \A u, v \in Threads : Coming(u)' /\ Coming(v)' /\ loc[u].item = loc[v].item => u = v
    BY <1>1, <1>21 DEF ElementsOnce
  <2>5. /\ \A i \in DOMAIN out' : out'[i] \in 1 .. pushed
        /\ \A i, j \in DOMAIN out' : i # j => out'[i] # out'[j]
    <3>1. /\ \A i \in DOMAIN out : out[i] \in 1 .. pushed /\ out[i] # e
          /\ \A i, j \in DOMAIN out : i # j => out[i] # out[j]
      BY <1>1, <1>19 DEF ElementsOnce, Delivered
    <3>2. /\ DOMAIN out' = 1 .. Len(out) + 1 /\ DOMAIN out = 1 .. Len(out) /\ out'[Len(out) + 1] = e
          /\ \A i \in 1 .. Len(out) : out'[i] = out[i]
          /\ Len(out) \in Nat
      BY <1>3, <1>19
    <3>3. \A i \in DOMAIN out' : i = Len(out) + 1 \/ (i \in DOMAIN out /\ out'[i] = out[i])
      BY <3>2
    <3>4. out'[Len(out) + 1] = e
      BY <3>2
    <3> QED  BY <1>19, <3>1, <3>3, <3>4
  <2> QED  BY <1>3, <2>1, <2>2, <2>3, <2>4, <2>5 DEF ElementsOnce
<1>23. NothingLost(own2)'
  <2>1. \A i : Placed(own, i) => Placed(own2, i)'
    <3> SUFFICES ASSUME NEW i, Placed(own, i)  PROVE Placed(own2, i)'
      OBVIOUS
    <3>1. CASE i \in Delivered
      BY <1>20, <3>1 DEF Placed
    <3>2. CASE \E n \in Nodes : Queued(own, n) /\ elem[n] = i
      <4>1. PICK n \in Nodes : Queued(own, n) /\ elem[n] = i
        BY <3>2
      <4>2. CASE n = m
        BY <1>4, <1>20, <4>1, <4>2 DEF Placed
      <4>3. CASE n # m
        BY <1>3, <1>17, <4>1, <4>3 DEF Placed
      <4> QED  BY <4>2, <4>3
    <3> QED  BY <3>1, <3>2 DEF Placed
  <2>2. \A u \in Threads \ {t} : pc'[u] = pc[u]
    BY <1>2 DEF Others
  <2>3. \A u \in Threads : pc'[u] = "setNext" \/ Prepares(u)' => elem[loc[u].node] = loc[u].item
    BY <1>1, <1>3, <1>9, <1>10, <2>2 DEF NothingLost
  <2>4. \A u \in Threads : pc'[u] \in {"finish", "countUp"} => Placed(own2, loc[u].item)'
    BY <1>1, <1>3, <2>1, <2>2 DEF NothingLost
  <2>5. \A i \in returned : Placed(own2, i)'
    BY <1>1, <2>1 DEF NothingLost
  <2> QED  BY <1>3, <2>3, <2>4, <2>5 DEF NothingLost
<1>24. out' \in Seq(Items)
  <2>1. e \in Items
    BY <1>19, ConstantsApart DEF Items
  <2> QED  BY <1>3, <1>19, <2>1
<1> QED  BY <1>4, <1>11, <1>12, <1>13, <1>14, <1>15, <1>16, <1>22, <1>23, <1>24 DEF Shape

-----------------------------------------------------------------------------
(* Types. *)
LEMMA ReadTyped ==
  ASSUME Typed, NEW t \in Threads, NEW from, NEW to, Read(t, from, to),
         to \in PushLabels \cup PopLabels \cup {"idle"}, loc' \in [Threads -> Locals]
  PROVE  Typed'
<1>1. pc' \in [Threads -> PushLabels \cup PopLabels \cup {"idle"}]
  BY DEF Read, Step, Typed, TypeOK
<1> QED  BY <1>1 DEF Read, queueVars, freeVars, historyVars, Typed, TypeOK, Free!LTypeOK

(* A step that changes the queue but not the free list. *)
LEMMA StepTyped ==
  ASSUME Typed, NEW t \in Threads, NEW from, NEW to, Step(t, from, to), UNCHANGED freeVars,
         to \in PushLabels \cup PopLabels \cup {"idle"}, loc' \in [Threads -> Locals],
         next' \in [Nodes -> Pointers], elem' \in [Nodes -> Items \cup {NoItem}],
         head' \in Link, tail' \in Link, count' \in Int, heap' \subseteq Nodes,
         pushed' \in 0 .. MaxPush, pops' \in 0 .. MaxPop, out' \in Seq(Items)
  PROVE  Typed'
<1>1. pc' \in [Threads -> PushLabels \cup PopLabels \cup {"idle"}]
  BY DEF Step, Typed, TypeOK
<1> QED  BY <1>1 DEF freeVars, Typed, TypeOK, Free!LTypeOK

LEMMA Locally ==
  ASSUME Typed, NEW t \in Threads
  PROVE  /\ loc \in [Threads -> Locals] /\ loc[t] \in Locals
         /\ next \in [Nodes -> Pointers] /\ elem \in [Nodes -> Items \cup {NoItem}]
         /\ head \in Link /\ tail \in Link /\ count \in Int /\ heap \subseteq Nodes
         /\ pushed \in 0 .. MaxPush /\ pops \in 0 .. MaxPop /\ out \in Seq(Items)
         /\ MaxPush \in Nat /\ MaxPop \in Nat
         /\ loc[t].item \in Items \cup {NoItem} /\ loc[t].node \in Nodes /\ loc[t].old \in Link
         /\ loc[t].old.node \in Nodes /\ loc[t].old.seq \in Nat
         /\ loc[t].succ \in Pointers /\ loc[t].tailSeq \in Nat
         /\ head.node \in Nodes /\ head.seq \in Nat /\ tail.node \in Nodes /\ tail.seq \in Nat
  BY ConstantsApart DEF Typed, TypeOK, Locals, Link

LEMMA NoLocalsTyped == NoLocals \in Locals
  BY ConstantsApart DEF NoLocals, Locals, Link, Pointers

LEMMA PushTyped ==
  ASSUME Typed, NEW own, NEW pos, NEW rank, NEW s, NEW q, Shape(own, pos, rank, s, q),
         NEW t \in Threads, PushStep(t)
  PROVE  Typed'
<1>1. CASE BeginPushItem(t)
  <2>1. pushed + 1 \in Items /\ pushed' \in 0 .. MaxPush
    BY <1>1, Locally DEF BeginPushItem, Items
  <2>2. loc' = [loc EXCEPT ![t] = [loc[t] EXCEPT !.item = pushed + 1]]
    BY <1>1 DEF BeginPushItem
  <2>3. loc' \in [Threads -> Locals]
    BY <2>1, <2>2, Locally DEF Locals
  <2>4. pc' \in [Threads -> PushLabels \cup PopLabels \cup {"idle"}]
    BY <1>1 DEF BeginPushItem, Step, Typed, TypeOK, PushLabels
  <2>5. Free!LTypeOK'
    BY <1>1 DEF BeginPushItem, Free!CallPop, Free!Goto, Free!LTypeOK, Typed, TypeOK
  <2> QED  BY <1>1, <2>1, <2>3, <2>4, <2>5 DEF BeginPushItem, Free!CallPop, Typed, TypeOK
<1>2. CASE GetNode(t)
  <2>1. PICK x : /\ x = IF mine[t] # Null THEN mine[t] ELSE CHOOSE m \in heap : TRUE
                 /\ heap' = heap \ {x} /\ loc' = [loc EXCEPT ![t].node = x]
                 /\ elem' = [elem EXCEPT ![x] = loc[t].item]
                 /\ mine[t] # Null \/ heap # {}
    BY <1>2 DEF GetNode
  <2>2. x \in Nodes
    <3>1. mine[t] \in Nodes \cup {Null} /\ heap \subseteq Nodes
      BY DEF Typed, TypeOK, Free!LTypeOK
    <3> QED  BY <2>1, <3>1
  <2>3. loc' = [loc EXCEPT ![t] = [loc[t] EXCEPT !.node = x]]
    BY <2>1
  <2>4. loc' \in [Threads -> Locals]
    BY <2>2, <2>3, Locally DEF Locals
  <2>5. elem' \in [Nodes -> Items \cup {NoItem}] /\ heap' \subseteq Nodes
    BY <2>1, <2>2, Locally
  <2> QED  BY <1>2, <2>4, <2>5, Locally, StepTyped DEF GetNode, historyVars, PushLabels
<1>3. CASE SetNext(t)
  <2>1. next' \in [Nodes -> Pointers]
    BY <1>3, Locally DEF SetNext, Pointers
  <2> QED  BY <1>3, <2>1, Locally, StepTyped DEF SetNext, historyVars, PushLabels
<1>4. CASE ReadTailNode(t)
  <2>1. loc' = [loc EXCEPT ![t] = [loc[t] EXCEPT !.old = [loc[t].old EXCEPT !.node = tail.node]]]
    BY <1>4 DEF ReadTailNode
  <2>2. [loc[t].old EXCEPT !.node = tail.node] \in Link
    BY Locally DEF Link
  <2>3. loc' \in [Threads -> Locals]
    BY <2>1, <2>2, Locally DEF Locals
  <2> QED  BY <1>4, <2>3, ReadTyped DEF ReadTailNode, PushLabels
<1>5. CASE ReadTailSeq(t)
  <2>1. loc' = [loc EXCEPT ![t] = [loc[t] EXCEPT !.old = [loc[t].old EXCEPT !.seq = tail.seq]]]
    BY <1>5 DEF ReadTailSeq
  <2>2. [loc[t].old EXCEPT !.seq = tail.seq] \in Link
    BY Locally DEF Link
  <2>3. loc' \in [Threads -> Locals]
    BY <2>1, <2>2, Locally DEF Locals
  <2> QED  BY <1>5, <2>3, ReadTyped DEF ReadTailSeq, PushLabels
<1>6. CASE LinkNode(t)
  <2>1. next' \in [Nodes -> Pointers]
    BY <1>6, Locally DEF LinkNode, Pointers
  <2>2. PICK to \in {"finish", "helpRead"} : Step(t, "link", to)
    BY <1>6 DEF LinkNode
  <2> QED  BY <1>6, <2>1, <2>2, Locally, StepTyped DEF LinkNode, historyVars, PushLabels
<1>7. CASE HelpRead(t)
  <2>1. loc' = [loc EXCEPT ![t] = [loc[t] EXCEPT !.succ = next[loc[t].old.node]]]
    BY <1>7 DEF HelpRead
  <2>2. loc' \in [Threads -> Locals]
    BY <2>1, Locally DEF Locals
  <2> QED  BY <1>7, <2>2, ReadTyped DEF HelpRead, PushLabels
<1>8. CASE Help(t)
  <2>1. pc[t] = "help" /\ TailSide(t)
    BY <1>8, Here DEF Help, Step
  <2>2. tail' \in Link
    BY <1>8, <2>1, Locally DEF Help, FinishPush, TailSide, Link
  <2> QED  BY <1>8, <2>2, Locally, StepTyped DEF Help, historyVars, PushLabels
<1>9. CASE FinishOwnPush(t)
  <2>1. tail' \in Link
    BY <1>9, Locally DEF FinishOwnPush, FinishPush, Link
  <2> QED  BY <1>9, <2>1, Locally, StepTyped DEF FinishOwnPush, historyVars, PushLabels
<1>10. CASE CountUp(t)
  <2>1. loc' \in [Threads -> Locals] /\ count' \in Int
    BY <1>10, Locally, NoLocalsTyped DEF CountUp, Return
  <2> QED  BY <1>10, <2>1, Locally, StepTyped DEF CountUp
<1> QED  BY <1>1, <1>2, <1>3, <1>4, <1>5, <1>6, <1>7, <1>8, <1>9, <1>10 DEF PushStep

LEMMA PopTyped ==
  ASSUME Typed, NEW own, NEW pos, NEW rank, NEW s, NEW q, Shape(own, pos, rank, s, q),
         NEW t \in Threads, PopStep(t), Thread(t)
  PROVE  Typed'
<1>1. CASE BeginPopItem(t)
  <2>1. pops' \in 0 .. MaxPop
    BY <1>1, Locally DEF BeginPopItem
  <2> QED  BY <1>1, <2>1, Locally, StepTyped DEF BeginPopItem, queueVars, PopLabels, InPop
<1>2. CASE ReadHeadSeq(t)
  <2>1. loc' = [loc EXCEPT ![t] = [loc[t] EXCEPT !.old = [loc[t].old EXCEPT !.seq = head.seq]]]
    BY <1>2 DEF ReadHeadSeq
  <2>2. [loc[t].old EXCEPT !.seq = head.seq] \in Link
    BY Locally DEF Link
  <2>3. loc' \in [Threads -> Locals]
    BY <2>1, <2>2, Locally DEF Locals
  <2> QED  BY <1>2, <2>3, ReadTyped DEF ReadHeadSeq, PopLabels, InPop
<1>3. CASE ReadHeadNode(t)
  <2>1. loc' = [loc EXCEPT ![t] = [loc[t] EXCEPT !.old = [loc[t].old EXCEPT !.node = head.node]]]
    BY <1>3 DEF ReadHeadNode
  <2>2. [loc[t].old EXCEPT !.node = head.node] \in Link
    BY Locally DEF Link
  <2>3. loc' \in [Threads -> Locals]
    BY <2>1, <2>2, Locally DEF Locals
  <2> QED  BY <1>3, <2>3, ReadTyped DEF ReadHeadNode, PopLabels, InPop
<1>4. CASE ReadPopTailSeq(t)
  <2>1. loc' = [loc EXCEPT ![t] = [loc[t] EXCEPT !.tailSeq = tail.seq]]
    BY <1>4 DEF ReadPopTailSeq
  <2>2. loc' \in [Threads -> Locals]
    BY <2>1, Locally DEF Locals
  <2> QED  BY <1>4, <2>2, ReadTyped DEF ReadPopTailSeq, PopLabels, InPop
<1>5. CASE ReadHeadNext(t)
  <2>1. loc' = [loc EXCEPT ![t] = [loc[t] EXCEPT !.succ = next[loc[t].old.node]]]
    BY <1>5 DEF ReadHeadNext
  <2>2. loc' \in [Threads -> Locals]
    BY <2>1, Locally DEF Locals
  <2> QED  BY <1>5, <2>2, ReadTyped DEF ReadHeadNext, PopLabels, InPop
<1>6. CASE Recheck(t)
  <2>1. PICK to \in {"compare", "headSeq"} : Read(t, "recheck", to) /\ loc' = loc
    BY <1>6 DEF Recheck
  <2> QED  BY <2>1, Locally, ReadTyped DEF PopLabels, InPop
<1>7. CASE Compare(t)
  <2>1. PICK to \in {"idle", "popHelp", "readElem", "headSeq"} :
          Read(t, "compare", to) /\ (loc' = loc \/ Return(t))
    BY <1>7 DEF Compare
  <2>2. loc' \in [Threads -> Locals]
    BY <2>1, Locally, NoLocalsTyped DEF Return
  <2> QED  BY <2>1, <2>2, ReadTyped DEF PopLabels, InPop
<1>8. CASE PopHelp(t)
  <2>1. pc[t] = "popHelp" /\ HeadSide(t)
    BY <1>8, Here DEF PopHelp, Step
  <2>2. loc[t].succ \in Nodes
    BY <2>1 DEF HeadSide
  <2>3. tail' \in Link
    BY <1>8, <2>2, Locally DEF PopHelp, FinishPush, Link
  <2> QED  BY <1>8, <2>3, Locally, StepTyped DEF PopHelp, historyVars, PopLabels, InPop
<1>9. CASE ReadElem(t)
  <2>1. pc[t] = "readElem" /\ HeadSide(t)
    BY <1>9, Here DEF ReadElem, Read, Step
  <2>2. loc[t].succ \in Nodes
    BY <2>1 DEF HeadSide
  <2>3. loc' = [loc EXCEPT ![t] = [loc[t] EXCEPT !.item = elem[loc[t].succ]]]
    BY <1>9 DEF ReadElem
  <2>4. loc' \in [Threads -> Locals]
    BY <2>2, <2>3, Locally DEF Locals
  <2> QED  BY <1>9, <2>4, ReadTyped DEF ReadElem, PopLabels, InPop
<1>10. CASE SwapHead(t)
  <2>1. out' \in Seq(Items) /\ head' \in Link
    <3>1. CASE head = loc[t].old
      <4>1. out' \in Seq(Items) /\ loc[t].succ \in Nodes
        BY <1>10, <3>1, SwapHeadDone
      <4> QED  BY <1>10, <3>1, <4>1, Locally DEF SwapHead, Link
    <3>2. CASE head # loc[t].old
      BY <1>10, <3>2, Locally DEF SwapHead
    <3> QED  BY <3>1, <3>2
  <2>2. PICK to \in {"countDown", "headSeq"} : Step(t, "swapHead", to)
    BY <1>10 DEF SwapHead
  <2> QED  BY <1>10, <2>1, <2>2, Locally, StepTyped DEF SwapHead, PopLabels, InPop
<1>11. CASE CountDown(t)
  <2>1. pc' \in [Threads -> PushLabels \cup PopLabels \cup {"idle"}]
    BY <1>11 DEF CountDown, Step, Typed, TypeOK, PopLabels
  <2>2. Free!LTypeOK'
    BY <1>11, Locally DEF CountDown, Free!CallPush, Free!Goto, Free!LTypeOK, Typed, TypeOK
  <2>3. elem' \in [Nodes -> Items \cup {NoItem}] /\ count' \in Int
    BY <1>11, Locally DEF CountDown
  <2> QED  BY <1>11, <2>1, <2>2, <2>3 DEF CountDown, Free!CallPush, historyVars, Typed, TypeOK
<1>12. CASE FreeNode(t)
  <2>1. loc' \in [Threads -> Locals]
    BY <1>12, Locally, NoLocalsTyped DEF FreeNode, Return
  <2> QED  BY <1>12, <2>1, ReadTyped DEF FreeNode
<1> QED  BY <1>1, <1>2, <1>3, <1>4, <1>5, <1>6, <1>7, <1>8, <1>9, <1>10, <1>11, <1>12 DEF PopStep

LEMMA FreeListTyped ==
  ASSUME Typed, MaxPop < Half, NEW own, NEW pos, NEW rank, NEW s, NEW q, Shape(own, pos, rank, s, q),
         NEW t \in Threads, FreeListStep(t), Thread(t)
  PROVE  Typed'
<1> DEFINE Heads == [node : Nodes \cup {Null}, word : 0 .. Half * Half - 1]
           Labels == {"ready", "push", "pushWord", "pushLink", "pushSwap", "pop", "popWord", "popNext", "popSwap"}
<1>1. /\ UNCHANGED <<elem, head, tail, count, heap, pc, loc, pushed, pops, out>>
  BY DEF FreeListStep, historyVars
<1>2. /\ top \in Heads /\ step \in [Threads -> Labels] /\ mine \in [Threads -> Nodes \cup {Null}]
      /\ seen \in [Threads -> Heads] /\ nxt \in [Threads -> Pointers] /\ next \in [Nodes -> Pointers]
  BY DEF Typed, TypeOK, Free!LTypeOK
<1>3. SUFFICES /\ top' \in Heads /\ step' \in [Threads -> Labels] /\ mine' \in [Threads -> Nodes \cup {Null}]
               /\ seen' \in [Threads -> Heads] /\ nxt' \in [Threads -> Pointers] /\ next' \in [Nodes -> Pointers]
  BY <1>1 DEF Typed, TypeOK, Free!LTypeOK
<1>4. Free!EmptyHead \in Heads
  <2>1. Half \in Nat /\ Half # 0
    BY ConstantsApart
  <2>2. 0 * Half + Half <= Half * Half /\ 0 * Half \in Nat /\ Half * Half \in Nat
    BY <2>1, Times
  <2>3. 0 \in 0 .. Half * Half - 1
    BY <2>1, <2>2
  <2> QED  BY <2>3 DEF Free!EmptyHead
<1>5. ASSUME Free!Drop(t)  PROVE seen' \in [Threads -> Heads] /\ nxt' \in [Threads -> Pointers]
  <2>1. seen' = [seen EXCEPT ![t] = Free!EmptyHead] /\ nxt' = [nxt EXCEPT ![t] = Null]
    BY <1>5 DEF Free!Drop
  <2>2. Null \in Pointers
    BY DEF Pointers
  <2> QED  BY <1>2, <1>4, <2>1, <2>2
<1>6. seen[t] \in Heads /\ mine[t] \in Nodes \cup {Null}
  BY <1>2
<1>7. CASE Free!ReadNode(t)
  <2>1. PICK l \in Labels : step' = [step EXCEPT ![t] = l]
    BY <1>7 DEF Free!ReadNode, Free!Goto
  <2>2. seen' = [seen EXCEPT ![t] = [seen[t] EXCEPT !.node = top.node]]
        /\ UNCHANGED <<next, top, mine, nxt>>
    BY <1>7 DEF Free!ReadNode
  <2>3. [seen[t] EXCEPT !.node = top.node] \in Heads
    BY <1>2, <1>6
  <2> QED  BY <1>2, <2>1, <2>2, <2>3
<1>8. CASE Free!ReadWord(t)
  <2>1. PICK l \in Labels : step' = [step EXCEPT ![t] = l]
    BY <1>8 DEF Free!ReadWord, Free!Goto
  <2>2. UNCHANGED <<next, top, mine>>
    BY <1>8 DEF Free!ReadWord
  <2>3. CASE Free!Drop(t)
    BY <1>2, <1>5, <2>1, <2>2, <2>3
  <2>4. CASE seen' = [seen EXCEPT ![t] = [seen[t] EXCEPT !.word = top.word]] /\ nxt' = nxt
    <3>1. [seen[t] EXCEPT !.word = top.word] \in Heads
      BY <1>2, <1>6
    <3> QED  BY <1>2, <2>1, <2>2, <2>4, <3>1
  <2> QED  BY <1>8, <2>3, <2>4 DEF Free!ReadWord
<1>9. CASE Free!PushLink(t)
  <2>1. /\ step' = [step EXCEPT ![t] = "pushSwap"] /\ next' = [next EXCEPT ![mine[t]] = seen[t].node]
        /\ UNCHANGED <<top, mine, seen, nxt>>
    BY <1>9 DEF Free!PushLink, Free!Goto, Free!locals
  <2>2. seen[t].node \in Pointers
    BY <1>6 DEF Pointers
  <2> QED  BY <1>2, <2>1, <2>2
<1>10. CASE Free!PopNext(t)
  <2>1. /\ step' = [step EXCEPT ![t] = "popSwap"] /\ nxt' = [nxt EXCEPT ![t] = next[seen[t].node]]
        /\ UNCHANGED <<next, top, mine, seen>> /\ step[t] = "popNext"
    BY <1>10 DEF Free!PopNext, Free!Goto
  <2>2. FreeSide(t, q, s)
    BY Here
  <2>3. next[seen[t].node] \in Pointers
    BY <1>2, <2>1, <2>2 DEF FreeSide
  <2> QED  BY <1>2, <2>1, <2>3
<1>11. CASE (Free!PushSwap(t) \/ Free!PopSwap(t)) /\ top # seen[t]
  <2>1. PICK l \in Labels : step' = [step EXCEPT ![t] = l]
    BY <1>11 DEF Free!PushSwap, Free!PopSwap, Free!Goto
  <2>2. UNCHANGED <<next, top, mine, seen, nxt>>
    BY <1>11 DEF Free!PushSwap, Free!PopSwap
  <2> QED  BY <1>2, <2>1, <2>2
<1>12. CASE Free!PushSwap(t) /\ top = seen[t]
  <2>1. /\ step' = [step EXCEPT ![t] = "ready"] /\ UNCHANGED <<next, mine>> /\ Free!Drop(t)
        /\ top' = [node |-> mine[t], word |-> Free!Pushed(seen[t].word)]
    BY <1>12 DEF Free!PushSwap, Free!Goto
  <2>2. Free!Pushed(seen[t].word) \in 0 .. Half * Half - 1
    BY <1>6, WordsTyped
  <2> QED  BY <1>2, <1>5, <1>6, <2>1, <2>2
<1>13. CASE Free!PopSwap(t) /\ top = seen[t]
  <2>1. /\ step' = [step EXCEPT ![t] = "ready"] /\ UNCHANGED next /\ Free!Drop(t)
        /\ mine' = [mine EXCEPT ![t] = seen[t].node]
        /\ top' = [node |-> nxt[t], word |-> Free!Popped(seen[t].word)]
    BY <1>13 DEF Free!PopSwap, Free!Goto
  <2>2. Free!Popped(seen[t].word) \in 0 .. Half * Half - 1
    BY <1>6, WordsTyped
  <2>3. nxt[t] \in Nodes \cup {Null}
    <3>1. Stacked(Tail(s))'
      BY <1>13, PopSwapDone DEF Shape
    <3>2. PICK r : r = Tail(s)
      OBVIOUS
    <3>3. r \in Seq(Nodes) /\ top'.node = IF Len(r) = 0 THEN Null ELSE r[1]
      BY <3>1, <3>2 DEF Stacked
    <3>4. top'.node \in Nodes \cup {Null}
      BY <3>3
    <3> QED  BY <2>1, <3>4
  <2> QED  BY <1>2, <1>5, <1>6, <2>1, <2>2, <2>3
<1> QED  BY <1>7, <1>8, <1>9, <1>10, <1>11, <1>12, <1>13 DEF FreeListStep, Free!ListStep

-----------------------------------------------------------------------------
(* The invariant holds at first and every step keeps it.                   *)
IInv == Typed /\ Shaped

LEMMA PushKeepsShape ==
  ASSUME Typed, NEW own, NEW pos, NEW rank, NEW s, NEW q, Shape(own, pos, rank, s, q),
         NEW t \in Threads, Thread(t), PushStep(t)
  PROVE  Typed' /\ \E own2, pos2, rank2 : Shape(own2, pos2, rank2, s, q)'
<1>1. Typed'
  BY PushTyped
<1>2. CASE BeginPushItem(t)
  BY <1>1, <1>2, BeginPushItemStep
<1>3. CASE GetNode(t)
  BY <1>1, <1>3, GetNodeStep
<1>4. CASE SetNext(t)
  BY <1>1, <1>4, SetNextStep
<1>5. CASE ReadTailNode(t)
  BY <1>1, <1>5, ReadTailNodeStep
<1>6. CASE ReadTailSeq(t)
  BY <1>1, <1>6, ReadTailSeqStep
<1>7. CASE LinkNode(t) /\ next[loc[t].old.node] = End
  BY <1>1, <1>7, LinkNodeDone
<1>8. CASE LinkNode(t) /\ next[loc[t].old.node] # End
  BY <1>1, <1>8, LinkNodeFails
<1>9. CASE HelpRead(t)
  BY <1>1, <1>9, HelpReadStep
<1>10. CASE Help(t)
  BY <1>1, <1>10, HelpStep
<1>11. CASE FinishOwnPush(t)
  BY <1>1, <1>11, FinishOwnPushStep
<1>12. CASE CountUp(t)
  BY <1>1, <1>12, CountUpStep
<1> QED  BY <1>1, <1>2, <1>3, <1>4, <1>5, <1>6, <1>7, <1>8, <1>9, <1>10, <1>11, <1>12 DEF PushStep

LEMMA PopKeepsShape ==
  ASSUME Typed, NEW own, NEW pos, NEW rank, NEW s, NEW q, Shape(own, pos, rank, s, q),
         NEW t \in Threads, Thread(t), PopStep(t)
  PROVE  Typed' /\ \E own2, pos2, rank2 : Shape(own2, pos2, rank2, s, q)'
<1>1. Typed'
  BY PopTyped
<1>2. CASE BeginPopItem(t)
  BY <1>1, <1>2, BeginPopItemStep
<1>3. CASE ReadHeadSeq(t)
  BY <1>1, <1>3, ReadHeadSeqStep
<1>4. CASE ReadHeadNode(t)
  BY <1>1, <1>4, ReadHeadNodeStep
<1>5. CASE ReadPopTailSeq(t)
  BY <1>1, <1>5, ReadPopTailSeqStep
<1>6. CASE ReadHeadNext(t)
  BY <1>1, <1>6, ReadHeadNextStep
<1>7. CASE Recheck(t)
  BY <1>1, <1>7, RecheckStep
<1>8. CASE Compare(t)
  BY <1>1, <1>8, CompareStep
<1>9. CASE PopHelp(t)
  BY <1>1, <1>9, PopHelpStep
<1>10. CASE ReadElem(t)
  BY <1>1, <1>10, ReadElemStep
<1>11. CASE SwapHead(t) /\ head = loc[t].old
  BY <1>1, <1>11, SwapHeadDone
<1>12. CASE SwapHead(t) /\ head # loc[t].old
  BY <1>1, <1>12, SwapHeadFails
<1>13. CASE CountDown(t)
  BY <1>1, <1>13, CountDownStep
<1>14. CASE FreeNode(t)
  BY <1>1, <1>14, FreeNodeStep
<1> QED  BY <1>1, <1>2, <1>3, <1>4, <1>5, <1>6, <1>7, <1>8, <1>9, <1>10, <1>11, <1>12, <1>13, <1>14
         DEF PopStep

LEMMA ShapeNext ==
  ASSUME IInv, MaxPop < Half, NEW t \in Threads, Thread(t)
  PROVE  IInv'
<1>0. PICK own, pos, rank, s, q : Shape(own, pos, rank, s, q)
  BY DEF IInv, Shaped
<1>1. Typed
  BY DEF IInv
<1>2. CASE PushStep(t)
  BY <1>0, <1>1, <1>2, PushKeepsShape DEF IInv, Shaped
<1>3. CASE PopStep(t)
  BY <1>0, <1>1, <1>3, PopKeepsShape DEF IInv, Shaped
<1>4. CASE FreeListStep(t)
  <2>1. Typed'
    BY <1>0, <1>1, <1>4, FreeListTyped
  <2> QED  BY <1>0, <1>1, <1>4, <2>1, FreeListSteps DEF IInv, Shaped
<1> QED  BY <1>2, <1>3, <1>4 DEF Thread

LEMMA Stutter ==
  ASSUME IInv, UNCHANGED vars
  PROVE  IInv'
<1>0. PICK own, pos, rank, s, q : Shape(own, pos, rank, s, q)
  BY DEF IInv, Shaped
<1>1. /\ next' = next /\ elem' = elem /\ head' = head /\ tail' = tail /\ count' = count /\ heap' = heap
      /\ pc' = pc /\ loc' = loc /\ top' = top /\ step' = step /\ mine' = mine /\ seen' = seen /\ nxt' = nxt
      /\ pushed' = pushed /\ pops' = pops /\ out' = out /\ returned' = returned /\ emptied' = emptied
  BY DEF vars, queueVars, freeVars, historyVars
<1>2. Typed'
  BY <1>1 DEF IInv, Typed, TypeOK, Free!LTypeOK
<1>3. Queue(own, pos, rank)' /\ Stacked(s)' /\ Counted(q, s)'
  BY <1>0, <1>1 DEF Shape, Queue, Prepares, Stacked, Counted, Active
<1>4. Apart(own, s)'
  <2>1. \A u : Held(u)' = Held(u) /\ (Prepares(u)' <=> Prepares(u))
    BY <1>1 DEF Held, Prepares
  <2> QED  BY <1>0, <1>1, <2>1 DEF Shape, Apart
<1>5. \A u \in Threads : HeadSide(u)' /\ TailSide(u)' /\ FreeSide(u, q, s)' /\ Told(u)'
  BY <1>0, <1>1 DEF Shape, HeadSide, TailSide, FreeSide, Told
<1>6. ElementsOnce(own)' /\ NothingLost(own)'
  BY <1>0, <1>1 DEF Shape, ElementsOnce, NothingLost, Queued, Delivered, Coming, Prepares, Placed
<1> QED  BY <1>2, <1>3, <1>4, <1>5, <1>6 DEF IInv, Shaped, Shape

LEMMA ShapeInit ==
  ASSUME Init
  PROVE  IInv
<1>1. /\ next = [n \in Nodes |-> IF n = Dummy THEN End ELSE Null] /\ elem = [n \in Nodes |-> NoItem]
      /\ head = [node |-> Dummy, seq |-> 0] /\ tail = [node |-> Dummy, seq |-> 0] /\ count = 0
      /\ heap = Nodes \ {Dummy}
      /\ pc = [t \in Threads |-> "idle"] /\ loc = [t \in Threads |-> NoLocals]
      /\ top = Free!EmptyHead /\ step = [t \in Threads |-> "ready"] /\ mine = [t \in Threads |-> Null]
      /\ seen = [t \in Threads |-> Free!EmptyHead] /\ nxt = [t \in Threads |-> Null]
      /\ pushed = 0 /\ pops = 0 /\ out = <<>> /\ returned = {}
  BY DEF Init, Free!LInit
<1>2. Typed
  <2>1. Free!EmptyHead \in [node : Nodes \cup {Null}, word : 0 .. Half * Half - 1]
    <3>1. Half \in Nat /\ Half # 0
      BY ConstantsApart
    <3>2. 0 * Half + Half <= Half * Half /\ 0 * Half \in Nat /\ Half * Half \in Nat
      BY <3>1, Times
    <3>3. 0 \in 0 .. Half * Half - 1
      BY <3>1, <3>2
    <3> QED  BY <3>3 DEF Free!EmptyHead
  <2>2. Free!LTypeOK
    BY <1>1, <2>1 DEF Free!LTypeOK
  <2>3. loc \in [Threads -> Locals]
    BY <1>1, NoLocalsTyped
  <2> QED  BY <1>1, <2>2, <2>3, ConstantsApart DEF Typed, TypeOK, Pointers, Link
<1> DEFINE own == [n \in Nodes |-> IF n = Dummy THEN End ELSE Null]
           pos == [n \in Nodes |-> 0]
           rank == [n \in Nodes |-> 0]
<1>3. \A t \in Threads : pc[t] = "idle" /\ step[t] = "ready" /\ Held(t) = Null /\ ~Prepares(t)
  BY <1>1 DEF Held, Prepares, PrepareLabels
<1>4. Queue(own, pos, rank)
  <2>1. Forest(next, own, pos, Dummy)
    BY <1>1, ConstantsApart DEF Forest, Pointers
  <2>2. \A n \in Nodes : own[n] # n
    BY ConstantsApart
  <2> QED  BY <1>1, <1>3, <2>1, <2>2, ConstantsApart DEF Queue
<1>5. Stacked(<<>>)
  BY <1>1 DEF Stacked, Free!EmptyHead
<1>6. Apart(own, <<>>)
  BY <1>1, <1>3 DEF Apart
<1>7. Counted(0, <<>>)
  <2>1. Active = {}
    BY <1>3 DEF Active, PopLabels, InPop
  <2>2. IsFiniteSet(Active) /\ Cardinality(Active) = 0
    BY <2>1, FS_EmptySet
  <2>3. Word(0, 0) = 0
    BY ConstantsApart DEF Word
  <2> QED  BY <1>1, <2>2, <2>3 DEF Counted, Free!EmptyHead
<1>8. \A t \in Threads : HeadSide(t) /\ TailSide(t) /\ FreeSide(t, 0, <<>>) /\ Told(t)
  BY <1>3 DEF HeadSide, TailSide, FreeSide, Told, SincePopSeq, PopSteps, PushSteps
<1>9. ElementsOnce(own)
  <2>1. \A n \in Nodes : ~Queued(own, n)
    BY <1>1, ConstantsApart DEF Queued
  <2> QED  BY <1>1, <1>3, <2>1 DEF ElementsOnce, Coming
<1>10. NothingLost(own)
  BY <1>1, <1>3 DEF NothingLost
<1> HIDE DEF own, pos, rank
<1>11. Shape(own, pos, rank, <<>>, 0)
  BY <1>4, <1>5, <1>6, <1>7, <1>8, <1>9, <1>10 DEF Shape
<1> QED  BY <1>2, <1>11 DEF IInv, Shaped

(* The inductive invariant, for any number of threads, nodes and pushes:   *)
(* however the swaps of PushItem and PopItem interleave and whichever      *)
(* nodes come back in between, the nodes stay in chains without a cycle.   *)
THEOREM QueueInductive ==
  ASSUME MaxPop < Half
  PROVE  Spec => []IInv
<1>1. Init => IInv
  BY ShapeInit
<1>2. IInv /\ [Next]_vars => IInv'
  BY ShapeNext, Stutter DEF Next
<1> QED  BY <1>1, <1>2, PTL DEF Spec

-----------------------------------------------------------------------------
(* The types, for any number of threads and nodes: the two halves of a     *)
(* link that is read and swapped word by word never hold what they cannot, *)
(* though words of the queue and of the free list overlay.                 *)
THEOREM Typing ==
  ASSUME MaxPop < Half
  PROVE  Spec => []TypeOK
<1>1. IInv => TypeOK
  BY DEF IInv, Typed
<1> QED  BY <1>1, QueueInductive, PTL

(* PopItem says that the queue is empty only if it was at some instant of  *)
(* the call: Compare finds End() only behind a node that was the head when *)
(* its pNext was read.                                                     *)
THEOREM EmptyPop ==
  ASSUME MaxPop < Half
  PROVE  Spec => EmptyMeansEmpty
<1> DEFINE Seen == \A t \in Threads : pc[t] = "compare" /\ pc'[t] = "idle" => t \in emptied
<1>1. IInv /\ [Next]_vars => [Seen]_vars
  <2> SUFFICES ASSUME IInv, Next, NEW t \in Threads, pc[t] = "compare", pc'[t] = "idle"
               PROVE  t \in emptied
    OBVIOUS
  <2>1. PICK u \in Threads : Thread(u)
    BY DEF Next
  <2>2. Typed /\ Others(u)
    BY <2>1, OneThread DEF IInv
  <2>3. u = t
    BY <2>2 DEF Others
  <2>4. Compare(t)
    <3>1. pc \in [Threads -> PushLabels \cup PopLabels \cup {"idle"}]
      BY <2>2 DEF Typed, TypeOK
    <3>2. ~PushStep(t)
      BY DEF PushStep, BeginPushItem, GetNode, SetNext, ReadTailNode, ReadTailSeq, LinkNode,
         HelpRead, Help, FinishOwnPush, CountUp, Step, Read
    <3>3. ~FreeListStep(t)
      BY DEF FreeListStep
    <3>4. PopStep(t)
      BY <2>1, <2>3, <3>2, <3>3 DEF Thread
    <3> QED  BY <3>1, <3>4 DEF PopStep, BeginPopItem, ReadHeadSeq, ReadHeadNode, ReadPopTailSeq,
                ReadHeadNext, Recheck, PopHelp, ReadElem, SwapHead, CountDown, FreeNode, Step, Read
  <2>5. loc[t].succ = End
    <3>1. pc \in [Threads -> PushLabels \cup PopLabels \cup {"idle"}]
      BY <2>2 DEF Typed, TypeOK
    <3> QED  BY <2>4, <3>1 DEF Compare, Read, Step
  <2>6. Told(t)
    BY DEF IInv, Shaped, Shape
  <2> QED  BY <2>5, <2>6 DEF Told
<1> QED  BY <1>1, QueueInductive, PTL DEF Spec, EmptyMeansEmpty

-----------------------------------------------------------------------------
(* The nodes as the properties read them: one after the other from v on.   *)
ReadOn(at, v) ==
  /\ at \in [0 .. Cardinality(Nodes) -> Pointers] /\ at[0] = v
  /\ \A i \in 1 .. Cardinality(Nodes) :
       at[i] = IF at[i - 1] \in Nodes THEN next[at[i - 1]] ELSE Null
Chain(v) == CHOOSE at : at = [i \in 0 .. Cardinality(Nodes) |->
                                IF i = 0 THEN v
                                ELSE LET p == at[i - 1] IN IF p \in Nodes THEN next[p] ELSE Null]

LEMMA ChainRead ==
  ASSUME next \in [Nodes -> Pointers], NEW v \in Pointers
  PROVE  ReadOn(Chain(v), v)
<1> DEFINE N == Cardinality(Nodes)
           Next1(p) == IF p \in Nodes THEN next[p] ELSE Null
           Def(g) == g = [i \in 0 .. N |->
                            IF i = 0 THEN v
                            ELSE LET p == g[i - 1] IN IF p \in Nodes THEN next[p] ELSE Null]
           at == CHOOSE g : Def(g)
<1>1. N \in Nat
  BY ConstantsApart, FS_CardinalityType
<1>2. \A p \in Pointers : Next1(p) \in Pointers
  BY DEF Pointers
<1>3. PICK h \in [0 .. N -> Pointers] : h[0] = v /\ \A i \in 1 .. N : h[i] = Next1(h[i - 1])
  <2> DEFINE F == [x \in (1 .. N) \X Pointers |-> Next1(x[2])]
  <2>1. F \in [(1 .. N) \X Pointers -> Pointers]
    BY <1>2
  <2>2. \A i \in 1 .. N, p \in Pointers : F[<<i, p>>] = Next1(p)
    OBVIOUS
  <2> HIDE DEF F, N, Next1
  <2>3. \E h : Goes(h, N, Pointers, v, F)
    BY <1>1, <2>1, StepsExist
  <2>4. PICK h : Goes(h, N, Pointers, v, F)
    BY <2>3
  <2>5. h \in [0 .. N -> Pointers] /\ h[0] = v /\ \A i \in 1 .. N : h[i] = F[<<i, h[i - 1]>>]
    BY <2>4 DEF Goes
  <2>6. \A i \in 1 .. N : h[i - 1] \in Pointers
    BY <1>1, <2>5
  <2> QED  BY <2>2, <2>5, <2>6
<1>4. Def(h)
  <2>1. h = [i \in 0 .. N |-> h[i]]
    OBVIOUS
  <2>2. \A i \in 0 .. N : h[i] = IF i = 0 THEN v
          ELSE LET p == h[i - 1] IN IF p \in Nodes THEN next[p] ELSE Null
    BY <1>1, <1>3
  <2> HIDE DEF N
  <2>3. [i \in 0 .. N |-> h[i]] = [i \in 0 .. N |-> IF i = 0 THEN v
          ELSE LET p == h[i - 1] IN IF p \in Nodes THEN next[p] ELSE Null]
    BY <2>2
  <2> QED  BY <2>1, <2>3
<1>5. Def(at)
  BY <1>4
<1>6. at = Chain(v)
  BY DEF Chain
<1> HIDE DEF at
<1>7. /\ \A i \in 0 .. N : i = 0 => at[i] = v
      /\ \A i \in 0 .. N : i # 0 => at[i] = Next1(at[i - 1])
  BY <1>5
<1>8. 0 \in 0 .. N /\ \A i \in 1 .. N : i \in 0 .. N /\ i # 0 /\ i - 1 \in 0 .. N
  BY <1>1
<1>9. at[0] = v /\ \A i \in 1 .. N : at[i] = Next1(at[i - 1])
  BY <1>7, <1>8
<1>10. at \in [0 .. N -> Pointers]
  <2>1. at = [i \in 0 .. N |-> at[i]]
    BY <1>5
  <2>2. \A i \in 0 .. N : at[i] \in Pointers
    <3> HIDE DEF N, Next1
    <3> DEFINE P == {i \in 0 .. N : at[i] \in Pointers}
    <3>1. 0 \in P
      BY <1>8, <1>9
    <3>2. \A i \in 0 .. N - 1 : i \in P => i + 1 \in P
      <4> SUFFICES ASSUME NEW i \in 0 .. N - 1, at[i] \in Pointers
                   PROVE  i + 1 \in 0 .. N /\ at[i + 1] \in Pointers
        OBVIOUS
      <4>1. i + 1 \in 1 .. N /\ i + 1 \in 0 .. N /\ i + 1 - 1 = i
        BY <1>1
      <4>2. at[i + 1] = Next1(at[i])
        BY <1>9, <4>1
      <4> QED  BY <1>2, <4>1, <4>2
    <3> HIDE DEF P
    <3>3. 0 .. N \subseteq P
      BY <1>1, <3>1, <3>2, InductionUpTo
    <3> QED  BY <3>3 DEF P
  <2> HIDE DEF N
  <2> QED  BY <2>1, <2>2
<1> QED  BY <1>6, <1>9, <1>10 DEF ReadOn

LEMMA FromRead ==
  ASSUME next \in [Nodes -> Pointers], NEW n \in Nodes
  PROVE  From(n) = {Chain(n)[i] : i \in 0 .. Cardinality(Nodes)} \cap Nodes
<1>1. n \in Pointers
  BY DEF Pointers
<1>2. DOMAIN Chain(n) = 0 .. Cardinality(Nodes)
  BY <1>1, ChainRead DEF ReadOn
<1>3. From(n) = {Chain(n)[i] : i \in DOMAIN Chain(n)} \cap Nodes
  BY DEF From, Chain
<1> QED  BY <1>2, <1>3

LEMMA StackRead ==
  ASSUME next \in [Nodes -> Pointers], top.node \in Pointers
  PROVE  Free!Stack = [i \in 1 .. Cardinality({j \in 0 .. Cardinality(Nodes) : Chain(top.node)[j] \in Nodes})
                         |-> Chain(top.node)[i - 1]]
<1>1. DOMAIN Chain(top.node) = 0 .. Cardinality(Nodes)
  BY ChainRead DEF ReadOn
<1>2. Free!Stack = [i \in 1 .. Cardinality({j \in DOMAIN Chain(top.node) : Chain(top.node)[j] \in Nodes})
                      |-> Chain(top.node)[i - 1]]
  BY DEF Free!Stack, Chain, Free!Cardinality, Cardinality
<1> QED  BY <1>1, <1>2

(* A chain has a node at every place before the place of one of its nodes. *)
LEMMA ChainFull ==
  ASSUME NEW nx, NEW own, NEW pos, NEW h, Forest(nx, own, pos, h),
         NEW n \in Nodes, NEW m \in Nodes, own[n] # Null, own[m] = own[n], NEW d \in Nat,
         pos[m] = pos[n] + d
  PROVE  \A i \in 0 .. d : \E k \in Nodes : own[k] = own[n] /\ pos[k] = pos[n] + i
<1>1. pos[n] \in Nat /\ pos[m] \in Nat
  BY DEF Forest
<1> DEFINE P == {i \in 0 .. d : \E k \in Nodes : own[k] = own[n] /\ pos[k] = pos[n] + i}
<1>2. 0 \in P
  BY <1>1
<1>3. \A i \in 0 .. d - 1 : i \in P => i + 1 \in P
  <2> SUFFICES ASSUME NEW i \in 0 .. d - 1, i \in P  PROVE i + 1 \in P
    OBVIOUS
  <2>1. PICK k \in Nodes : own[k] = own[n] /\ pos[k] = pos[n] + i
    OBVIOUS
  <2>2. nx[k] # End
    <3>1. own[k] # Null /\ own[m] = own[k]
      BY <2>1
    <3>2. nx[k] = End => pos[m] <= pos[k]
      BY <3>1 DEF Forest
    <3> QED  BY <1>1, <2>1, <3>2
  <2>3. nx[k] \in Nodes /\ own[nx[k]] = own[n] /\ pos[nx[k]] = pos[n] + i + 1
    BY <2>1, <2>2, ForestNext
  <2>4. i + 1 \in 0 .. d /\ pos[nx[k]] = pos[n] + (i + 1)
    BY <1>1, <2>3
  <2> QED  BY <2>3, <2>4
<1> HIDE DEF P
<1>4. 0 .. d \subseteq P
  BY <1>2, <1>3, InductionUpTo
<1> QED  BY <1>4 DEF P

(* So it has no more places than there are nodes. *)
LEMMA ChainShort ==
  ASSUME NEW nx, NEW own, NEW pos, NEW h, Forest(nx, own, pos, h),
         NEW n \in Nodes, NEW m \in Nodes, own[n] # Null, own[m] = own[n], NEW d \in Nat,
         pos[m] = pos[n] + d
  PROVE  d <= Cardinality(Nodes)
<1>1. \A i \in 0 .. d : \E k \in Nodes : own[k] = own[n] /\ pos[k] = pos[n] + i
  BY ChainFull
<1>2. PICK f \in [0 .. d -> Nodes] : \A i \in 0 .. d : pos[f[i]] = pos[n] + i
  <2> DEFINE g == [i \in 0 .. d |-> CHOOSE k \in Nodes : own[k] = own[n] /\ pos[k] = pos[n] + i]
  <2>1. \A i \in 0 .. d : g[i] \in Nodes /\ pos[g[i]] = pos[n] + i
    BY <1>1
  <2>2. g \in [0 .. d -> Nodes]
    BY <2>1
  <2> HIDE DEF g
  <2> QED  BY <2>1, <2>2
<1>3. pos[n] \in Nat
  BY DEF Forest
<1>4. f \in Injection(0 .. d, Nodes)
  <2>1. \A i, j \in 0 .. d : f[i] = f[j] => i = j
    BY <1>2, <1>3
  <2> QED  BY <2>1 DEF Injection, IsInjective
<1>5. IsFiniteSet(Nodes) /\ Cardinality(Nodes) \in Nat
  BY ConstantsApart, FS_CardinalityType
<1>6. Cardinality(0 .. d) <= Cardinality(Nodes)
  BY <1>4, <1>5, FS_Injection
<1>7. Cardinality(0 .. d) = d + 1
  BY FS_Interval
<1> QED  BY <1>5, <1>6, <1>7

(* Whoever reads the list from a node on meets all nodes behind it. *)
LEMMA ChainMet ==
  ASSUME NEW own, NEW pos, Forest(next, own, pos, head.node),
         NEW n \in Nodes, NEW m \in Nodes, own[n] # Null, own[m] = own[n], pos[n] <= pos[m]
  PROVE  m \in From(n)
<1>1. pos[n] \in Nat /\ pos[m] \in Nat /\ next \in [Nodes -> Pointers]
  BY DEF Forest
<1>2. PICK d \in Nat : pos[m] = pos[n] + d
  <2>1. pos[m] - pos[n] \in Nat /\ pos[m] = pos[n] + (pos[m] - pos[n])
    BY <1>1
  <2> QED  BY <2>1
<1>3. d <= Cardinality(Nodes) /\ Cardinality(Nodes) \in Nat
  BY <1>2, ChainShort, ConstantsApart, FS_CardinalityType
<1>4. PICK at : at = Chain(n)
  OBVIOUS
<1>5. ReadOn(at, n)
  BY <1>1, <1>4, ChainRead DEF Pointers
<1> DEFINE P == {i \in 0 .. d : at[i] \in Nodes /\ own[at[i]] = own[n] /\ pos[at[i]] = pos[n] + i}
<1>6. 0 \in P
  BY <1>1, <1>5 DEF ReadOn
<1>7. \A i \in 0 .. d - 1 : i \in P => i + 1 \in P
  <2> SUFFICES ASSUME NEW i \in 0 .. d - 1, i \in P  PROVE i + 1 \in P
    OBVIOUS
  <2>1. PICK k \in Nodes : k = at[i] /\ own[k] = own[n] /\ pos[k] = pos[n] + i
    OBVIOUS
  <2>2. next[k] # End
    <3>1. own[k] # Null /\ own[m] = own[k]
      BY <2>1
    <3>2. next[k] = End => pos[m] <= pos[k]
      BY <3>1 DEF Forest
    <3> QED  BY <1>1, <1>2, <2>1, <3>2
  <2>3. next[k] \in Nodes /\ own[next[k]] = own[n] /\ pos[next[k]] = pos[n] + i + 1
    BY <2>1, <2>2, ForestNext
  <2>4. i + 1 \in 1 .. Cardinality(Nodes) /\ i + 1 - 1 = i /\ i + 1 \in 0 .. d
    BY <1>3
  <2>5. at[i + 1] = next[k]
    BY <1>5, <2>1, <2>4 DEF ReadOn
  <2>6. pos[next[k]] = pos[n] + (i + 1)
    BY <1>1, <2>3
  <2> QED  BY <2>3, <2>4, <2>5, <2>6
<1> HIDE DEF P
<1>8. 0 .. d \subseteq P
  BY <1>6, <1>7, InductionUpTo
<1>9. d \in P /\ d \in 0 .. Cardinality(Nodes)
  BY <1>3, <1>8
<1>10. at[d] \in Nodes /\ own[at[d]] = own[n] /\ pos[at[d]] = pos[m]
  BY <1>2, <1>9 DEF P
<1>11. at[d] = m
  <2>1. own[m] # Null /\ own[at[d]] = own[m]
    BY <1>10
  <2> QED  BY <1>10, <2>1 DEF Forest
<1>12. m \in {at[i] : i \in 0 .. Cardinality(Nodes)}
  BY <1>9, <1>11
<1> QED  BY <1>1, <1>4, <1>12, FromRead

(* The invariant implies what the property says of where an element is. *)
LEMMA PlacedReachable ==
  ASSUME NEW own, NEW pos, NEW rank, Queue(own, pos, rank), NEW i, Placed(own, i)
  PROVE  \/ i \in Delivered
         \/ \E n \in Linked \cup UNION {From(p) : p \in Preparing} : elem[n] = i
<1> SUFFICES ASSUME NEW m \in Nodes, Queued(own, m), elem[m] = i
             PROVE  m \in Linked \cup UNION {From(p) : p \in Preparing}
  BY DEF Placed
<1>1. /\ Forest(next, own, pos, head.node) /\ head.node \in Nodes /\ own[head.node] = End
      /\ pos[m] \in Nat
  BY DEF Queue, Forest
<1>2. CASE own[m] = End /\ m # head.node
  <2>1. pos[head.node] <= pos[m]
    BY <1>1, <1>2 DEF Forest
  <2>2. m \in From(head.node)
    BY <1>1, <1>2, <2>1, ChainMet, ConstantsApart
  <2> QED  BY <1>2, <2>2 DEF Linked
<1>3. CASE own[m] \in Nodes
  <2>1. PICK c \in Nodes : c = own[m]
    BY <1>3
  <2>2. own[c] = c /\ pos[c] = 0
    BY <1>1, <2>1 DEF Forest
  <2>3. PICK t \in Threads : Prepares(t) /\ loc[t].node = c
    BY <2>2 DEF Queue
  <2>4. c \in Preparing
    BY <2>3 DEF Preparing, Prepares, PrepareLabels
  <2>5. m \in From(c)
    BY <1>1, <2>1, <2>2, ChainMet, ConstantsApart
  <2> QED  BY <2>4, <2>5
<1> QED  BY <1>2, <1>3 DEF Queued

(* No element is lost and none is delivered twice, for any number of       *)
(* threads and nodes: whatever a PushItem has returned for is delivered or *)
(* hangs on the queue or behind a node that a thread is about to link, and *)
(* the swap of m_Head never takes an element off again.                    *)
THEOREM NoneLostNoneTwice ==
  ASSUME MaxPop < Half
  PROVE  Spec => []EachItemOnce
<1>1. IInv => EachItemOnce
  <2> SUFFICES ASSUME IInv  PROVE EachItemOnce
    OBVIOUS
  <2>1. PICK own, pos, rank, s, q : Shape(own, pos, rank, s, q)
    BY DEF IInv, Shaped
  <2>2. Queue(own, pos, rank) /\ ElementsOnce(own) /\ NothingLost(own)
    BY <2>1 DEF Shape
  <2>3. \A i \in returned : Placed(own, i)
    BY <2>2 DEF NothingLost
  <2>4. \A i \in returned : \/ i \in Delivered
                            \/ \E n \in Linked \cup UNION {From(p) : p \in Preparing} : elem[n] = i
    BY <2>2, <2>3, PlacedReachable
  <2>5. \A i, j \in DOMAIN out : i # j => out[i] # out[j]
    BY <2>2 DEF ElementsOnce
  <2> QED  BY <2>4, <2>5 DEF EachItemOnce
<1> QED  BY <1>1, QueueInductive, PTL

(* What the property reads off the links is the list of the invariant.     *)
LEMMA StackIs ==
  ASSUME next \in [Nodes -> Pointers], NEW s, Stacked(s)
  PROVE  Free!Stack = s
<1> DEFINE N == Cardinality(Nodes)
           L == Len(s)
<1>1. /\ s \in Seq(Nodes) /\ top.node = IF L = 0 THEN Null ELSE s[1]
      /\ \A i, j \in 1 .. L : s[i] = s[j] => i = j
      /\ \A i \in 1 .. L : next[s[i]] = IF i = L THEN Null ELSE s[i + 1]
  BY DEF Stacked
<1>2. N \in Nat /\ L \in Nat /\ IsFiniteSet(Nodes)
  BY <1>1, ConstantsApart, FS_CardinalityType
<1>3. L <= N
  <2>1. s \in [1 .. L -> Nodes]
    BY <1>1
  <2>2. s \in Injection(1 .. L, Nodes)
    BY <1>1, <2>1 DEF Injection, IsInjective
  <2>3. Cardinality(1 .. L) <= N
    BY <1>2, <2>2, FS_Injection
  <2>4. Cardinality(1 .. L) = L
    <3>1. \A k \in Nat : Cardinality(1 .. k) = k
      BY FS_Interval
    <3> QED  BY <1>2, <3>1
  <2> QED  BY <2>3, <2>4
<1>4. top.node \in Pointers
  BY <1>1, <1>2 DEF Pointers
<1>5. PICK at : at = Chain(top.node)
  OBVIOUS
<1>6. ReadOn(at, top.node)
  BY <1>4, <1>5, ChainRead
<1>7. at[0] = top.node /\ \A i \in 1 .. N : at[i] = IF at[i - 1] \in Nodes THEN next[at[i - 1]] ELSE Null
  BY <1>6 DEF ReadOn
<1> DEFINE P == {i \in 0 .. N : at[i] = IF i < L THEN s[i + 1] ELSE Null}
<1> HIDE DEF N, L
<1>8. 0 \in P
  <2>1. L = 0 => ~(0 < L)
    OBVIOUS
  <2>2. L # 0 => 0 < L /\ 0 + 1 = 1
    BY <1>2
  <2> QED  BY <1>1, <1>2, <1>7, <2>1, <2>2
<1>9. \A i \in 0 .. N - 1 : i \in P => i + 1 \in P
  <2> SUFFICES ASSUME NEW i \in 0 .. N - 1, i \in P  PROVE i + 1 \in P
    OBVIOUS
  <2>1. i + 1 \in 1 .. N /\ i + 1 \in 0 .. N /\ i + 1 - 1 = i
    BY <1>2
  <2>2. at[i + 1] = IF at[i] \in Nodes THEN next[at[i]] ELSE Null
    BY <1>7, <2>1
  <2>3. CASE i < L
    <3>1. PICK k \in 1 .. L : k = i + 1
      BY <1>2, <2>3
    <3>2. at[i] = s[k] /\ s[k] \in Nodes
      BY <1>1, <2>3, <3>1 DEF L
    <3>3. at[i + 1] = IF k = L THEN Null ELSE s[k + 1]
      BY <1>1, <2>2, <3>2
    <3>4. i + 1 < L <=> k # L
      BY <1>2, <3>1
    <3> QED  BY <2>1, <3>1, <3>3, <3>4
  <2>4. CASE ~(i < L)
    <3>1. at[i] = Null /\ at[i + 1] = Null
      BY <2>2, <2>4, ConstantsApart
    <3>2. ~(i + 1 < L)
      BY <1>2, <2>4
    <3> QED  BY <2>1, <3>1, <3>2
  <2> QED  BY <2>3, <2>4
<1> HIDE DEF P
<1>10. 0 .. N \subseteq P
  BY <1>2, <1>8, <1>9, InductionUpTo
<1>11. \A i \in 0 .. N : at[i] = IF i < L THEN s[i + 1] ELSE Null
  BY <1>10 DEF P
<1>12. {j \in 0 .. N : at[j] \in Nodes} = 0 .. L - 1
  <2>1. ASSUME NEW j \in 0 .. N  PROVE at[j] \in Nodes <=> j < L
    <3>1. j < L => j + 1 \in 1 .. L
      BY <1>2
    <3>2. \A k \in 1 .. L : s[k] \in Nodes
      BY <1>1 DEF L
    <3> QED  BY <1>11, <3>1, <3>2, ConstantsApart
  <2>2. 0 .. L - 1 \subseteq 0 .. N /\ \A j \in 0 .. N : j < L <=> j \in 0 .. L - 1
    BY <1>2, <1>3
  <2> QED  BY <2>1, <2>2
<1>13. Cardinality({j \in 0 .. N : at[j] \in Nodes}) = L
  <2>1. 0 \in Int /\ L - 1 \in Int
    BY <1>2
  <2>2. Cardinality(0 .. L - 1) = L
    BY <1>2, <2>1, FS_Interval
  <2> QED  BY <1>12, <2>2
<1>14. Free!Stack = [i \in 1 .. L |-> at[i - 1]]
  <2>1. Free!Stack = [i \in 1 .. Cardinality({j \in 0 .. N : at[j] \in Nodes}) |-> at[i - 1]]
    BY <1>4, <1>5, StackRead DEF N
  <2> QED  BY <1>13, <2>1
<1>15. \A i \in 1 .. L : at[i - 1] = s[i]
  <2> SUFFICES ASSUME NEW i \in 1 .. L  PROVE at[i - 1] = s[i]
    OBVIOUS
  <2>1. PICK k \in 0 .. N : k = i - 1 /\ k < L /\ k + 1 = i
    BY <1>2, <1>3
  <2> QED  BY <1>11, <2>1
<1>16. s = [i \in 1 .. L |-> s[i]]
  BY <1>1 DEF L
<1> QED  BY <1>14, <1>15, <1>16

(* The steps of the threads as the free list sees them: none of the queue  *)
(* changes it, though the queue writes the same words.                     *)
LEMMA OnTheStack ==
  ASSUME Typed, NEW own, NEW pos, NEW rank, NEW s, NEW q, Shape(own, pos, rank, s, q), MaxPop < Half,
         NEW t \in Threads, Thread(t)
  PROVE  /\ Typed'
         /\ \E own2, pos2, rank2, s2, q2 :
              /\ Shape(own2, pos2, rank2, s2, q2)'
              /\ \/ s2 = s /\ \/ mine' = mine
                              \/ \E n \in Nodes \cup {Null} : mine' = [mine EXCEPT ![t] = n]
                 \/ s2 = <<mine[t]>> \o s /\ mine' = mine
                 \/ Len(s) # 0 /\ s2 = Tail(s) /\ mine' = [mine EXCEPT ![t] = s[1]]
<1>1. loc[t].old.node \in Nodes
  BY DEF Typed, TypeOK, Locals, Link
<1>2. CASE PushStep(t)
  <2>1. mine' = mine \/ mine' = [mine EXCEPT ![t] = Null]
    BY <1>2 DEF PushStep, BeginPushItem, GetNode, SetNext, ReadTailNode, ReadTailSeq, LinkNode,
       HelpRead, Help, FinishOwnPush, CountUp, Read, freeVars, Free!CallPop
  <2> QED  BY <1>2, <2>1, PushKeepsShape
<1>3. CASE PopStep(t)
  <2>1. mine' = mine \/ mine' = [mine EXCEPT ![t] = loc[t].old.node]
    BY <1>3 DEF PopStep, BeginPopItem, ReadHeadSeq, ReadHeadNode, ReadPopTailSeq, ReadHeadNext,
       Recheck, Compare, PopHelp, ReadElem, SwapHead, CountDown, FreeNode, Read, freeVars, Free!CallPush
  <2> QED  BY <1>1, <1>3, <2>1, PopKeepsShape
<1>4. CASE FreeListStep(t)
  <2>1. Typed'
    BY <1>4, FreeListTyped
  <2> QED  BY <1>4, <2>1, FreeListSteps
<1> QED  BY <1>2, <1>3, <1>4 DEF Thread

(* The free list is a stack whose Push and Pop happen at one instant, for  *)
(* any number of threads and nodes, although head and link are read word   *)
(* by word, nodes come back and the queue writes the same links: a swap    *)
(* succeeds only if nobody pushed since the head was read, which the       *)
(* sequence number tells as long as it does not come round.                *)
THEOREM ListRefinesStack ==
  ASSUME MaxPop < Half
  PROVE  Spec => FreeListIsAStack
<1>1. Init => Atomic!Init
  <2> SUFFICES ASSUME Init  PROVE Free!Stack = <<>> /\ mine = [t \in Threads |-> Null]
    BY DEF Atomic!Init
  <2>1. /\ next = [n \in Nodes |-> IF n = Dummy THEN End ELSE Null] /\ top.node = Null
        /\ mine = [t \in Threads |-> Null]
    BY DEF Init, Free!LInit, Free!EmptyHead
  <2>2. next \in [Nodes -> Pointers] /\ Stacked(<<>>)
    BY <2>1 DEF Pointers, Stacked
  <2> QED  BY <2>1, <2>2, StackIs
<1>2. \A s : next \in [Nodes -> Pointers] /\ Stacked(s) => Free!Stack = s
  BY StackIs
<1>3. (\A s : next \in [Nodes -> Pointers] /\ Stacked(s) => Free!Stack = s)'
  BY <1>2, PTL
<1>4. ASSUME IInv, [Next]_vars
      PROVE  [Atomic!Next]_<<Free!Stack, mine>>
  <2>1. CASE UNCHANGED vars
    <3>1. next' = next /\ top' = top /\ mine' = mine
      BY <2>1 DEF vars, queueVars, freeVars
    <3>2. Free!Stack' = Free!Stack
      BY <3>1 DEF Free!Stack
    <3> QED  BY <3>1, <3>2
  <2>2. CASE Next
    <3>1. PICK t \in Threads : Thread(t)
      BY <2>2 DEF Next
    <3>2. Typed
      BY <1>4 DEF IInv
    <3>3. PICK own, pos, rank, s, q : Shape(own, pos, rank, s, q)
      BY <1>4 DEF IInv, Shaped
    <3>4. Typed' /\ \E own2, pos2, rank2, s2, q2 :
            /\ Shape(own2, pos2, rank2, s2, q2)'
            /\ \/ s2 = s /\ \/ mine' = mine
                            \/ \E n \in Nodes \cup {Null} : mine' = [mine EXCEPT ![t] = n]
               \/ s2 = <<mine[t]>> \o s /\ mine' = mine
               \/ Len(s) # 0 /\ s2 = Tail(s) /\ mine' = [mine EXCEPT ![t] = s[1]]
      BY <3>1, <3>2, <3>3, OnTheStack
    <3>5. PICK own2, pos2, rank2, s2, q2 :
            /\ Shape(own2, pos2, rank2, s2, q2)'
            /\ \/ s2 = s /\ \/ mine' = mine
                            \/ \E n \in Nodes \cup {Null} : mine' = [mine EXCEPT ![t] = n]
               \/ s2 = <<mine[t]>> \o s /\ mine' = mine
               \/ Len(s) # 0 /\ s2 = Tail(s) /\ mine' = [mine EXCEPT ![t] = s[1]]
      BY <3>4
    <3>6. Free!Stack = s /\ s \in Seq(Nodes)
      BY <1>2, <3>2, <3>3 DEF Shape, Stacked, Typed, TypeOK
    <3>7. Free!Stack' = s2
      <4>1. (next \in [Nodes -> Pointers])' /\ Stacked(s2)'
        BY <3>4, <3>5 DEF Shape, Typed, TypeOK
      <4> QED  BY <1>3, <4>1
    <3>8. CASE s2 = s /\ mine' = mine
      BY <3>6, <3>7, <3>8
    <3>9. CASE s2 = s /\ \E n \in Nodes \cup {Null} : mine' = [mine EXCEPT ![t] = n]
      <4>1. Atomic!CallPop(t) \/ \E n \in Nodes : Atomic!CallPush(t, n)
        BY <3>6, <3>7, <3>9 DEF Atomic!CallPop, Atomic!CallPush
      <4> QED  BY <4>1 DEF Atomic!Next
    <3>10. CASE s2 = <<mine[t]>> \o s /\ mine' = mine
      <4>1. Atomic!Push(t)
        BY <3>6, <3>7, <3>10 DEF Atomic!Push
      <4> QED  BY <4>1 DEF Atomic!Next
    <3>11. CASE Len(s) # 0 /\ s2 = Tail(s) /\ mine' = [mine EXCEPT ![t] = s[1]]
      <4>1. s # <<>> /\ Head(s) = s[1]
        BY <3>6, <3>11
      <4>2. Atomic!Pop(t)
        BY <3>6, <3>7, <3>11, <4>1 DEF Atomic!Pop
      <4> QED  BY <4>2 DEF Atomic!Next
    <3> QED  BY <3>5, <3>8, <3>9, <3>10, <3>11
  <2> QED  BY <1>4, <2>1, <2>2
<1> QED  BY <1>1, <1>4, QueueInductive, PTL DEF Spec, FreeListIsAStack, Atomic!Spec

=============================================================================
