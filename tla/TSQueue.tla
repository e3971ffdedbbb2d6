------------------------------- MODULE TSQueue -------------------------------
(***************************************************************************)
(* CTSQueue<T> of public/tier0/tslist.h: the lock free queue, a linked     *)
(* list behind a dummy node.  PushItem and PopItem recycle the nodes       *)
(* through m_FreeNodes, a CTSListBase (module TSList) whose link overlays  *)
(* pNext.  Each action is one access to shared memory of one thread; a     *)
(* link of two words is read one word at a time.                           *)
(***************************************************************************)
EXTENDS Integers, Sequences, FiniteSets

CONSTANTS Threads,   \* the threads that share the queue
          Running,   \* those of them that are not stopped for good
          Nodes,     \* bound: the nodes operator new returns
          Dummy,     \* the node the constructor allocates
          Null,      \* the null pointer
          End,       \* End(): the address of the queue, behind the last node
          NoItem,    \* the element of a node that was never filled
          Half,      \* see TSList
          MaxPush,   \* bound: calls of PushItem
          MaxPop     \* bound: calls of PopItem

ASSUME QueueConstants ==
    /\ Running \subseteq Threads
    /\ Dummy \in Nodes
    /\ IsFiniteSet(Nodes)
    /\ Null \notin Nodes /\ End \notin Nodes /\ Null # End
    /\ MaxPush \in Nat /\ MaxPop \in Nat /\ Half \in Nat \ {0}
    /\ NoItem \notin 1 .. MaxPush

VARIABLES
    next,      \* [Nodes -> pointer]: pNext, and the link of the free list
    elem,      \* [Nodes -> item]: Node_t::elem
    head,      \* m_Head: node and sequence
    tail,      \* m_Tail: node and sequence
    count,     \* m_Count
    heap,      \* nodes operator new has not returned yet
    pc,        \* [Threads -> label]: the thread's next access
    loc,       \* [Threads -> locals]: item and node of the call; oldTail of
               \* Push or head of Pop; pNext as it was read; tailSequence
    top, step, mine, seen, nxt,  \* m_FreeNodes and the calls of it
    pushed,    \* PushItem calls so far: the items are 1 .. pushed
    pops,      \* PopItem calls so far
    out,       \* history: the items taken off, in that order
    returned,  \* history: the items whose PushItem has returned
    before,    \* history: what had returned when the push of an item began
    emptied    \* history: threads in PopItem since when the queue was empty

queueVars == <<next, elem, head, tail, count, heap>>
freeVars == <<top, step, mine, seen, nxt>>
historyVars == <<pushed, pops, out, returned, before>>
vars == <<queueVars, pc, loc, freeVars, historyVars, emptied>>

Items == 1 .. MaxPush
Pointers == Nodes \cup {Null, End}
Link == [node : Nodes, seq : Nat]
Locals == [item : Items \cup {NoItem}, node : Nodes, old : Link,
           succ : Pointers, tailSeq : Nat]
NoLocals == [item |-> NoItem, node |-> Dummy, old |-> [node |-> Dummy, seq |-> 0],
             succ |-> Null, tailSeq |-> 0]

PushLabels == {"getNode", "setNext", "tailNode", "tailSeq", "link", "helpRead",
               "help", "finish", "countUp"}
InPop == {"headSeq", "headNode", "popTailSeq", "headNext", "recheck", "compare",
          "popHelp", "readElem", "swapHead"}
PopLabels == InPop \cup {"countDown", "freeNode"}

Free == INSTANCE TSList WITH link <- next

Init ==
    /\ next = [n \in Nodes |-> IF n = Dummy THEN End ELSE Null]
    /\ elem = [n \in Nodes |-> NoItem]
    /\ head = [node |-> Dummy, seq |-> 0]
    /\ tail = [node |-> Dummy, seq |-> 0]
    /\ count = 0
    /\ heap = Nodes \ {Dummy}
    /\ pc = [t \in Threads |-> "idle"]
    /\ loc = [t \in Threads |-> NoLocals]
    /\ Free!LInit
    /\ pushed = 0 /\ pops = 0 /\ out = <<>>
    /\ returned = {} /\ before = [i \in Items |-> {}] /\ emptied = {}

\* The next access of t; a step that only reads shared memory; the end of a
\* call, where its locals go.
Step(t, from, to) == pc[t] = from /\ pc' = [pc EXCEPT ![t] = to]
Read(t, from, to) == Step(t, from, to) /\ UNCHANGED <<queueVars, freeVars, historyVars>>
Return(t) == loc' = [loc EXCEPT ![t] = NoLocals]

\* Faulty: the tail is stored, not swapped.
FinishPushBlind(t, n, from) == tail' = [node |-> n, seq |-> from.seq + 1]
\* FinishPush: the swap of m_Tail, whose result nobody looks at: when it
\* fails, somebody else has helped.
FinishPush(t, n, from) ==
    tail' = IF tail = from THEN [node |-> n, seq |-> from.seq + 1] ELSE tail
-------------------------------------------------------------------------------
\* PushItem: a node off the free list or, when that is empty, a new one (the
\* address of a new node makes no difference, so one is chosen).
BeginPushItem(t) ==
    /\ Step(t, "idle", "getNode") /\ pushed < MaxPush
    /\ pushed' = pushed + 1
    /\ before' = [before EXCEPT ![pushed + 1] = returned]
    /\ loc' = [loc EXCEPT ![t].item = pushed + 1]
    /\ Free!CallPop(t)
    /\ UNCHANGED <<elem, head, tail, count, heap, pops, out, returned>>
GetNode(t) ==
    /\ Step(t, "getNode", "setNext") /\ step[t] = "ready" /\ (mine[t] # Null \/ heap # {})
    /\ LET n == IF mine[t] # Null THEN mine[t] ELSE CHOOSE m \in heap : TRUE
       IN  /\ heap' = heap \ {n}
           /\ loc' = [loc EXCEPT ![t].node = n]
           /\ elem' = [elem EXCEPT ![n] = loc[t].item]
    /\ UNCHANGED <<next, head, tail, count, freeVars, historyVars>>

\* Push: pNode->pNext = End(), then the loop that links it behind the tail.
SetNext(t) ==
    /\ Step(t, "setNext", "tailNode")
    /\ next' = [next EXCEPT ![loc[t].node] = End]
    /\ UNCHANGED <<elem, head, tail, count, heap, loc, freeVars, historyVars>>
ReadTailNode(t) == /\ Read(t, "tailNode", "tailSeq")
                   /\ loc' = [loc EXCEPT ![t].old.node = tail.node]
ReadTailSeq(t) == /\ Read(t, "tailSeq", "link")
                  /\ loc' = [loc EXCEPT ![t].old.seq = tail.seq]
\* Faulty: the node is stored behind the tail, not swapped in.
LinkNodeBlind(t) ==
    /\ Step(t, "link", "finish")
    /\ next' = [next EXCEPT ![loc[t].old.node] = loc[t].node]
    /\ UNCHANGED <<elem, head, tail, count, heap, loc, freeVars, historyVars>>
LinkNode(t) ==
    /\ \/ /\ next[loc[t].old.node] = End
          /\ next' = [next EXCEPT ![loc[t].old.node] = loc[t].node]
          /\ Step(t, "link", "finish")
       \/ /\ next[loc[t].old.node] # End
          /\ Step(t, "link", "helpRead")
          /\ UNCHANGED next
    /\ UNCHANGED <<elem, head, tail, count, heap, loc, freeVars, historyVars>>
HelpRead(t) == /\ Read(t, "helpRead", "help")
               /\ loc' = [loc EXCEPT ![t].succ = next[loc[t].old.node]]
\* Faulty: the push waits for the one that linked its node to move the tail.
HelpByWaiting(t) ==
    /\ Step(t, "help", "tailNode")
    /\ UNCHANGED <<next, elem, head, tail, count, heap, loc, freeVars, historyVars>>
Help(t) ==
    /\ Step(t, "help", "tailNode")
    /\ FinishPush(t, loc[t].succ, loc[t].old)
    /\ UNCHANGED <<next, elem, head, count, heap, loc, freeVars, historyVars>>
FinishOwnPush(t) ==
    /\ Step(t, "finish", "countUp")
    /\ FinishPush(t, loc[t].node, loc[t].old)
    /\ UNCHANGED <<next, elem, head, count, heap, loc, freeVars, historyVars>>
CountUp(t) ==
    /\ Step(t, "countUp", "idle") /\ Return(t)
    /\ count' = count + 1
    /\ returned' = returned \cup {loc[t].item}
    /\ UNCHANGED <<next, elem, head, tail, heap, freeVars, pushed, pops, out, before>>

PushStep(t) == \/ BeginPushItem(t) \/ GetNode(t) \/ SetNext(t)
               \/ ReadTailNode(t) \/ ReadTailSeq(t) \/ LinkNode(t)
               \/ HelpRead(t) \/ Help(t) \/ FinishOwnPush(t) \/ CountUp(t)
-------------------------------------------------------------------------------
\* PopItem: Pop, then the node goes to the free list.
BeginPopItem(t) ==
    /\ Step(t, "idle", "headSeq") /\ pops < MaxPop
    /\ pops' = pops + 1
    /\ UNCHANGED <<queueVars, loc, freeVars, pushed, out, returned, before>>
\* The sequence first: the check of it below tells that pNext was read while
\* the node was the head.
ReadHeadSeq(t) == /\ Read(t, "headSeq", "headNode")
                  /\ loc' = [loc EXCEPT ![t].old.seq = head.seq]
ReadHeadNode(t) == /\ Read(t, "headNode", "popTailSeq")
                   /\ loc' = [loc EXCEPT ![t].old.node = head.node]
ReadPopTailSeq(t) == /\ Read(t, "popTailSeq", "headNext")
                     /\ loc' = [loc EXCEPT ![t].tailSeq = tail.seq]
ReadHeadNext(t) == /\ Read(t, "headNext", "recheck")
                   /\ loc' = [loc EXCEPT ![t].succ = next[loc[t].old.node]]
\* Faulty: the sequence is not looked at again.
RecheckNextOnly(t) ==
    /\ Read(t, "recheck", IF loc[t].succ # Null THEN "compare" ELSE "headSeq")
    /\ UNCHANGED loc
Recheck(t) ==
    /\ Read(t, "recheck", IF loc[t].succ # Null /\ loc[t].old.seq = head.seq
                          THEN "compare" ELSE "headSeq")
    /\ UNCHANGED loc
\* head.value.pNode == *pTailNode, and what follows from it.
Compare(t) ==
    LET last == loc[t].old.node = tail.node
        end == loc[t].succ = End
    IN  \/ last /\ end /\ Read(t, "compare", "idle") /\ Return(t)
        \/ last /\ ~end /\ Read(t, "compare", "popHelp") /\ UNCHANGED loc
        \/ ~last /\ ~end /\ Read(t, "compare", "readElem") /\ UNCHANGED loc
        \/ ~last /\ end /\ Read(t, "compare", "headSeq") /\ UNCHANGED loc
PopHelp(t) ==
    /\ Step(t, "popHelp", "headSeq")
    /\ FinishPush(t, loc[t].succ, [node |-> loc[t].old.node, seq |-> loc[t].tailSeq])
    /\ UNCHANGED <<next, elem, head, count, heap, loc, freeVars, historyVars>>
\* The next node may be free or filled again by now: the swap then fails.
ReadElem(t) == /\ Read(t, "readElem", "swapHead")
               /\ loc' = [loc EXCEPT ![t].item = elem[loc[t].succ]]
SwapHead(t) ==
    /\ \/ /\ head = loc[t].old
          /\ head' = [node |-> loc[t].succ, seq |-> loc[t].old.seq + 1]
          /\ out' = Append(out, loc[t].item)
          /\ Step(t, "swapHead", "countDown")
       \/ /\ head # loc[t].old
          /\ Step(t, "swapHead", "headSeq")
          /\ UNCHANGED <<head, out>>
    /\ UNCHANGED <<next, elem, tail, count, heap, loc, freeVars, pushed, pops,
                   returned, before>>
\* m_Count--, and the element put into the old dummy, which is the caller's.
CountDown(t) ==
    /\ Step(t, "countDown", "freeNode")
    /\ count' = count - 1
    /\ elem' = [elem EXCEPT ![loc[t].old.node] = loc[t].item]
    /\ Free!CallPush(t, loc[t].old.node)
    /\ UNCHANGED <<head, tail, heap, loc, historyVars>>
FreeNode(t) ==
    /\ Read(t, "freeNode", "idle") /\ step[t] = "ready"
    /\ Return(t)

PopStep(t) == \/ BeginPopItem(t) \/ ReadHeadSeq(t) \/ ReadHeadNode(t)
              \/ ReadPopTailSeq(t) \/ ReadHeadNext(t) \/ Recheck(t) \/ Compare(t)
              \/ PopHelp(t) \/ ReadElem(t) \/ SwapHead(t) \/ CountDown(t)
              \/ FreeNode(t)

FreeListStep(t) == /\ Free!ListStep(t)
                   /\ UNCHANGED <<elem, head, tail, count, heap, pc, loc, historyVars>>

\* No node behind the dummy.
Empty == next[head.node] = End
Thread(t) ==
    /\ PushStep(t) \/ PopStep(t) \/ FreeListStep(t)
    /\ emptied' = {u \in Threads : pc'[u] \in InPop /\ (u \in emptied \/ Empty')}

Next == \E t \in Threads : Thread(t)
Spec == Init /\ [][Next]_vars
FairSpec == Spec /\ \A t \in Running : WF_vars(Thread(t))
-------------------------------------------------------------------------------
TypeOK ==
    /\ next \in [Nodes -> Pointers]
    /\ elem \in [Nodes -> Items \cup {NoItem}]
    /\ head \in Link /\ tail \in Link
    /\ count \in Int
    /\ heap \subseteq Nodes
    /\ pc \in [Threads -> PushLabels \cup PopLabels \cup {"idle"}]
    /\ loc \in [Threads -> Locals]
    /\ Free!LTypeOK

\* The nodes that hang behind n, n included.
From(n) == LET at[i \in 0 .. Cardinality(Nodes)] ==
                   IF i = 0 THEN n
                   ELSE LET p == at[i - 1] IN IF p \in Nodes THEN next[p] ELSE Null
           IN  {at[i] : i \in DOMAIN at} \cap Nodes
Linked == From(head.node) \ {head.node}
\* The nodes a push has prepared and not linked yet.
Preparing == {loc[t].node : t \in {u \in Threads :
                 pc[u] \in {"tailNode", "tailSeq", "link", "helpRead", "help"}}}
Delivered == {out[i] : i \in DOMAIN out}

\* An element whose PushItem has returned has been taken off, or is on the
\* list, or hangs behind a node another thread is about to link: no swap of
\* two threads loses it, though a push may link its node behind a node that
\* left the queue and came back (Push, Pop, m_FreeNodes).  None is delivered
\* twice: the sequence of m_Head makes the swap of a thread fail that read
\* the element of a node recycled meanwhile.
EachItemOnce ==
    /\ \A i \in returned :
        \/ i \in Delivered
        \/ \E n \in Linked \cup UNION {From(p) : p \in Preparing} : elem[n] = i
    /\ \A i, j \in DOMAIN out : i # j => out[i] # out[j]

\* PopItem returns false only if the queue was empty at some instant during
\* the call: "must grab sequence first, which allows condition below to
\* ensure pNext is valid" (Pop).
EmptyMeansEmpty ==
    [][\A t \in Threads : pc[t] = "compare" /\ pc'[t] = "idle" => t \in emptied]_vars

Atomic == INSTANCE AtomicStack WITH stack <- Free!Stack, got <- mine

\* The free list, changed by a compare-and-swap of a head read in two
\* halves, is a stack with atomic Push and Pop, though the same words are
\* the pNext of the queue and late threads of the queue still read them.
FreeListIsAStack == Atomic!Spec

\* Every call of a thread that keeps running returns (there are boundedly
\* many, so in the end it is in none), wherever the other threads stop: it
\* retries only when another has got on or when it has itself helped the tail
\* along ("Another thread is trying to push, help it along").
CallsReturn == <>[](\A t \in Running : pc[t] = "idle")

\* "FIFO" (tslist.h:6): an element is not taken before one whose PushItem
\* had returned when its own began.
Fifo == \A k \in DOMAIN out :
            before[out[k]] \subseteq {out[j] : j \in 1 .. k - 1}
===============================================================================
