-------------------------------- MODULE TSList --------------------------------
(***************************************************************************)
(* CTSListBase of public/tier0/tslist.h, as built without the list of the  *)
(* operating system: a lock free stack whose head holds the top node and a *)
(* word of two halves, the depth (low) and a sequence number (high).  Each *)
(* action is one access to shared memory of one thread; the head is read   *)
(* one half at a time, as a 32 bit build may, and replaced by a            *)
(* compare-and-swap.  The component that uses the list starts the calls    *)
(* and reads mine when step is "ready" again.                              *)
(***************************************************************************)
EXTENDS Integers, FiniteSets

CONSTANTS Threads,  \* the threads that share the list
          Nodes,    \* the nodes
          Null,     \* the null pointer
          Half      \* values of one half of the word (2^16 in the code)

VARIABLES link,  \* [Nodes -> pointer]: TSLNodeBase_t::Next
          top,   \* m_Head: node and word
          step,  \* [Threads -> label]: the thread's next access
          mine,  \* [Threads -> node]: argument of Push, result of Pop
          seen,  \* [Threads -> head]: oldHead
          nxt    \* [Threads -> pointer]: newHead.value.Next of Pop

locals == <<mine, seen, nxt>>
listVars == <<link, top, step, locals>>

EmptyHead == [node |-> Null, word |-> 0]
\* The end of a call, where its locals go.
Drop(t) == /\ seen' = [seen EXCEPT ![t] = EmptyHead]
           /\ nxt' = [nxt EXCEPT ![t] = Null]
Goto(t, label) == step' = [step EXCEPT ![t] = label]

\* Depth + 1 and Sequence + 1 by one addition of 0x10001; Depth - 1 by a
\* subtraction of 1, which borrows from the sequence at depth 0.
Pushed(word) == (word + Half + 1) % (Half * Half)
Popped(word) == (word - 1) % (Half * Half)

LInit == /\ top = EmptyHead
         /\ step = [t \in Threads |-> "ready"]
         /\ mine = [t \in Threads |-> Null]
         /\ seen = [t \in Threads |-> EmptyHead]
         /\ nxt = [t \in Threads |-> Null]

\* The calls: the caller's own step, which reads no memory of the list.
CallPush(t, n) == /\ step[t] = "ready"
                  /\ Goto(t, "push")
                  /\ mine' = [mine EXCEPT ![t] = n]
                  /\ UNCHANGED <<link, top, seen, nxt>>
CallPop(t) == /\ step[t] = "ready"
              /\ Goto(t, "pop")
              /\ mine' = [mine EXCEPT ![t] = Null]
              /\ UNCHANGED <<link, top, seen, nxt>>

\* oldHead.value64 = m_Head.value64, in two reads.
ReadNode(t) ==
    /\ \/ step[t] = "push" /\ Goto(t, "pushWord")
       \/ step[t] = "pop" /\ Goto(t, "popWord")
    /\ seen' = [seen EXCEPT ![t].node = top.node]
    /\ UNCHANGED <<link, top, mine, nxt>>
ReadWord(t) ==
    /\ \/ /\ \/ step[t] = "pushWord" /\ Goto(t, "pushLink")
             \/ step[t] = "popWord" /\ seen[t].node # Null /\ Goto(t, "popNext")
          /\ seen' = [seen EXCEPT ![t].word = top.word]
          /\ UNCHANGED nxt
       \/ /\ step[t] = "popWord" /\ seen[t].node = Null
          /\ Goto(t, "ready")
          /\ Drop(t)
    /\ UNCHANGED <<link, top, mine>>

PushLink(t) == /\ step[t] = "pushLink"
               /\ Goto(t, "pushSwap")
               /\ link' = [link EXCEPT ![mine[t]] = seen[t].node]
               /\ UNCHANGED <<top, locals>>
\* Faulty: the new head is stored, not swapped in.
PushSwapBlind(t) ==
    /\ step[t] = "pushSwap"
    /\ top' = [node |-> mine[t], word |-> Pushed(seen[t].word)]
    /\ Goto(t, "ready")
    /\ Drop(t)
    /\ UNCHANGED <<link, mine>>
PushSwap(t) ==
    /\ step[t] = "pushSwap"
    /\ \/ /\ top = seen[t]
          /\ top' = [node |-> mine[t], word |-> Pushed(seen[t].word)]
          /\ Goto(t, "ready")
          /\ Drop(t)
       \/ /\ top # seen[t]
          /\ Goto(t, "push")
          /\ UNCHANGED <<top, seen, nxt>>
    /\ UNCHANGED <<link, mine>>

\* oldHead.value.Next->Next: the node may have left the list meanwhile.
PopNext(t) == /\ step[t] = "popNext"
              /\ Goto(t, "popSwap")
              /\ nxt' = [nxt EXCEPT ![t] = link[seen[t].node]]
              /\ UNCHANGED <<link, top, mine, seen>>
PopSwap(t) ==
    /\ step[t] = "popSwap"
    /\ \/ /\ top = seen[t]
          /\ top' = [node |-> nxt[t], word |-> Popped(seen[t].word)]
          /\ mine' = [mine EXCEPT ![t] = seen[t].node]
          /\ Goto(t, "ready")
          /\ Drop(t)
       \/ /\ top # seen[t]
          /\ Goto(t, "pop")
          /\ UNCHANGED <<top, mine, seen, nxt>>
    /\ UNCHANGED link

ListStep(t) == \/ ReadNode(t) \/ ReadWord(t)
               \/ PushLink(t) \/ PushSwap(t)
               \/ PopNext(t) \/ PopSwap(t)
-------------------------------------------------------------------------------
LTypeOK == /\ top \in [node : Nodes \cup {Null}, word : 0 .. Half * Half - 1]
           /\ step \in [Threads -> {"ready", "push", "pushWord", "pushLink", "pushSwap",
                                   "pop", "popWord", "popNext", "popSwap"}]
           /\ mine \in [Threads -> Nodes \cup {Null}]
           /\ seen \in [Threads -> [node : Nodes \cup {Null}, word : 0 .. Half * Half - 1]]

\* The nodes on the list, the top first.
Stack == LET at[i \in 0 .. Cardinality(Nodes)] ==
                 IF i = 0 THEN top.node
                 ELSE LET p == at[i - 1] IN IF p \in Nodes THEN link[p] ELSE Null
             depth == Cardinality({i \in DOMAIN at : at[i] \in Nodes})
         IN  [i \in 1 .. depth |-> at[i - 1]]
===============================================================================
