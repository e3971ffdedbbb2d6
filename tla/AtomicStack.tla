------------------------------ MODULE AtomicStack ------------------------------
(***************************************************************************)
(* What the free list of a CTSQueue promises its threads: a stack whose    *)
(* push and pop happen at one instant each.                                *)
(***************************************************************************)
EXTENDS Sequences

CONSTANTS Threads, Nodes, Null

VARIABLES stack,  \* the nodes on the list, the top first
          got     \* [Threads -> node]: argument of Push, result of Pop

Init == /\ stack = <<>>
        /\ got = [t \in Threads |-> Null]

\* The caller of Push hands over a node that is not on the list.
CallPush(t, n) == /\ got' = [got EXCEPT ![t] = n]
                  /\ UNCHANGED stack
CallPop(t) == /\ got' = [got EXCEPT ![t] = Null]
              /\ UNCHANGED stack

Push(t) == /\ stack' = <<got[t]>> \o stack
           /\ UNCHANGED got
Pop(t) == /\ stack # <<>>
          /\ got' = [got EXCEPT ![t] = Head(stack)]
          /\ stack' = Tail(stack)

Next == \E t \in Threads :
           \/ \E n \in Nodes : CallPush(t, n)
           \/ CallPop(t) \/ Push(t) \/ Pop(t)
Spec == Init /\ [][Next]_<<stack, got>>
================================================================================
