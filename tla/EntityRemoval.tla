----------------------------- MODULE EntityRemoval -----------------------------
(***************************************************************************)
(* How an entity leaves the server: UTIL_Remove and UTIL_RemoveImmediate   *)
(* (game/server/util.cpp), the delete list of the global entity list and   *)
(* its clean-up (entitylist.cpp), the removals a physics callback defers   *)
(* (physics.cpp) and what CBaseEntity::UpdateOnRemove does to the movement *)
(* hierarchy (baseentity.cpp, hierarchy.cpp), a forest of linked lists     *)
(* made of handles.                                                        *)
(***************************************************************************)
EXTENDS Naturals, Sequences, FiniteSets, SequencesExt

CONSTANTS Ents,          \* the entities; each is created once
          None,          \* the null pointer, or a handle that resolves to it
          ParentMarked   \* game code calls SetParent for marked entities too

ASSUME RemovalConstants ==
    /\ IsFiniteSet(Ents) /\ None \notin Ents
    /\ ParentMarked \in BOOLEAN

VARIABLES
    live,      \* constructed and not destroyed: handles to it resolve
    unborn,    \* not created yet
    killme,    \* EFL_KILLME: marked for deletion
    parent,    \* [Ents -> handle]: m_hMoveParent
    child,     \* [Ents -> handle]: m_hMoveChild, the first child
    peer,      \* [Ents -> handle]: m_hMovePeer, the next child of the parent
    delList,   \* g_DeleteList: pointers
    cursor,    \* the index CleanupDeleteList releases next, 0 outside of it
    queue,     \* CCollisionEvent::m_removeObjects: pointers
    inCallback,\* PhysIsInCallback()
    clearing   \* m_bClearingEntities

vars == <<live, unborn, killme, parent, child, peer, delList, cursor, queue, inCallback, clearing>>

\* What a removal changes, as a record that its parts pass on.
World == [killme |-> killme, parent |-> parent, child |-> child, peer |-> peer,
          delList |-> delList, queue |-> queue]
Becomes(w) == /\ killme' = w.killme
              /\ parent' = w.parent /\ child' = w.child /\ peer' = w.peer
              /\ delList' = w.delList /\ queue' = w.queue

Init == /\ live = {} /\ unborn = Ents /\ killme = {}
        /\ parent = [e \in Ents |-> None]
        /\ child = [e \in Ents |-> None]
        /\ peer = [e \in Ents |-> None]
        /\ delList = <<>> /\ cursor = 0 /\ queue = <<>>
        /\ inCallback = FALSE /\ clearing = FALSE
-------------------------------------------------------------------------------
\* EHANDLE::Get.
Resolve(h) == IF h \in live THEN h ELSE None

\* The children of p in the order of the list.
Children(w, p) ==
    LET at[n \in 0 .. Cardinality(Ents)] ==
            IF n = 0 THEN Resolve(w.child[p])
            ELSE LET c == at[n - 1] IN IF c = None THEN None ELSE Resolve(w.peer[c])
    IN  [i \in 1 .. Cardinality({n \in DOMAIN at : at[n] # None}) |-> at[i - 1]]

\* GetAllChildren: every child, each followed by its own.
AllChildren(w, p) ==
    LET below[n \in 0 .. Cardinality(Ents)] ==
            [e \in Ents |->
                IF n = 0 THEN <<>>
                ELSE FlattenSeq([i \in DOMAIN Children(w, e) |->
                        <<Children(w, e)[i]>> \o below[n - 1][Children(w, e)[i]]])]
    IN  below[Cardinality(Ents)][p]

\* Faulty: the child's peer is reset before the list is patched with it.
UnlinkThenPatch(w, p, c) ==
    LET list == Children(w, p)
        out  == [w EXCEPT !.parent[c] = None, !.peer[c] = None]
    IN  IF c \notin Range(list) THEN w
        ELSE IF list[1] = c THEN [out EXCEPT !.child[p] = None]
        ELSE LET i == CHOOSE j \in DOMAIN list : list[j] = c
             IN  [out EXCEPT !.peer[list[i - 1]] = None]
\* UnlinkChild; nothing when the child is not found (the assertion there).
UnlinkChild(w, p, c) ==
    LET list == Children(w, p)
        next == Resolve(w.peer[c])
        out  == [w EXCEPT !.parent[c] = None, !.peer[c] = None]
    IN  IF c \notin Range(list) THEN w
        ELSE IF list[1] = c THEN [out EXCEPT !.child[p] = next]
        ELSE LET i == CHOOSE j \in DOMAIN list : list[j] = c
             IN  [out EXCEPT !.peer[list[i - 1]] = next]
UnlinkFromParent(w, e) ==
    IF Resolve(w.parent[e]) = None THEN w ELSE UnlinkChild(w, w.parent[e], e)
LinkChild(w, p, c) ==
    [w EXCEPT !.peer[c] = Resolve(w.child[p]), !.child[p] = c, !.parent[c] = p]

\* Faulty: every call is kept, however often the same entity is removed.
DeferAgain(w, e) == [w EXCEPT !.queue = Append(@, e)]
\* UTIL_Remove during a physics callback: PhysCallbackRemove.
Defer(w, e) == IF e \in Range(w.queue) THEN w
               ELSE [w EXCEPT !.queue = Append(@, e)]
\* UTIL_Remove of an entity whose children are gone: UpdateOnRemove's own
\* part, then AddToDeleteList.
Mark(w, e) == UnlinkFromParent([w EXCEPT !.killme = @ \cup {e}], e)
RemoveLeaf(w, e) ==
    IF e \in w.killme THEN w
    ELSE IF inCallback THEN Defer(w, e)
    ELSE [Mark(w, e) EXCEPT !.delList = Append(@, e)]
\* RemoveLeaf of the entities of a list, the last one first.
LeavesRemoved(w, list) ==
    LET after[n \in 0 .. Len(list)] ==
            IF n = 0 THEN w ELSE RemoveLeaf(after[n - 1], list[Len(list) + 1 - n])
    IN  after[Len(list)]
\* UpdateOnRemove: all children go too, the last of the list first, so that
\* each has no unmarked child left when its turn comes.
UpdateOnRemove(w, e) == LeavesRemoved(Mark(w, e), AllChildren(Mark(w, e), e))
\* Faulty: an entity that is marked already is marked again.
RemovedAgain(w, e) ==
    IF inCallback THEN Defer(w, e)
    ELSE [UpdateOnRemove(w, e) EXCEPT !.delList = Append(@, e)]
Removed(w, e) ==
    IF e \in w.killme THEN w
    ELSE IF inCallback THEN Defer(w, e)
    ELSE [UpdateOnRemove(w, e) EXCEPT !.delList = Append(@, e)]
\* Faulty: the deferred entities go on the delete list without UpdateOnRemove.
FlushedBare(w) ==
    LET todo == SelectSeq(w.queue, LAMBDA e : e \notin w.killme)
    IN  [FoldLeft(LAMBDA v, e : Mark(v, e), w, todo)
            EXCEPT !.delList = @ \o todo, !.queue = <<>>]
\* UTIL_Remove of the entities of a list, one after the other.
RemovedAll(w, list) ==
    LET after[n \in 0 .. Len(list)] ==
            IF n = 0 THEN w ELSE Removed(after[n - 1], list[n])
    IN  after[Len(list)]
\* UpdateRemoveObjects.
Flushed(w) == [RemovedAll(w, w.queue) EXCEPT !.queue = <<>>]
-------------------------------------------------------------------------------
Create(e) ==
    /\ e \in unborn /\ cursor = 0
    /\ unborn' = unborn \ {e}
    /\ live' = live \cup {e}
    /\ UNCHANGED <<killme, parent, child, peer, delList, cursor, queue, inCallback, clearing>>

\* UTIL_Remove, from any handler or, during the clean-up, from a destructor.
UTIL_Remove(e) ==
    /\ e \in live
    /\ Becomes(Removed(World, e))
    /\ UNCHANGED <<live, unborn, cursor, inCallback, clearing>>

\* UTIL_RemoveImmediate: "only use this when sure no pointers rely on this
\* entity", so the caller knows that no callback has deferred its removal.
UTIL_RemoveImmediate(e) ==
    /\ e \in live \ killme /\ cursor = 0 /\ e \notin Range(queue)
    /\ LET w == UpdateOnRemove(World, e)
       IN  Becomes([w EXCEPT !.child[e] = None])
    /\ live' = live \ {e}
    /\ UNCHANGED <<unborn, cursor, inCallback, clearing>>

\* CBaseEntity::SetParent; the callers see to it that p is not below c.
SetParent(c, p) ==
    /\ c \in live /\ p \in live \cup {None} /\ cursor = 0
    /\ ParentMarked \/ {c, p} \cap killme = {}
    /\ p # None => p \notin Range(AllChildren(World, c))
    /\ LET out == UnlinkFromParent(World, c)
       IN  Becomes(IF p \in {None, c} THEN out ELSE LinkChild(out, p, c))
    /\ UNCHANGED <<live, unborn, cursor, inCallback, clearing>>

Transferred(w, list, from, to) ==
    LET after[n \in 0 .. Len(list)] ==
            IF n = 0 THEN w
            ELSE LinkChild(UnlinkChild(after[n - 1], from, list[n]), to, list[n])
    IN  after[Len(list)]
TransferChildren(from, to) ==
    /\ {from, to} \subseteq live \ killme /\ from # to /\ cursor = 0
    /\ to \notin Range(AllChildren(World, from))
    /\ Becomes(Transferred(World, Children(World, from), from, to))
    /\ UNCHANGED <<live, unborn, cursor, inCallback, clearing>>

\* The physics simulation calls back, and returns.
Callback == /\ cursor = 0
            /\ inCallback' = ~inCallback
            /\ UNCHANGED <<live, unborn, killme, parent, child, peer, delList, cursor, queue,
                           clearing>>
FlushQueue == /\ ~inCallback /\ cursor = 0 /\ queue # <<>>
              /\ Becomes(Flushed(World))
              /\ UNCHANGED <<live, unborn, cursor, inCallback, clearing>>

\* CleanupDeleteList: PhysOnCleanupDeleteList, then one Release after the
\* other; the list may grow meanwhile.
BeginCleanup ==
    /\ ~inCallback /\ cursor = 0
    /\ Becomes(Flushed(World))
    /\ cursor' = 1
    /\ UNCHANGED <<live, unborn, inCallback, clearing>>
Release ==
    /\ cursor \in DOMAIN delList
    /\ live' = live \ {delList[cursor]}
    /\ child' = [child EXCEPT ![delList[cursor]] = None]
    /\ cursor' = cursor + 1
    /\ UNCHANGED <<unborn, killme, parent, peer, delList, queue, inCallback, clearing>>
EndCleanup ==
    /\ cursor = Len(delList) + 1
    /\ cursor' = 0 /\ delList' = <<>>
    /\ clearing' = FALSE
    /\ UNCHANGED <<live, unborn, killme, parent, child, peer, queue, inCallback>>

\* Clear, at the end of a level: UTIL_Remove of every entity in the order of
\* the entity list (the order of creation; here any order), and a clean-up.
Orders(s) == {o \in [1 .. Cardinality(s) -> s] : IsInjective(o)}
CleanupAfter(w) == /\ Becomes(Flushed(w))
                   /\ cursor' = 1 /\ clearing' = TRUE
                   /\ UNCHANGED <<live, unborn, inCallback>>
\* Faulty: the loop ends one entity too early.
ClearAllButLast(o) ==
    /\ ~inCallback /\ cursor = 0
    /\ CleanupAfter(RemovedAll(World, SubSeq(o, 1, Len(o) - 1)))
Clear(o) ==
    /\ ~inCallback /\ cursor = 0
    /\ CleanupAfter(RemovedAll(World, o))

Next == \/ \E e \in Ents : Create(e) \/ UTIL_Remove(e) \/ UTIL_RemoveImmediate(e)
        \/ \E c \in Ents, p \in Ents \cup {None} : SetParent(c, p)
        \/ \E from, to \in Ents : TransferChildren(from, to)
        \/ Callback \/ FlushQueue
        \/ \E o \in Orders(live) : Clear(o)
        \/ BeginCleanup \/ Release \/ EndCleanup
Spec == Init /\ [][Next]_vars
-------------------------------------------------------------------------------
Handles == Ents \cup {None}
TypeOK == /\ live \subseteq Ents /\ unborn \subseteq Ents \ live
          /\ killme \subseteq Ents \ unborn
          /\ parent \in [Ents -> Handles]
          /\ child \in [Ents -> Handles]
          /\ peer \in [Ents -> Handles]
          /\ delList \in Seq(Ents) /\ cursor \in 0 .. Len(delList) + 1
          /\ queue \in Seq(Ents) /\ IsInjective(queue)
          /\ inCallback \in BOOLEAN /\ clearing \in BOOLEAN

\* Every entity that is marked is released exactly once: it stands once in
\* the part of g_DeleteList that CleanupDeleteList has yet to release, whatever
\* removed it and however often, and what a callback has put off is not gone
\* before its turn (UTIL_Remove, CleanupDeleteList, UpdateRemoveObjects).
ReleasedOnce ==
    /\ {delList[i] : i \in {j \in DOMAIN delList : j >= cursor}} = live \cap killme
    /\ IsInjective(delList)
    /\ Range(queue) \subseteq live

\* The child list of an entity holds those whose parent it is, once each, in
\* spite of removals in the middle of it (UnlinkChild's Assert never fails).
ListsMatchParents ==
    \A p \in live : /\ Range(Children(World, p)) = {c \in live : parent[c] = p}
                    /\ IsInjective(Children(World, p))

\* "Any children still connected are orphans, mark all for delete": with an
\* entity everything attached to it is removed, or its removal is put off.
NoOrphans ==
    [][\A c, p \in live : (Resolve(parent[c]) = p /\ p \in killme' \ killme)
            => c \in killme' \cup Range(queue')]_vars

\* When the clean-up of Clear ends, no entity is left.
ClearLeavesNothing == [][clearing /\ ~clearing' => live' = {}]_vars
================================================================================
