------------------------------ MODULE EntityList ------------------------------
(***************************************************************************)
(* CBaseEntityList (game/shared/entitylist_base.cpp): the table of slots   *)
(* that turns handles into entity pointers, threaded by two doubly linked  *)
(* lists that share one pair of link arrays: the active list and the free  *)
(* list of the slots that need no edict.  Also the only two callers of it  *)
(* on the server, CBaseEntity::PostConstructor and CBaseEntity::~CBaseEntity,*)
(* and the handle copies (EHANDLE members) other code keeps.               *)
(***************************************************************************)
EXTENDS Integers, Sequences

CONSTANTS
  NumEntries,    (* NUM_ENT_ENTRIES: the length of m_EntPtrArray.          *)
  MaxEdicts,     (* MAX_EDICTS: slots below it belong to edicts.           *)
  SerialMask,    (* SERIAL_MASK: the largest serial number.                *)
  FirstSerials,  (* What rand() & SERIAL_MASK gives in the constructor.    *)
  Entities,      (* The addresses entity objects are allocated at.         *)
  Holders,       (* The places that keep a copy of a handle.               *)
  MaxRemovals,   (* Bound: how often one slot is vacated.                  *)
  NULL           (* The null pointer.                                      *)

Slots == 0 .. NumEntries - 1

ASSUME SizesAssumption ==
  /\ NumEntries \in Nat
  /\ MaxEdicts \in Nat
  /\ MaxEdicts < NumEntries
  /\ SerialMask \in Nat
  /\ FirstSerials \subseteq 0 .. SerialMask
  /\ MaxRemovals \in Nat

ASSUME NullAssumption == NULL \notin Entities /\ NULL \notin Int

VARIABLES
  pEntity,   (* m_EntPtrArray[s].m_pEntity                                 *)
  serial,    (* m_EntPtrArray[s].m_SerialNumber                            *)
  prev,      (* m_EntPtrArray[s].m_pPrev; a slot in no list links itself   *)
  next,      (* m_EntPtrArray[s].m_pNext                                   *)
  active,    (* m_activeList: head and tail                                *)
  free,      (* m_freeNonNetworkableList: head and tail                    *)
  live,      (* the entity objects constructed and not yet destroyed       *)
  ref,       (* m_RefEHandle of every entity object                        *)
  removals,  (* history: how often a slot has been vacated                 *)
  held       (* what each holder kept: the handle and, as history, the     *)
             (* entity it was taken from and the slot's removals then      *)

links == <<prev, next, active, free>>
vars == <<pEntity, serial, links, live, ref, removals, held>>

Pointer == Slots \cup {NULL}
InvalidHandle == [entry |-> -1, serial |-> -1]
Handle == [entry : Slots, serial : 0 .. SerialMask] \cup {InvalidHandle}

TypeOK ==
  /\ pEntity \in [Slots -> Entities \cup {NULL}]
  /\ serial \in [Slots -> 0 .. SerialMask]
  /\ prev \in [Slots -> Pointer]
  /\ next \in [Slots -> Pointer]
  /\ active \in [head : Pointer, tail : Pointer]
  /\ free \in [head : Pointer, tail : Pointer]
  /\ live \in SUBSET Entities
  /\ ref \in [Entities -> Handle]
  /\ removals \in [Slots -> Nat]
  /\ held \in [Holders ->
                 [handle : Handle, of : Entities \cup {NULL}, removals : Nat]]

(***************************************************************************)
(* CEntInfoList.  A list is a record of the two shared link arrays and its *)
(* own head and tail; an operation returns the list it leaves behind.      *)
(***************************************************************************)
ListOf(p, n, ends) ==
  [prev |-> p, next |-> n, head |-> ends.head, tail |-> ends.tail]

Ends(l) == [head |-> l.head, tail |-> l.tail]

(* Faulty: takes the head of a list for a node that is on no list. *)
IsInListButHead(l, e) == l.prev[e] /= e /\ l.prev[e] /= NULL

IsInList(l, e) == l.prev[e] /= e

Unlinked(l, e) ==
  LET p == l.prev[e]
      n == l.next[e]
  IN  [prev |-> [s \in Slots |-> IF s = e THEN e
                                 ELSE IF s = n THEN p ELSE l.prev[s]],
       next |-> [s \in Slots |-> IF s = e THEN e
                                 ELSE IF s = p THEN n ELSE l.next[s]],
       head |-> IF p = NULL THEN n ELSE l.head,
       tail |-> IF n = NULL THEN p ELSE l.tail]

Unlink(l, e) == IF IsInList(l, e) THEN Unlinked(l, e) ELSE l

Appended(l, e) ==
  [prev |-> [s \in Slots |-> IF s = e THEN l.tail ELSE l.prev[s]],
   next |-> [s \in Slots |-> IF s = e THEN NULL
                             ELSE IF s = l.tail THEN e ELSE l.next[s]],
   head |-> IF l.tail = NULL THEN e ELSE l.head,
   tail |-> e]

(* Faulty: adds at the head. *)
AddedToHead(l, e) ==
  LET u == Unlink(l, e)
      r == Appended([prev |-> u.next, next |-> u.prev,
                     head |-> u.tail, tail |-> u.head], e)
  IN  [prev |-> r.next, next |-> r.prev, head |-> r.tail, tail |-> r.head]

AddToTail(l, e) == Appended(Unlink(l, e), e)

(***************************************************************************)
(* CBaseHandle.  The invalid handle indexes the last slot.                 *)
(***************************************************************************)
GetEntryIndex(h) == IF h = InvalidHandle THEN NumEntries - 1 ELSE h.entry

LookupEntity(h) ==
  IF h /= InvalidHandle /\ serial[h.entry] = h.serial
  THEN pEntity[h.entry]
  ELSE NULL

(* Faulty: the serial number is not masked; it is not incremented at all. *)
UnmaskedSerial(k) == k + 1
SameSerial(k) == k

NextSerial(k) == IF k = SerialMask THEN 0 ELSE k + 1

NothingHeld == [handle |-> InvalidHandle, of |-> NULL, removals |-> 0]

-----------------------------------------------------------------------------
(***************************************************************************)
(* The constructor: no slot is in a list, then the free list is built.  It *)
(* starts one past MAX_EDICTS.                                             *)
(***************************************************************************)
FirstFree == MaxEdicts + 1

Init ==
  /\ pEntity = [s \in Slots |-> NULL]
  /\ serial \in [Slots -> FirstSerials]
  /\ prev = [s \in Slots |-> IF s < FirstFree THEN s
                             ELSE IF s = FirstFree THEN NULL ELSE s - 1]
  /\ next = [s \in Slots |-> IF s < FirstFree THEN s
                             ELSE IF s = NumEntries - 1 THEN NULL ELSE s + 1]
  /\ active = [head |-> NULL, tail |-> NULL]
  /\ free = IF FirstFree < NumEntries
            THEN [head |-> FirstFree, tail |-> NumEntries - 1]
            ELSE [head |-> NULL, tail |-> NULL]
  /\ live = {}
  /\ ref = [e \in Entities |-> InvalidHandle]
  /\ removals = [s \in Slots |-> 0]
  /\ held = [c \in Holders |-> NothingHeld]

(* Faulty: SetRefEHandle is not called. *)
AddWithoutRef(e, s, p, n) ==
  LET list == AddToTail(ListOf(p, n, active), s) IN
  /\ pEntity' = [pEntity EXCEPT ![s] = e]
  /\ prev' = list.prev
  /\ next' = list.next
  /\ active' = Ends(list)
  /\ live' = live \cup {e}
  /\ UNCHANGED <<serial, ref, removals, held>>

(* AddEntityAtSlot, given the link arrays its caller left. *)
AddEntityAtSlot(e, s, p, n) ==
  LET list == AddToTail(ListOf(p, n, active), s) IN
  /\ pEntity' = [pEntity EXCEPT ![s] = e]
  /\ prev' = list.prev
  /\ next' = list.next
  /\ active' = Ends(list)
  /\ ref' = [ref EXCEPT ![e] = [entry |-> s, serial |-> serial[s]]]
  /\ live' = live \cup {e}
  /\ UNCHANGED <<serial, removals, held>>

(* PostConstructor of an entity that got the free edict s.  The engine     *)
(* hands out an edict again only after the entity that had it is gone.     *)
AddNetworkableEntity(e, s) ==
  /\ e \notin live
  /\ s < MaxEdicts
  /\ pEntity[s] = NULL
  /\ AddEntityAtSlot(e, s, prev, next)
  /\ UNCHANGED free

(* PostConstructor of a server-only entity. *)
AddNonNetworkableEntity(e) ==
  LET s == free.head
      rest == Unlink(ListOf(prev, next, free), s)
  IN  /\ e \notin live
      /\ s /= NULL
      /\ free' = Ends(rest)
      /\ AddEntityAtSlot(e, s, rest.prev, rest.next)

(* The same with the free list exhausted: a warning, and the entity lives  *)
(* on with an invalid handle.                                              *)
AddNonNetworkableEntityFails(e) ==
  /\ e \notin live
  /\ free.head = NULL
  /\ live' = live \cup {e}
  /\ UNCHANGED <<pEntity, serial, links, ref, removals, held>>

(* PostConstructor of an entity that attaches no edict (precaching, or     *)
(* EFL_NO_AUTO_EDICT_ATTACH): it is never put in the table.                *)
ConstructWithoutEdict(e) ==
  /\ e \notin live
  /\ live' = live \cup {e}
  /\ UNCHANGED <<pEntity, serial, links, ref, removals, held>>

(* Faulty: the handle of the entity is not invalidated. *)
RemoveKeepsRef(s) ==
  LET out == Unlink(ListOf(prev, next, active), s)
      back == AddToTail(ListOf(out.prev, out.next, free), s)
      list == IF s >= MaxEdicts THEN back ELSE out
  IN  /\ pEntity' = [pEntity EXCEPT ![s] = NULL]
      /\ serial' = [serial EXCEPT ![s] = NextSerial(@)]
      /\ removals' = [removals EXCEPT ![s] = @ + 1]
      /\ active' = Ends(out)
      /\ prev' = list.prev
      /\ next' = list.next
      /\ free' = IF s >= MaxEdicts THEN Ends(back) ELSE free
      /\ UNCHANGED ref

(* RemoveEntityAtSlot of an occupied slot. *)
RemoveEntityAtSlot(s) ==
  LET out == Unlink(ListOf(prev, next, active), s)
      back == AddToTail(ListOf(out.prev, out.next, free), s)
      list == IF s >= MaxEdicts THEN back ELSE out
  IN  /\ ref' = [ref EXCEPT ![pEntity[s]] = InvalidHandle]
      /\ pEntity' = [pEntity EXCEPT ![s] = NULL]
      /\ serial' = [serial EXCEPT ![s] = NextSerial(@)]
      /\ removals' = [removals EXCEPT ![s] = @ + 1]
      /\ active' = Ends(out)
      /\ prev' = list.prev
      /\ next' = list.next
      /\ free' = IF s >= MaxEdicts THEN Ends(back) ELSE free

(* ~CBaseEntity: RemoveEntity(GetRefEHandle()) looks at the slot only.     *)
Destroy(e) ==
  LET s == GetEntryIndex(ref[e]) IN
  /\ e \in live
  /\ live' = live \ {e}
  /\ IF pEntity[s] /= NULL
     THEN removals[s] < MaxRemovals /\ RemoveEntityAtSlot(s)
     ELSE UNCHANGED <<pEntity, serial, links, ref, removals>>
  /\ UNCHANGED held

(* CBaseHandle::Set: a holder copies the entity's own handle. *)
HoldHandle(c, e) ==
  /\ e \in live
  /\ held' = [held EXCEPT ![c] =
                [handle |-> ref[e], of |-> e,
                 removals |-> removals[GetEntryIndex(ref[e])]]]
  /\ UNCHANGED <<pEntity, serial, links, live, ref, removals>>

Next ==
  \E e \in Entities :
    \/ \E s \in Slots : AddNetworkableEntity(e, s)
    \/ AddNonNetworkableEntity(e)
    \/ AddNonNetworkableEntityFails(e)
    \/ ConstructWithoutEdict(e)
    \/ Destroy(e)
    \/ \E c \in Holders : HoldHandle(c, e)

Spec == Init /\ [][Next]_vars

-----------------------------------------------------------------------------
(***************************************************************************)
(* Properties.                                                             *)
(***************************************************************************)

(* Every occupied slot holds a constructed entity, and that entity's own   *)
(* handle names this slot with the current serial: the table never keeps a *)
(* pointer to a destroyed object (what AddEntityAtSlot and                 *)
(* RemoveEntityAtSlot keep in step), and no entity is in two slots.        *)
NoDanglingEntry ==
  \A s \in Slots : pEntity[s] /= NULL =>
    /\ pEntity[s] \in live
    /\ ref[pEntity[s]] = [entry |-> s, serial |-> serial[s]]

(* A kept handle gives the entity it was taken from as long as its slot    *)
(* was not vacated, and nothing once it was, until the serial number has   *)
(* gone all the way round (LookupEntity against the increment in           *)
(* RemoveEntityAtSlot).                                                    *)
HandleResolvesOnlyToItsEntity ==
  \A c \in Holders :
    LET h == held[c].handle
        age == removals[h.entry] - held[c].removals
    IN  h /= InvalidHandle /\ age <= SerialMask =>
          LookupEntity(h) = IF age = 0 THEN held[c].of ELSE NULL

(* The links agree with each other and with the contents of the slots.  A  *)
(* list of the slots S: its nodes' neighbours are other nodes of S that    *)
(* point back, and its ends are the nodes without a neighbour on that side. *)
WellLinked(l, S) ==
  /\ l.head \in S \cup {NULL}
  /\ l.tail \in S \cup {NULL}
  /\ l.head = NULL <=> l.tail = NULL
  /\ \A s \in S :
       /\ l.prev[s] \in (S \ {s}) \cup {NULL}
       /\ l.next[s] \in (S \ {s}) \cup {NULL}
       /\ l.prev[s] /= NULL => l.next[l.prev[s]] = s
       /\ l.next[s] /= NULL => l.prev[l.next[s]] = s
       /\ l.prev[s] = NULL <=> l.head = s
       /\ l.next[s] = NULL <=> l.tail = s

Detached(l, S) == \A s \in S : l.prev[s] = s /\ l.next[s] = s

ActiveSlots == {s \in Slots : pEntity[s] /= NULL}
FreeSlots == {s \in Slots : pEntity[s] = NULL /\ s >= FirstFree}
OtherSlots == {s \in Slots : pEntity[s] = NULL /\ s < FirstFree}

(* The two lists never mix, although CEntInfoList::Unlink takes its        *)
(* caller's word for which list a node is on: the occupied slots are on    *)
(* the active list, the empty ones past slot MAX_EDICTS on the free list,  *)
(* the other empty ones on none.                                           *)
ListsConsistent ==
  /\ WellLinked(ListOf(prev, next, active), ActiveSlots)
  /\ WellLinked(ListOf(prev, next, free), FreeSlots)
  /\ Detached(ListOf(prev, next, free), OtherSlots)

(* No entity loses its slot before it is destroyed, except the one in the  *)
(* last slot: RemoveEntity finds the slot by GetEntryIndex alone, and an   *)
(* entity that was never registered is looked for in the last one.         *)
OnlyTheLastSlotIsStolen ==
  [][\A s \in Slots : pEntity[s] /= NULL /\ pEntity'[s] = NULL =>
       s = NumEntries - 1 \/ pEntity[s] \notin live']_vars

-----------------------------------------------------------------------------
(***************************************************************************)
(* What the table promises (EntityRegistry): its two orders are read off   *)
(* the links of the two lists.                                             *)
(***************************************************************************)

(* The nodes met from a head along m_pNext, at most one more than there    *)
(* are slots so that a cycle shows.                                        *)
Chain(succ, head) ==
  LET node[k \in 1 .. NumEntries + 1] ==
        IF k = 1 THEN head
        ELSE IF node[k - 1] = NULL THEN NULL ELSE succ[node[k - 1]]
  IN  [k \in {j \in 1 .. NumEntries + 1 : node[j] /= NULL} |-> node[k]]

Registry == INSTANCE EntityRegistry WITH
  occupant <- pEntity,
  order <- Chain(next, active.head),
  pool <- Chain(next, free.head)

(* The table keeps the promise of EntityRegistry: registrations are listed *)
(* in order, removal takes out exactly one entry, and slots without an     *)
(* edict are reused first in, first out.                                   *)
ImplementsRegistry == Registry!Spec
=============================================================================
