---------------------------- MODULE EntityRegistry ----------------------------
(***************************************************************************)
(* What the handle table promises its users, without links: which entity   *)
(* occupies which slot, the occupied slots in the order their entities     *)
(* were added (the order of FirstHandle/NextHandle), and the slots without *)
(* an edict in the order they will be reused.  CBaseEntityList implements  *)
(* it with two intrusive lists (see EntityList for the mapping).           *)
(***************************************************************************)
EXTENDS Integers, SequencesExt

CONSTANTS
  NumEntries,   (* NUM_ENT_ENTRIES                                         *)
  MaxEdicts,    (* MAX_EDICTS                                              *)
  Entities,     (* The entities that can be registered.                    *)
  NULL          (* No entity.                                              *)

VARIABLES
  occupant,     (* The entity in each slot.                                *)
  order,        (* The occupied slots, oldest registration first.          *)
  pool          (* The free slots without an edict, next to be used first. *)

vars == <<occupant, order, pool>>

Init ==
  /\ occupant = [s \in 0 .. NumEntries - 1 |-> NULL]
  /\ order = <<>>
  /\ pool = [k \in 1 .. NumEntries - 1 - MaxEdicts |-> MaxEdicts + k]

Registered(e) == \E s \in DOMAIN occupant : occupant[s] = e

Occupy(e, s) ==
  /\ ~Registered(e)
  /\ occupant[s] = NULL
  /\ occupant' = [occupant EXCEPT ![s] = e]
  /\ order' = Append(order, s)

RegisterNetworkable(e, s) ==
  /\ s < MaxEdicts
  /\ Occupy(e, s)
  /\ UNCHANGED pool

RegisterServerOnly(e) ==
  /\ pool /= <<>>
  /\ Occupy(e, Head(pool))
  /\ pool' = Tail(pool)

Unregister(s) ==
  /\ occupant[s] /= NULL
  /\ occupant' = [occupant EXCEPT ![s] = NULL]
  /\ \E k \in DOMAIN order : order[k] = s /\ order' = RemoveAt(order, k)
  /\ pool' = IF s < MaxEdicts THEN pool ELSE Append(pool, s)

Next ==
  \/ \E e \in Entities :
       \/ \E s \in DOMAIN occupant : RegisterNetworkable(e, s)
       \/ RegisterServerOnly(e)
  \/ \E s \in DOMAIN occupant : Unregister(s)

Spec == Init /\ [][Next]_vars
=============================================================================
