----------------------------- MODULE EntityOutput -----------------------------
(***************************************************************************)
(* CBaseEntityOutput (game/server/cbase.cpp): the list of actions behind   *)
(* one output of an entity.  Firing the output posts an event for every    *)
(* action and takes out the actions that have fired their number of times. *)
(* An action is a record                                                   *)
(*   id      m_iIDStamp, and stands for its target, input and parameter    *)
(*   delay   m_flDelay                                                     *)
(*   times   m_nTimesToFire                                                *)
(***************************************************************************)
EXTENDS Selection

EVENT_FIRE_ALWAYS == -1

Actions(list) == {list[i] : i \in DOMAIN list}

(* Faulty: taken as it is. *)
TimesAsRead(n) == n

(* A parsed m_nTimesToFire of 0 means always. *)
ParsedTimes(n) == IF n = 0 THEN EVENT_FIRE_ALWAYS ELSE n

AddEventAction(list, action) == <<action>> \o list

(* The walk of RemoveEventAction never advances its pPrevAction, so when   *)
(* it finds the action it empties the list.                                *)
RemoveEventAction(list, action) ==
  IF action \in Actions(list) THEN <<>> ELSE list

(* Faulty: the delay of the last action. *)
LastDelay(list) == IF list = <<>> THEN 0 ELSE list[Len(list)].delay

(* The maximum starts from 0. *)
GetMaxDelay(list) ==
  LET delays == {0} \cup {a.delay : a \in Actions(list)}
  IN  CHOOSE d \in delays : \A other \in delays : other <= d

(* m_nTimesToFire after one more firing. *)
Spent(action) ==
  IF action.times = EVENT_FIRE_ALWAYS THEN action
  ELSE [action EXCEPT !.times = @ - 1]

Firing(list) == [i \in DOMAIN list |-> Spent(list[i])]

(* Faulty: looks at the number of times before it is counted down. *)
SpentAfterFire(list) ==
  Firing(Selected(list, {a \in Actions(list) : a.times /= 0}))

(* The list FireOutput leaves. *)
AfterFire(list) ==
  Selected(Firing(list), {a \in Actions(Firing(list)) : a.times /= 0})
=============================================================================
