------------------------------ MODULE TimedEvents ------------------------------
(***************************************************************************)
(* What the event queue promises: a set of pending events; posting adds    *)
(* one, cancelling takes any number out without firing them, and the one   *)
(* that fires next is always the one due first, the oldest of those due at *)
(* the same time, and never before its time.  CEventQueue implements it    *)
(* (see MCEventQueue).                                                     *)
(***************************************************************************)
EXTENDS Integers, Sequences

CONSTANTS
  Events,      (* What can be posted: records with a number and a due time. *)
  MaxTime      (* Bound: how far time runs.                                *)

VARIABLES
  now,         (* The time.                                                *)
  pending,     (* The events posted and neither fired nor cancelled.       *)
  last,        (* The number of the event posted last.                     *)
  fired        (* The numbers of the events fired, in order.               *)

vars == <<now, pending, last, fired>>

Before(a, b) == a.time < b.time \/ (a.time = b.time /\ a.id < b.id)

Init == now = 0 /\ pending = {} /\ last = 0 /\ fired = <<>>

Post(ev) ==
  /\ ev.id = last + 1
  /\ ev.time >= now
  /\ pending' = pending \cup {ev}
  /\ last' = ev.id
  /\ UNCHANGED <<now, fired>>

Cancel(gone) ==
  /\ pending' = pending \ gone
  /\ UNCHANGED <<now, last, fired>>

Fire(ev) ==
  /\ ev.time <= now
  /\ \A other \in pending \ {ev} : Before(ev, other)
  /\ pending' = pending \ {ev}
  /\ fired' = Append(fired, ev.id)
  /\ UNCHANGED <<now, last>>

Tick == now < MaxTime /\ now' = now + 1 /\ UNCHANGED <<pending, last, fired>>

Next ==
  \/ \E ev \in Events : Post(ev)
  \/ \E gone \in SUBSET pending : Cancel(gone)
  \/ \E ev \in pending : Fire(ev)
  \/ Tick

Spec == Init /\ [][Next]_vars
=============================================================================
