----------------------------- MODULE MCLogicRelay -----------------------------
(***************************************************************************)
(* LogicRelay with an output of two actions.                               *)
(***************************************************************************)
EXTENDS LogicRelay

(* The action due first is limited, or the one due last is too. *)
LimitedFirst == <<[id |-> 1, delay |-> 2, times |-> 0],
                  [id |-> 2, delay |-> 0, times |-> 2]>>
LimitedLast  == <<[id |-> 1, delay |-> 2, times |-> 1],
                  [id |-> 2, delay |-> 0, times |-> 2]>>

Connected == [id |-> 3, delay |-> 0, times |-> EVENT_FIRE_ALWAYS]
=============================================================================
