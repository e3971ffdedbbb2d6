----------------------------- MODULE MCEventQueue -----------------------------
(***************************************************************************)
(* EventQueue with entities of one targetname, which is also the class of  *)
(* the second: addressed to door, an event reaches that one for its class  *)
(* once the others have lost their name.                                   *)
(***************************************************************************)
EXTENDS EventQueue

CONSTANTS
  door,    (* A targetname, and a classname.                               *)
  relay    (* A classname.                                                 *)

FirstNames == [e \in Entities |-> door]
Classnames == [e \in Entities |-> IF e = 2 THEN door ELSE relay]
=============================================================================
