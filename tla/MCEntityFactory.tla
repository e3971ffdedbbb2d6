--------------------------- MODULE MCEntityFactory ---------------------------
(***************************************************************************)
(* EntityFactory with the plugin's two classes in small: prop_test, which  *)
(* overrides two functions of the longer table, and                        *)
(* info_datadesc_accessor, here with a function it adds.                   *)
(***************************************************************************)
EXTENDS EntityFactory

CONSTANTS prop_test, info_datadesc_accessor

Linked == {prop_test, info_datadesc_accessor}

Sizes == [c \in Linked |-> IF c = prop_test THEN 4 ELSE 3]
Lens == [c \in Linked |-> 4]
Overrides == [c \in Linked |-> IF c = prop_test THEN {1, 2} ELSE {1}]

(* The placeholders are alike, so the linker may have folded them into one.*)
Placeholder == <<"placeholder">>

Stubs == [c \in Linked |-> [k \in 0 .. 3 |-> Placeholder]]

Servers == [c \in Linked |-> [k \in 0 .. 4 |-> <<"server", c, k - 1>>]]

Compiled ==
  [c \in Linked |-> [k \in 0 .. Lens[c] |->
     IF k - 1 \in Inherited(c) \ Overrides[c] THEN Placeholder
     ELSE <<"plugin", c, k - 1>>]]
=============================================================================
