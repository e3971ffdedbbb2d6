---------------------------- MODULE EntityFactory ----------------------------
(***************************************************************************)
(* How the plugin (utils/serverplugin_addent_p2) makes entity classes for  *)
(* a server it was not compiled with.  A class of the plugin derives from  *)
(* a stub of the server's class, in which every virtual function is a      *)
(* placeholder.  The constructor of the class's CEntityFactory, a static   *)
(* object, builds the table __vtable_new in which the placeholders are     *)
(* replaced by the server's functions, and installs the factory; the       *)
(* entities it creates get that table.                                     *)
(*                                                                         *)
(* A table has the RTTI pointer at 0 and virtual function i at i + 1;      *)
(* function 0 is the destructor.                                           *)
(***************************************************************************)
EXTENDS Integers

CONSTANTS
  Classes,      (* The classes linked with LINK_ENTITY_TO_CLASS.           *)
  Objects,      (* The entities the server may create.                     *)
  VtSize,       (* baseClass_vt_size: the functions of the server's class. *)
  VtLen,        (* vtLen in DECLARE_CLASS: those of the plugin's class.    *)
  Overridden,   (* The functions of the stub that the class overrides.     *)
  PluginVt,     (* The class's table as compiled.                          *)
  StubVt,       (* The functions in the table of its stub, from 0.         *)
  ServerVt,     (* The table in server.dll of the class the stub is for.   *)
  NULL

ASSUME SizesAssumption ==
  /\ VtLen \in [Classes -> Nat \ {0}]
  /\ VtSize \in [Classes -> Nat \ {0}]
  /\ \A c \in Classes : VtSize[c] <= VtLen[c]

(* The functions of the class that the server's class has too, but for the *)
(* destructor, which every class overrides.                                *)
Inherited(c) == 1 .. VtSize[c] - 1

(* The linker gives an override an address of its own; it does not when it *)
(* folds an override that is identical to the placeholder.                 *)
ASSUME NoFoldedOverride ==
  \A c \in Classes : \A i \in Inherited(c) :
    i \in Overridden[c] <=> PluginVt[c][i + 1] /= StubVt[c][i]

ASSUME NullAssumption == NULL \notin Classes

VARIABLES
  serverDLL,          (* LoadLib has run                                   *)
  table,              (* __vtable_new of each class                        *)
  factories,          (* the classes whose factory is in the dictionary    *)
  building,           (* the class whose factory's constructor is running  *)
  pc,                 (* where that constructor is                         *)
  i,                  (* its loop variable                                 *)
  callBaseDestructor, (* CBaseEntity::callBaseDestructor                   *)
  class,              (* the class of each entity alive                    *)
  created,            (* history: objects the server's constructor ran on  *)
  destructed          (* history: and those its destructor ran on          *)

vars == <<serverDLL, table, factories, building, pc, i, callBaseDestructor,
          class, created, destructed>>

(* get_vt and get_vt2, the two objects the constructor makes to read their *)
(* tables.                                                                 *)
Probe(c) == <<"get_vt", c>>
StubProbe(c) == <<"get_vt2", c>>
Probes == {Probe(c) : c \in Classes} \cup {StubProbe(c) : c \in Classes}

TypeOK ==
  /\ serverDLL \in BOOLEAN
  /\ \A c \in Classes : table[c] = NULL \/ DOMAIN table[c] = 0 .. VtLen[c]
  /\ factories \subseteq Classes
  /\ building \in Classes \cup {NULL}
  /\ pc \in {"idle", "patch", "get_vt", "get_vt2", "install"}
  /\ building = NULL <=> pc = "idle"
  /\ i \in Nat
  /\ callBaseDestructor \in BOOLEAN
  /\ class \in [Objects -> Classes \cup {NULL}]
  /\ created \subseteq Objects
  /\ destructed \subseteq Objects \cup Probes

Init ==
  /\ serverDLL = FALSE
  /\ table = [c \in Classes |-> NULL]
  /\ factories = {}
  /\ building = NULL
  /\ pc = "idle"
  /\ i = 0
  /\ callBaseDestructor = TRUE
  /\ class = [o \in Objects |-> NULL]
  /\ created = {}
  /\ destructed = {}

-----------------------------------------------------------------------------
(***************************************************************************)
(* CEntityFactory's constructor.  The order in which the static objects of *)
(* the source files are constructed is open.                               *)
(***************************************************************************)
objects == <<class, created>>

(* Faulty: copies as many entries as there are functions. *)
CopyOneShort(c) ==
  /\ building = NULL
  /\ c \notin factories
  /\ building' = c
  /\ serverDLL' = TRUE
  /\ table' = [table EXCEPT ![c] =
                 [k \in 0 .. VtLen[c] - 1 |-> IF k = 0 THEN ServerVt[c][0]
                                              ELSE PluginVt[c][k]]]
  /\ i' = 1
  /\ pc' = "patch"
  /\ UNCHANGED <<factories, callBaseDestructor, objects, destructed>>

(* LoadLib, the two probes, the copy of the compiled table with the        *)
(* server's RTTI pointer.                                                  *)
CopyTable(c) ==
  /\ building = NULL
  /\ c \notin factories
  /\ building' = c
  /\ serverDLL' = TRUE
  /\ table' = [table EXCEPT ![c] =
                 [k \in 0 .. VtLen[c] |-> IF k = 0 THEN ServerVt[c][0]
                                          ELSE PluginVt[c][k]]]
  /\ i' = 1
  /\ pc' = "patch"
  /\ UNCHANGED <<factories, callBaseDestructor, objects, destructed>>

(* Faulty: forgets that the RTTI pointer shifts the table by one. *)
PatchShifted ==
  /\ pc = "patch"
  /\ i < VtSize[building]
  /\ table' = IF table[building][i] = StubVt[building][i]
              THEN [table EXCEPT ![building][i] = ServerVt[building][i]]
              ELSE table
  /\ i' = i + 1
  /\ UNCHANGED <<serverDLL, factories, building, pc, callBaseDestructor,
                 objects, destructed>>

PatchFunction ==
  /\ pc = "patch"
  /\ i < VtSize[building]
  /\ table' = IF table[building][i + 1] = StubVt[building][i]
              THEN [table EXCEPT ![building][i + 1] =
                      ServerVt[building][i + 1]]
              ELSE table
  /\ i' = i + 1
  /\ UNCHANGED <<serverDLL, factories, building, pc, callBaseDestructor,
                 objects, destructed>>

Patched ==
  /\ pc = "patch"
  /\ i >= VtSize[building]
  /\ callBaseDestructor' = FALSE
  /\ pc' = "get_vt"
  /\ UNCHANGED <<serverDLL, table, factories, building, i, objects,
                 destructed>>

(* ~CBaseEntity of the plugin, the last destructor of every delete. *)
BaseDestructor(o) ==
  destructed' = IF callBaseDestructor THEN destructed \cup {o} ELSE destructed

DeleteProbe ==
  /\ \/ pc = "get_vt" /\ BaseDestructor(Probe(building)) /\ pc' = "get_vt2"
     \/ /\ pc = "get_vt2"
        /\ BaseDestructor(StubProbe(building))
        /\ pc' = "install"
  /\ UNCHANGED <<serverDLL, table, factories, building, i, callBaseDestructor,
                 objects>>

(* Faulty: the destructor is not switched back. *)
InstallOnly ==
  /\ pc = "install"
  /\ factories' = factories \cup {building}
  /\ building' = NULL
  /\ pc' = "idle"
  /\ UNCHANGED <<serverDLL, table, i, callBaseDestructor, objects, destructed>>

InstallFactory ==
  /\ pc = "install"
  /\ callBaseDestructor' = TRUE
  /\ factories' = factories \cup {building}
  /\ building' = NULL
  /\ pc' = "idle"
  /\ UNCHANGED <<serverDLL, table, i, objects, destructed>>

(***************************************************************************)
(* The server, once the plugin is loaded: the dictionary's Create calls    *)
(* the factory, and the entity is deleted through its destructor.          *)
(***************************************************************************)
Loaded == factories = Classes /\ building = NULL

Create(c, o) ==
  /\ Loaded
  /\ c \in factories
  /\ o \notin created
  /\ class' = [class EXCEPT ![o] = c]
  /\ created' = created \cup {o}
  /\ UNCHANGED <<serverDLL, table, factories, building, pc, i,
                 callBaseDestructor, destructed>>

Delete(o) ==
  /\ Loaded
  /\ class[o] /= NULL
  /\ BaseDestructor(o)
  /\ class' = [class EXCEPT ![o] = NULL]
  /\ UNCHANGED <<serverDLL, table, factories, building, pc, i,
                 callBaseDestructor, created>>

Next ==
  \/ \E c \in Classes : CopyTable(c)
  \/ PatchFunction \/ Patched \/ DeleteProbe \/ InstallFactory
  \/ \E o \in Objects : Delete(o) \/ \E c \in Classes : Create(c, o)

Spec == Init /\ [][Next]_vars

-----------------------------------------------------------------------------
(***************************************************************************)
(* Properties.                                                             *)
(***************************************************************************)

(* The table of an installed class has the server's RTTI pointer and every *)
(* function in its place: the plugin's where the class overrides or adds   *)
(* one, and for its destructor, and the server's where it does not.        *)
TablesComplete ==
  \A c \in factories :
    /\ table[c][0] = ServerVt[c][0]
    /\ \A k \in 0 .. VtLen[c] - 1 :
         table[c][k + 1] = IF k \in Inherited(c) \ Overridden[c]
                           THEN ServerVt[c][k + 1] ELSE PluginVt[c][k + 1]

(* The server's destructor runs on the entities its constructor ran on and *)
(* that were deleted, all of them, and never on a probe, on which the      *)
(* server's constructor did not run (callBaseDestructor).                  *)
ServerDestructsItsOwn ==
  destructed = {o \in created : class[o] = NULL}
=============================================================================
