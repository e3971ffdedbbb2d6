------------------------- MODULE EntityFactoryProofs -------------------------
(***************************************************************************)
(* Proofs about EntityFactory: for tables of any size and any choice of    *)
(* overridden functions, the loop leaves every function in its place.      *)
(***************************************************************************)
EXTENDS EntityFactory, TLAPS

(* A table t of class c in which the functions below n have been looked at.*)
PatchedBelow(t, c, n) ==
  /\ t = [k \in 0 .. VtLen[c] |-> t[k]]
  /\ t[0] = ServerVt[c][0]
  /\ \A k \in 0 .. VtLen[c] - 1 :
       t[k + 1] = IF k \in Inherited(c) \ Overridden[c] /\ k < n
                  THEN ServerVt[c][k + 1] ELSE PluginVt[c][k + 1]

TablesInv ==
  /\ table = [c \in Classes |-> table[c]]
  /\ \A c \in factories : PatchedBelow(table[c], c, VtSize[c])

LoopInv ==
  /\ building \notin factories
  /\ building /= NULL => /\ i \in 1 .. VtSize[building]
                         /\ PatchedBelow(table[building], building, i)
  /\ pc \in {"get_vt", "get_vt2", "install"} => i = VtSize[building]

DestructorInv ==
  /\ callBaseDestructor <=> pc \in {"idle", "patch"}
  /\ \A o \in Objects :
       class[o] /= NULL => class[o] \in factories /\ o \in created
  /\ destructed = {o \in created : class[o] = NULL}

IInv == TypeOK /\ TablesInv /\ LoopInv /\ DestructorInv

-----------------------------------------------------------------------------
(* No factory has been constructed when the plugin is loaded. *)
LEMMA InitIInv == Init => IInv
<1> SUFFICES ASSUME Init  PROVE IInv
  OBVIOUS
<1>1. TypeOK
  BY DEF Init, TypeOK
<1>2. TablesInv /\ LoopInv
  BY DEF Init, TablesInv, LoopInv
<1>3. DestructorInv
  BY DEF Init, DestructorInv
<1> QED  BY <1>1, <1>2, <1>3 DEF IInv

(* CopyTable starts the loop with a table in which nothing is patched. *)
LEMMA CopyTableIInv ==
  ASSUME IInv, NEW c \in Classes, CopyTable(c)
  PROVE  IInv'
<1> USE SizesAssumption, NullAssumption
<1>1. /\ table'[c] = [k \in 0 .. VtLen[c] |-> IF k = 0 THEN ServerVt[c][0]
                                             ELSE PluginVt[c][k]]
      /\ \A d \in Classes \ {c} : table'[d] = table[d]
      /\ table' = [d \in Classes |-> table'[d]]
  BY DEF IInv, TablesInv, CopyTable
<1>2. TypeOK'
  BY <1>1 DEF IInv, TypeOK, CopyTable, objects
<1>3. PatchedBelow(table'[c], c, 1)
  BY <1>1 DEF PatchedBelow, Inherited
<1>4. TablesInv'
  <2>1. ASSUME NEW d \in factories'
        PROVE  PatchedBelow(table'[d], d, VtSize[d])
    <3>1. d \in factories /\ d \in Classes \ {c}
      BY DEF CopyTable, IInv, TypeOK
    <3>2. PatchedBelow(table[d], d, VtSize[d])
      BY <3>1 DEF IInv, TablesInv
    <3> QED  BY <1>1, <3>1, <3>2
  <2> QED  BY <1>1, <2>1 DEF TablesInv
<1>5. LoopInv'
  BY <1>3 DEF LoopInv, CopyTable
<1>6. DestructorInv'
  BY DEF IInv, DestructorInv, CopyTable, objects, TypeOK
<1> QED  BY <1>2, <1>4, <1>5, <1>6 DEF IInv

(* One turn of the loop.  The function looked at still is the compiled     *)
(* one, so it is the placeholder exactly if the class does not override it.*)
LEMMA PatchFunctionIInv ==
  ASSUME IInv, PatchFunction
  PROVE  IInv'
<1> USE SizesAssumption, NullAssumption
<1> DEFINE b == building
<1>1. b \in Classes /\ i \in Inherited(b) /\ i \in 1 .. VtSize[b] - 1
      /\ i + 1 \in 0 .. VtLen[b] /\ b \notin factories
  BY DEF IInv, TypeOK, LoopInv, PatchFunction, Inherited
<1>2. table[b][i + 1] = PluginVt[b][i + 1]
  <2>1. PatchedBelow(table[b], b, i) /\ i \in 0 .. VtLen[b] - 1 /\ ~(i < i)
    BY <1>1 DEF IInv, LoopInv, TypeOK
  <2> QED  BY <2>1 DEF PatchedBelow
<1>3. /\ table' = [d \in Classes |-> table'[d]]
      /\ \A d \in Classes \ {b} : table'[d] = table[d]
  BY <1>1 DEF IInv, TablesInv, PatchFunction
<1>4. /\ table'[b] = [k \in 0 .. VtLen[b] |-> table'[b][k]]
      /\ \A k \in 0 .. VtLen[b] \ {i + 1} : table'[b][k] = table[b][k]
      /\ table'[b][i + 1] = IF table[b][i + 1] = StubVt[b][i]
                            THEN ServerVt[b][i + 1] ELSE table[b][i + 1]
  <2>1. /\ table[b] = [k \in 0 .. VtLen[b] |-> table[b][k]]
        /\ table = [d \in Classes |-> table[d]]
    BY <1>1 DEF IInv, TablesInv, LoopInv, PatchedBelow, TypeOK
  <2>2. CASE table[b][i + 1] = StubVt[b][i]
    <3>1. table'[b] = [table[b] EXCEPT ![i + 1] = ServerVt[b][i + 1]]
      BY <1>1, <2>1, <2>2 DEF PatchFunction
    <3> QED  BY <1>1, <2>1, <2>2, <3>1
  <2>3. CASE table[b][i + 1] /= StubVt[b][i]
    BY <1>1, <2>1, <2>3 DEF PatchFunction
  <2> QED  BY <2>2, <2>3
<1>5. table'[b][i + 1] = IF i \in Inherited(b) \ Overridden[b]
                         THEN ServerVt[b][i + 1] ELSE PluginVt[b][i + 1]
  BY <1>1, <1>2, <1>4, NoFoldedOverride
<1>6. i' = i + 1 /\ building' = b /\ pc' = pc /\ factories' = factories
  BY DEF PatchFunction
<1>7. PatchedBelow(table'[b], b, i + 1)
  <2>1. PatchedBelow(table[b], b, i)
    BY <1>1 DEF IInv, LoopInv, TypeOK
  <2>2. table'[b][0] = ServerVt[b][0]
    BY <1>1, <1>4, <2>1 DEF PatchedBelow
  <2>3. ASSUME NEW k \in 0 .. VtLen[b] - 1
        PROVE  table'[b][k + 1] =
                 IF k \in Inherited(b) \ Overridden[b] /\ k < i + 1
                 THEN ServerVt[b][k + 1] ELSE PluginVt[b][k + 1]
    <3>1. CASE k = i
      BY <1>1, <1>5, <3>1
    <3>2. CASE k /= i
      <4>1. table'[b][k + 1] = table[b][k + 1]
        <5>1. k + 1 \in 0 .. VtLen[b] /\ k + 1 /= i + 1
          BY <1>1, <3>2
        <5> QED  BY <1>4, <5>1
      <4>2. k < i + 1 <=> k < i
        BY <1>1, <3>2
      <4> QED  BY <2>1, <4>1, <4>2 DEF PatchedBelow
    <3> QED  BY <3>1, <3>2
  <2> QED  BY <1>4, <1>6, <2>2, <2>3 DEF PatchedBelow
<1>8. TypeOK'
  BY <1>1, <1>3, <1>4 DEF IInv, TypeOK, PatchFunction, objects
<1>9. TablesInv'
  <2>1. ASSUME NEW d \in factories'
        PROVE  PatchedBelow(table'[d], d, VtSize[d])
    <3>1. d \in factories /\ d \in Classes \ {b}
      BY <1>1, <1>6 DEF IInv, TypeOK
    <3>2. PatchedBelow(table[d], d, VtSize[d])
      BY <3>1 DEF IInv, TablesInv
    <3> QED  BY <1>3, <3>1, <3>2
  <2> QED  BY <1>3, <2>1 DEF TablesInv
<1>10. LoopInv'
  <2>1. i' \in 1 .. VtSize[building']
    BY <1>1, <1>6
  <2>2. pc' = "patch"
    BY <1>6 DEF PatchFunction
  <2>3. PatchedBelow(table'[b], b, i')
    BY <1>6, <1>7
  <2> QED  BY <1>1, <1>6, <2>1, <2>2, <2>3 DEF LoopInv
<1>11. DestructorInv'
  BY DEF IInv, DestructorInv, PatchFunction, objects
<1> QED  BY <1>8, <1>9, <1>10, <1>11 DEF IInv

(* No other action touches a table. *)
LEMMA SameTables ==
  ASSUME TablesInv, table' = table, factories' = factories
  PROVE  TablesInv'
  BY DEF TablesInv, PatchedBelow

(* After the loop every function has been looked at. *)
LEMMA PatchedIInv ==
  ASSUME IInv, Patched
  PROVE  IInv'
<1>1. TypeOK'
  BY DEF IInv, TypeOK, Patched, objects
<1>2. TablesInv'
  BY SameTables DEF IInv, Patched
<1>3. LoopInv'
  BY SizesAssumption DEF IInv, LoopInv, PatchedBelow, TypeOK, Patched
<1>4. DestructorInv'
  BY DEF IInv, DestructorInv, Patched, objects
<1> QED  BY <1>1, <1>2, <1>3, <1>4 DEF IInv

(* The probes are deleted while the server's destructor is switched off. *)
LEMMA DeleteProbeIInv ==
  ASSUME IInv, DeleteProbe
  PROVE  IInv'
<1>1. destructed' = destructed
  BY DEF IInv, DestructorInv, DeleteProbe, BaseDestructor
<1>2. TypeOK'
  BY <1>1 DEF IInv, TypeOK, DeleteProbe, objects
<1>3. TablesInv'
  BY SameTables DEF IInv, DeleteProbe
<1>4. LoopInv'
  BY DEF IInv, LoopInv, DeleteProbe
<1>5. DestructorInv'
  BY <1>1 DEF IInv, DestructorInv, DeleteProbe, objects
<1> QED  BY <1>2, <1>3, <1>4, <1>5 DEF IInv

(* A class is installed with its loop complete. *)
LEMMA InstallFactoryIInv ==
  ASSUME IInv, InstallFactory
  PROVE  IInv'
<1>1. /\ building \in Classes
      /\ PatchedBelow(table[building], building, VtSize[building])
  BY DEF IInv, TypeOK, LoopInv, InstallFactory
<1>2. TypeOK'
  BY <1>1 DEF IInv, TypeOK, InstallFactory, objects
<1>3. TablesInv'
  BY <1>1 DEF IInv, TablesInv, PatchedBelow, InstallFactory
<1>4. LoopInv'
  BY NullAssumption, <1>1 DEF IInv, TypeOK, LoopInv, InstallFactory
<1>5. DestructorInv'
  BY DEF IInv, DestructorInv, InstallFactory, objects
<1> QED  BY <1>2, <1>3, <1>4, <1>5 DEF IInv

(* Entities come into being and go only while the destructor is on. *)
LEMMA CreateIInv ==
  ASSUME IInv, NEW c \in Classes, NEW o \in Objects, Create(c, o)
  PROVE  IInv'
<1>1. TypeOK'
  BY DEF IInv, TypeOK, Create
<1>2. TablesInv'
  BY SameTables DEF IInv, Create
<1>3. LoopInv'
  BY DEF IInv, LoopInv, Create
<1>4. DestructorInv'
  BY NullAssumption DEF IInv, TypeOK, DestructorInv, Create
<1> QED  BY <1>1, <1>2, <1>3, <1>4 DEF IInv

(* The deleted entity gets the server's destructor. *)
LEMMA DeleteIInv ==
  ASSUME IInv, NEW o \in Objects, Delete(o)
  PROVE  IInv'
<1>1. destructed' = destructed \cup {o} /\ o \in created
  BY NullAssumption
  DEF IInv, TypeOK, DestructorInv, Delete, Loaded, BaseDestructor
<1>2. TypeOK'
  BY <1>1 DEF IInv, TypeOK, Delete
<1>3. TablesInv'
  BY SameTables DEF IInv, Delete
<1>4. LoopInv'
  BY DEF IInv, LoopInv, Delete
<1>5. DestructorInv'
  BY <1>1 DEF IInv, TypeOK, DestructorInv, Delete
<1> QED  BY <1>2, <1>3, <1>4, <1>5 DEF IInv

(* Every reachable state satisfies the invariant of the constructor's loop *)
(* and of the destructor switch.                                           *)
THEOREM FactoryInductive == Spec => []IInv
<1>1. IInv /\ [Next]_vars => IInv'
  <2> SUFFICES ASSUME IInv, [Next]_vars  PROVE IInv'
    OBVIOUS
  <2>1. ASSUME NEW c \in Classes, CopyTable(c)  PROVE IInv'
    BY <2>1, CopyTableIInv
  <2>2. CASE PatchFunction
    BY <2>2, PatchFunctionIInv
  <2>3. CASE Patched
    BY <2>3, PatchedIInv
  <2>4. CASE DeleteProbe
    BY <2>4, DeleteProbeIInv
  <2>5. CASE InstallFactory
    BY <2>5, InstallFactoryIInv
  <2>6. ASSUME NEW o \in Objects, Delete(o)  PROVE IInv'
    BY <2>6, DeleteIInv
  <2>7. ASSUME NEW o \in Objects, NEW c \in Classes, Create(c, o)  PROVE IInv'
    BY <2>7, CreateIInv
  <2>8. CASE UNCHANGED vars
    BY <2>8 DEF vars, objects, IInv, TypeOK, TablesInv, LoopInv, DestructorInv,
                PatchedBelow
  <2> QED
    BY <2>1, <2>2, <2>3, <2>4, <2>5, <2>6, <2>7, <2>8 DEF Next
<1> QED  BY InitIInv, <1>1, PTL DEF Spec

(* Looking at the functions below VtSize completes the table. *)
LEMMA TablesCompleteFromIInv == IInv => TablesComplete
<1> SUFFICES ASSUME IInv, NEW c \in factories
             PROVE  /\ table[c][0] = ServerVt[c][0]
                    /\ \A k \in 0 .. VtLen[c] - 1 :
                         table[c][k + 1] =
                           IF k \in Inherited(c) \ Overridden[c]
                           THEN ServerVt[c][k + 1] ELSE PluginVt[c][k + 1]
  BY DEF TablesComplete
<1>1. c \in Classes /\ PatchedBelow(table[c], c, VtSize[c])
  BY DEF IInv, TypeOK, TablesInv
<1>2. \A k \in Inherited(c) : k < VtSize[c]
  BY <1>1, SizesAssumption DEF Inherited
<1> QED  BY <1>1, <1>2 DEF PatchedBelow

(* The table of an installed class is complete, whatever its size and      *)
(* whichever functions the class overrides (CEntityFactory's constructor). *)
THEOREM FactoryTables == Spec => []TablesComplete
  BY FactoryInductive, TablesCompleteFromIInv, PTL

(* The server's destructor runs on exactly the entities deleted. *)
THEOREM FactoryDestructors == Spec => []ServerDestructsItsOwn
<1>1. IInv => ServerDestructsItsOwn
  BY DEF IInv, DestructorInv, ServerDestructsItsOwn
<1> QED  BY FactoryInductive, <1>1, PTL

(* Every variable keeps its type: a table has as many entries as its class *)
(* has functions, and one more.                                            *)
THEOREM Typing == Spec => []TypeOK
<1>1. IInv => TypeOK
  BY DEF IInv
<1> QED  BY FactoryInductive, <1>1, PTL
=============================================================================
