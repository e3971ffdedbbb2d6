----------------------------- MODULE ServerFrame -----------------------------
(***************************************************************************)
(* One tick of the server: GameFrame (game/server/gameinterface.cpp) with  *)
(* the two lists it works from, of the entities that think or move         *)
(* (CSimThinkManager) and of those whose touches are to be checked         *)
(* (CEntityTouchManager, both in entitylist.cpp), and the deletions that   *)
(* handlers ask for meanwhile.  Both lists are copied before the loop and  *)
(* both copies hold plain pointers.                                        *)
(*                                                                         *)
(* An entity stands for a slot of the entity table: once destroyed, it may *)
(* be created again.                                                       *)
(***************************************************************************)
EXTENDS Integers, Sequences, FiniteSets

CONSTANTS Ents,
          Thinks,          \* how many think functions an entity has at most
          WithContexts,    \* entities with think functions that have a context
          Delays,          \* how many ticks ahead game code sets a think
          MaxTick,         \* bound: simulating frames
          MaxTouch,        \* bound: length of the list of touches
          PlayerSimulated  \* entities a player's commands simulate

Never == -1                \* TICK_NEVER_THINK

\* Think function 0 is the one without a context, -1 in the code.
Functions == 0 .. Thinks - 1
FunctionsOf(e) == IF e \in WithContexts THEN Functions ELSE {0}

ASSUME FrameConstants == /\ Thinks \in Nat \ {0}
                         /\ Delays \subseteq Nat /\ MaxTick \in Nat /\ MaxTouch \in Nat
                         /\ WithContexts \subseteq Ents /\ PlayerSimulated \subseteq Ents

VARIABLES
    live,         \* constructed and not destroyed
    killme,       \* EFL_KILLME
    delList,      \* g_DeleteList
    think,        \* [Ents -> [Functions -> tick]]: m_nNextThinkTick of each
    noThink,      \* EFL_NO_THINK_FUNCTION
    simulates,    \* no EFL_NO_GAME_PHYSICS_SIMULATION
    simThink,     \* CSimThinkManager: m_simThinkList and m_entinfoIndex
    checkUntouch, \* EFL_CHECK_UNTOUCH
    touchList,    \* CEntityTouchManager::m_updateList
    phase,        \* where GameFrame is
    tick,         \* gpGlobals->tickcount
    copy,         \* the part of the copied list the loop has not done
    at,           \* the think function whose turn it is; Thinks: the movement
    running       \* a handler is on the stack

entity == <<live, killme, delList>>
thinks == <<think, noThink, simulates, simThink>>
touches == <<checkUntouch, touchList>>
frame == <<phase, tick, copy, at, running>>
vars == <<entity, thinks, touches, frame>>

NoThinks == [c \in Functions |-> Never]
Init == /\ live = {} /\ killme = {} /\ delList = {}
        /\ think = [e \in Ents |-> NoThinks]
        /\ noThink = Ents /\ simulates = {}
        /\ simThink = [list |-> <<>>, index |-> [e \in Ents |-> 0]]
        /\ checkUntouch = {} /\ touchList = <<>>
        /\ phase = "engine" /\ tick = 1 /\ copy = <<>>
        /\ at = 0 /\ running = FALSE
-------------------------------------------------------------------------------
(* CSimThinkManager.  Positions in the list start at 1; 0 is 0xFFFF.        *)

\* Faulty: the entry that moved keeps its old position in the index.
RemoveWithoutShift(s, e) ==
    LET hole == s.index[e]
        last == Len(s.list)
    IN  IF hole = 0 THEN s
        ELSE [list |-> [i \in 1 .. last - 1 |-> s.list[IF i = hole THEN last ELSE i]],
              index |-> [s.index EXCEPT ![e] = 0]]
\* The last entry takes the place of the one removed.
RemoveEntinfoIndex(s, e) ==
    LET hole == s.index[e]
        last == Len(s.list)
        cut  == [i \in 1 .. last - 1 |-> s.list[IF i = hole THEN last ELSE i]]
        gone == [s.index EXCEPT ![e] = 0]
    IN  IF hole = 0 THEN s
        ELSE [list |-> cut,
              index |-> IF hole < last
                        THEN [gone EXCEPT ![s.list[last].ent] = hole] ELSE gone]

\* A function with tick 0 is not called, and not one that will be.
GetFirstThinkTick(ticks) ==
    LET set == {t \in {ticks[c] : c \in Functions} : t > 0}
    IN  IF set = {} THEN Never ELSE CHOOSE t \in set : \A u \in set : t <= u

\* Faulty: an entity that is on the list already keeps the tick it has.
ChangedOnlyOnce(s, e, dead, still, moves, ticks) ==
    LET entry == [ent |-> e, tick |-> IF e \in moves THEN 0 ELSE GetFirstThinkTick(ticks[e])]
    IN  IF e \in dead THEN s
        ELSE IF e \in still /\ e \notin moves THEN RemoveEntinfoIndex(s, e)
        ELSE IF s.index[e] = 0
             THEN [list |-> Append(s.list, entry),
                   index |-> [s.index EXCEPT ![e] = Len(s.list) + 1]]
             ELSE s
\* EntityChanged, with the flags and ticks e has now.
EntityChanged(s, e, dead, still, moves, ticks) ==
    LET entry == [ent |-> e, tick |-> IF e \in moves THEN 0 ELSE GetFirstThinkTick(ticks[e])]
    IN  IF e \in dead THEN s
        ELSE IF e \in still /\ e \notin moves THEN RemoveEntinfoIndex(s, e)
        ELSE IF s.index[e] = 0
             THEN [list |-> Append(s.list, entry),
                   index |-> [s.index EXCEPT ![e] = Len(s.list) + 1]]
             ELSE [s EXCEPT !.list[s.index[e]] = entry]

\* ListCopy: the entities that are due, in the order of the list; from[i] is
\* the place in the list of the i-th of them.
Due == {i \in DOMAIN simThink.list : simThink.list[i].tick <= tick}
ListCopy(out) == \E n \in 0 .. Len(simThink.list) : \E from \in [1 .. n -> Due] :
                    /\ \A i, j \in 1 .. n : i < j => from[i] < from[j]
                    /\ \A k \in Due : \E i \in 1 .. n : from[i] = k
                    /\ out = [i \in 1 .. n |-> simThink.list[from[i]].ent]

\* Faulty: the hint is believed, the other think functions are not asked.
NextThinkBelieved(e, c, t) ==
    /\ think' = [think EXCEPT ![e][c] = t]
    /\ noThink' = IF t # Never THEN noThink \ {e} ELSE noThink \cup {e}
    /\ simThink' = EntityChanged(simThink, e, killme, noThink', simulates, think')
    /\ UNCHANGED simulates
\* SetNextThink with its CheckHasThinkFunction: any tick but Never clears the
\* flag, though WillThink, which sets it, asks for one that is above 0.
NextThink(e, c, t) ==
    /\ think' = [think EXCEPT ![e][c] = t]
    /\ noThink' = IF t # Never THEN noThink \ {e}
                  ELSE IF \A d \in Functions : think'[e][d] <= 0 THEN noThink \cup {e}
                  ELSE noThink
    /\ simThink' = EntityChanged(simThink, e, killme, noThink', simulates, think')
    /\ UNCHANGED simulates
-------------------------------------------------------------------------------
(* What handlers do: console commands and spawns between frames, thinks,   *)
(* touches, inputs.                                                        *)
Handlers == running \/ phase \notin {"think", "touch"}

\* A constructor that schedules a think, moves or does neither, and
\* PostConstructor.
Create(e, t, moves) ==
    /\ Handlers /\ e \notin live
    /\ live' = live \cup {e}
    /\ think' = [think EXCEPT ![e][0] = t]
    /\ noThink' = IF t = Never THEN noThink \cup {e} ELSE noThink \ {e}
    /\ simulates' = IF moves THEN simulates \cup {e} ELSE simulates \ {e}
    /\ simThink' = EntityChanged(simThink, e, killme, noThink', simulates', think')
    /\ UNCHANGED <<killme, delList, touches, frame>>

SetNextThink(e, c, t) ==
    /\ Handlers /\ e \in live
    /\ NextThink(e, c, t)
    /\ UNCHANGED <<entity, touches, frame>>

\* SetMoveType or SetMoveDoneTime, with CheckHasGamePhysicsSimulation.
SetMoveType(e) ==
    /\ Handlers /\ e \in live
    /\ simulates' = IF e \in simulates THEN simulates \ {e} ELSE simulates \cup {e}
    /\ simThink' = EntityChanged(simThink, e, killme, noThink, simulates', think)
    /\ UNCHANGED <<think, noThink, entity, touches, frame>>

SetCheckUntouch(e) ==
    /\ Handlers /\ e \in live \ checkUntouch
    /\ checkUntouch' = checkUntouch \cup {e}
    /\ touchList' = IF e \in killme THEN touchList ELSE Append(touchList, e)
    /\ Len(touchList') <= MaxTouch
    /\ UNCHANGED <<entity, thinks, frame>>

\* FastRemove of the first entry of e, as OnEntityDeleted does.
RemoveTouch(e) ==
    LET places == {i \in DOMAIN touchList : touchList[i] = e}
        last == Len(touchList)
    IN  IF e \notin checkUntouch \/ places = {} THEN touchList
        ELSE LET hole == CHOOSE i \in places : \A j \in places : i <= j
             IN  [i \in 1 .. last - 1 |-> touchList[IF i = hole THEN last ELSE i]]

\* UpdateOnRemove: the listeners are told, then the move type is reset,
\* which the list no longer hears of.
UpdateOnRemove(e) == /\ simThink' = RemoveEntinfoIndex(simThink, e)
                     /\ touchList' = RemoveTouch(e)
                     /\ simulates' = simulates \ {e}

\* The destructors of the entities dead.  What is in their memory is lost:
\* here it is what a constructor starts from.
Destroyed(dead) ==
    /\ live' = live \ dead
    /\ think' = [e \in Ents |-> IF e \in dead THEN NoThinks ELSE think[e]]
    /\ noThink' = noThink \cup dead
    /\ checkUntouch' = checkUntouch \ dead

\* Faulty: marked, and not put on the list.
RemoveUnlisted(e) ==
    /\ Handlers /\ e \in live \ killme
    /\ killme' = killme \cup {e}
    /\ UpdateOnRemove(e)
    /\ UNCHANGED <<delList, live, think, noThink, checkUntouch, frame>>
UTIL_Remove(e) ==
    /\ Handlers /\ e \in live \ killme
    /\ killme' = killme \cup {e}
    /\ UpdateOnRemove(e)
    /\ delList' = delList \cup {e}
    /\ UNCHANGED <<live, think, noThink, checkUntouch, frame>>

\* Faulty: at once even while entities think.
RemoveAtOnce(e) ==
    /\ Handlers /\ e \in live \ (killme \cup PlayerSimulated)
    /\ phase = "touch" => \A i \in DOMAIN copy : copy[i] # e
    /\ UpdateOnRemove(e)
    /\ Destroyed({e})
    /\ UNCHANGED <<killme, delList, frame>>
\* UTIL_RemoveImmediate; while entities think it is UTIL_Remove.  Touch
\* handlers do not call it for what they are checked against, and what a
\* player simulates is not removed this way.
UTIL_RemoveImmediate(e) ==
    /\ Handlers /\ phase # "think" /\ e \in live \ (killme \cup PlayerSimulated)
    /\ phase = "touch" => \A i \in DOMAIN copy : copy[i] # e
    /\ UpdateOnRemove(e)
    /\ Destroyed({e})
    /\ UNCHANGED <<killme, delList, frame>>
-------------------------------------------------------------------------------
CleanupDeleteList == /\ Destroyed(delList)
                     /\ killme' = killme \ delList /\ delList' = {}
                     /\ UNCHANGED <<simThink, simulates, touchList>>

\* GameFrame up to the thinks: the tick goes on unless the game is paused,
\* the list is cleaned up, the systems run, it is cleaned up again, and
\* Physics_RunThinkFunctions copies the list.
BeginFrame(simulating) ==
    /\ phase = "engine" /\ CleanupDeleteList
    /\ simulating => tick < MaxTick
    /\ tick' = IF simulating THEN tick + 1 ELSE tick
    /\ phase' = IF simulating THEN "pre" ELSE "paused"
    /\ UNCHANGED <<copy, at, running>>
\* Faulty: the list is not cleaned up a second time.
BeginThinksAtOnce ==
    /\ phase \in {"pre", "paused"} /\ UNCHANGED <<entity, think, noThink, checkUntouch>>
    /\ UNCHANGED <<simThink, simulates, touchList>>
    /\ \/ phase = "pre" /\ phase' = "think" /\ ListCopy(copy')
       \/ phase = "paused" /\ phase' = "post" /\ copy' = <<>>
    /\ UNCHANGED <<tick, at, running>>
BeginThinks ==
    /\ phase \in {"pre", "paused"} /\ CleanupDeleteList
    /\ \/ phase = "pre" /\ phase' = "think" /\ ListCopy(copy')
       \/ phase = "paused" /\ phase' = "post" /\ copy' = <<>>
    /\ UNCHANGED <<tick, at, running>>

NextEntity == copy' = Tail(copy) /\ at' = 0
InTurn(e) == phase = "think" /\ ~running /\ copy # <<>> /\ e = Head(copy)
Away(e) == e \in PlayerSimulated \/ (at = 0 /\ e \in noThink)

\* PhysicsRunThink of the entity whose turn it is: PhysicsRunSpecificThink
\* of one function after the other, until one has the entity removed.
RunThink(e) ==
    /\ InTurn(e) /\ at < Thinks /\ ~Away(e)
    /\ think[e][at] \in 1 .. tick
    /\ NextThink(e, at, Never)
    /\ running' = TRUE
    /\ UNCHANGED <<entity, touches, phase, tick, copy, at>>
PassThink(e) ==
    /\ InTurn(e) /\ at < Thinks
    /\ \/ Away(e) /\ at' = Thinks
       \/ ~Away(e) /\ think[e][at] \notin 1 .. tick /\ at' = at + 1
    /\ UNCHANGED <<entity, thinks, touches, phase, tick, copy, running>>
\* The entity moves, if it does and no player moves it.
Move(e) ==
    /\ InTurn(e) /\ at = Thinks
    /\ IF e \in simulates \ PlayerSimulated
       THEN running' = TRUE /\ UNCHANGED <<copy, at>>
       ELSE NextEntity /\ UNCHANGED running
    /\ UNCHANGED <<entity, thinks, touches, phase, tick>>
HandlerReturns ==
    /\ phase = "think" /\ running
    /\ running' = FALSE
    /\ IF at = Thinks \/ Head(copy) \in killme
       THEN NextEntity ELSE at' = at + 1 /\ UNCHANGED copy
    /\ UNCHANGED <<entity, thinks, touches, phase, tick>>
\* SimulatePlayerSimulatedEntities, in the turn of the player.
PlayerUntouch(e) ==
    /\ phase = "think" /\ at = 0 /\ ~running
    /\ e \in PlayerSimulated \cap live \cap checkUntouch
    /\ checkUntouch' = checkUntouch \ {e}
    /\ UNCHANGED <<entity, thinks, touchList, frame>>
EndThinks ==
    /\ phase = "think" /\ copy = <<>>
    /\ phase' = "post"
    /\ UNCHANGED <<entity, thinks, touches, tick, copy, at, running>>

\* CEntityTouchManager::FrameUpdatePostEntityThink.
BeginTouch ==
    /\ phase = "post"
    /\ phase' = "touch"
    /\ copy' = touchList /\ touchList' = <<>>
    /\ UNCHANGED <<entity, thinks, checkUntouch, tick, at, running>>
CheckForEntityUntouch(e) ==
    /\ phase = "touch" /\ ~running /\ copy # <<>> /\ e = Head(copy)
    /\ IF e \in checkUntouch THEN running' = TRUE /\ UNCHANGED <<copy, at>>
                             ELSE NextEntity /\ UNCHANGED running
    /\ UNCHANGED <<entity, thinks, touches, phase, tick>>
UntouchDone ==
    /\ phase = "touch" /\ running
    /\ checkUntouch' = checkUntouch \ {Head(copy)}
    /\ running' = FALSE
    /\ NextEntity
    /\ UNCHANGED <<entity, thinks, touchList, phase, tick>>
\* Faulty: the list is cleared after the loop and not before it.
EndTouchClearing ==
    /\ phase = "touch" /\ copy = <<>>
    /\ phase' = "events"
    /\ touchList' = <<>>
    /\ UNCHANGED <<entity, thinks, checkUntouch, tick, copy, at, running>>
EndTouch ==
    /\ phase = "touch" /\ copy = <<>>
    /\ phase' = "events"
    /\ UNCHANGED <<entity, thinks, touches, tick, copy, at, running>>

\* ServiceEventQueue has run.
EndFrame ==
    /\ phase = "events" /\ CleanupDeleteList
    /\ phase' = "engine"
    /\ UNCHANGED <<tick, copy, at, running>>

\* What game code passes to SetNextThink.  0 stands for all ticks below 1 but
\* Never, the current tick for those that are past: the code asks whether a
\* tick is above 0 and whether it is reached, and for the first of several.
Times == {tick + d : d \in Delays} \cup {0, Never}
Handler == \E e \in Ents :
    \/ \E t \in Times, moves \in BOOLEAN : Create(e, t, moves)
    \/ \E c \in FunctionsOf(e), t \in Times : SetNextThink(e, c, t)
    \/ SetMoveType(e) \/ SetCheckUntouch(e)
    \/ UTIL_Remove(e) \/ UTIL_RemoveImmediate(e)
GameFrame ==
    \/ \E simulating \in BOOLEAN : BeginFrame(simulating)
    \/ BeginThinks \/ HandlerReturns \/ EndThinks
    \/ BeginTouch \/ UntouchDone \/ EndTouch \/ EndFrame
    \/ \E e \in Ents : RunThink(e) \/ PassThink(e) \/ Move(e) \/ CheckForEntityUntouch(e)
Next == Handler \/ GameFrame \/ \E e \in Ents : PlayerUntouch(e)
Spec == Init /\ [][Next]_vars
-------------------------------------------------------------------------------
Ticks == {Never} \cup Nat

\* What an entity and the list of thinks are, and what is marked is on the
\* list of deletions and not destroyed yet.
ThinksTypeOK ==
    /\ live \subseteq Ents /\ killme \subseteq live /\ delList = killme
    /\ think \in [Ents -> [Functions -> Ticks]]
    /\ noThink \subseteq Ents /\ simulates \subseteq Ents
    /\ simThink \in [list : Seq([ent : Ents, tick : Ticks]), index : [Ents -> Nat]]
\* The types of all variables.
TypeOK ==
    /\ ThinksTypeOK
    /\ checkUntouch \subseteq Ents /\ touchList \in Seq(Ents)
    /\ phase \in {"engine", "pre", "paused", "think", "post", "touch", "events"}
    /\ tick \in Nat /\ copy \in Seq(Ents) /\ at \in 0 .. Thinks /\ running \in BOOLEAN

Matches(s) ==
    /\ \A e \in Ents : s.index[e] # 0 => /\ s.index[e] \in DOMAIN s.list
                                        /\ s.list[s.index[e]].ent = e
    /\ \A i \in DOMAIN s.list : s.index[s.list[i].ent] = i
\* m_simThinkList and m_entinfoIndex point at each other, although removals
\* in the middle of the list move its last entry (RemoveEntinfoIndex).
IndexMatchesList == Matches(simThink)

WillThink(e) == \E c \in Functions : think[e][c] > 0

\* The list is never out of date: every entity that moves or has a think
\* function scheduled and is not marked is in it, each with the first of its
\* ticks ("only copy out entities that will simulate or think this frame", and
\* ListCopy's Assert), though the callers of CheckHasThinkFunction pass a hint
\* that knows one think function only.  The others in it are those a think was
\* set to tick 0 of.
ListIsCurrent ==
    \A e \in Ents :
      /\ e \in live \ killme /\ (WillThink(e) \/ e \in simulates) => simThink.index[e] # 0
      /\ simThink.index[e] # 0 =>
            /\ e \in live \ killme
            /\ WillThink(e) \/ e \in simulates \/ \E c \in Functions : think[e][c] = 0
            /\ simThink.list[simThink.index[e]].tick =
                  IF e \in simulates THEN 0 ELSE GetFirstThinkTick(think[e])

\* "Entity will not actually be deleted until the next frame, so there can be
\* no pointer errors" (UTIL_Remove): the copied lists and the list of touches
\* hold no pointer to an entity that is destroyed, unless a player simulates
\* it.  SimulatePlayerSimulatedEntities clears the flag of an entity that is
\* still on the list, which can then get on it a second time or stay there
\* when it is removed.
PointersInto(those) == \A s \in {copy, touchList} : \A i \in DOMAIN s : s[i] \in those
PointersAlive == PointersInto(live \cup PlayerSimulated)

\* A think function is called in the frame of its tick or, when the tick was
\* set during that frame, in the next: none is forgotten because an earlier
\* handler changed the list, the entity or its other think functions.
NeverLate ==
    \A e \in live \ (killme \cup PlayerSimulated), c \in Functions :
        think[e][c] > 0 =>
            think[e][c] >= IF phase \in {"pre", "think"} THEN tick - 1 ELSE tick

\* "mark ent so that at the end of frame it will check to see if it's no
\* longer touching ents": an entity with the flag is on the list or in the
\* rest of the copy, so that the check is made.
UntouchNotForgotten ==
    \A e \in (checkUntouch \cap live) \ killme :
        \/ \E i \in DOMAIN touchList : touchList[i] = e
        \/ phase = "touch" /\ \E i \in DOMAIN copy : copy[i] = e

\* "Delete anything that was marked for deletion outside of server frameloop",
\* "free all ents marked in think functions": no marked entity is left when a
\* frame ends or when its thinks begin.
RemovedInFrame ==
    [][phase' # phase /\ phase' \in {"engine", "think"} => killme' = {}]_vars
================================================================================
