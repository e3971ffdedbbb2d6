------------------------------ MODULE EventQueue ------------------------------
(***************************************************************************)
(* CEventQueue (game/server/cbase.cpp): the queue of entity inputs that    *)
(* are to be delivered later, and ServiceEvents, which delivers the due    *)
(* ones once per frame.  Input handlers run inside the service loop and    *)
(* may themselves add and cancel events and remove entities.               *)
(*                                                                         *)
(* The events are a sequence; the event being delivered stays in it until  *)
(* its last target has been called.  A handler that cancels the events of  *)
(* the sender of that very event deletes it under the loop.  The model then *)
(* follows the loop as long as the deleted block has its old contents, and *)
(* may at any moment stop in the place "undefined", for the block has been *)
(* reused or a link leads into another deleted block.                      *)
(***************************************************************************)
EXTENDS Selection, FiniteSets

CONSTANTS
  Entities,     (* The entities, numbered in the order of the active list. *)
  Names,        (* What an event can be addressed to.                      *)
  FirstName,    (* The targetname each entity starts with, or NULL.        *)
  Classname,    (* The classname of each entity, a name too.               *)
  Delays,       (* The delays an event can be posted with.                 *)
  FirstSteps,   (* What m_nDebugSteps is initialised to.                   *)
  MaySelfCancel,(* Whether a handler may cancel the event that called it.  *)
  MaxEvents,    (* Bound: events posted.                                   *)
  MaxTime,      (* Bound: frames run.                                      *)
  MaxPauses,    (* Bound: uses of ent_pause and ent_step.                  *)
  NULL          (* The null pointer, the null string.                      *)

ASSUME ConstantsAssumption ==
  /\ Entities \subseteq Nat \ {0} /\ IsFiniteSet(Entities)
  /\ FirstName \in [Entities -> Names \cup {NULL}]
  /\ Classname \in [Entities -> Names]
  /\ Delays \subseteq Nat
  /\ FirstSteps \in Nat
  /\ MaySelfCancel \in BOOLEAN
  /\ {MaxEvents, MaxTime, MaxPauses} \subseteq Nat
  /\ NULL \notin Entities \cup Names

VARIABLES
  curtime,    (* gpGlobals->curtime, in frames                             *)
  queue,      (* the events from m_Events.m_pNext on                       *)
  name,       (* m_iName of each entity                                    *)
  life,       (* each entity is alive, marked for deletion or gone         *)
  pc,         (* where the frame is: see Places                            *)
  cur,        (* pe in ServiceEvents                                       *)
  at,         (* target in ServiceEvents: the last entity found, or 0      *)
  found,      (* targetFound                                               *)
  handling,   (* the entity whose input handler is running                 *)
  reached,    (* history: the entities that got this event's input         *)
  named,      (* history: those of them that had the name it is addressed  *)
              (* to when they got it                                       *)
  freed,      (* NULL, or after cur was deleted the number of the event    *)
              (* its m_pNext still points at, 0 for none                   *)
  paused,     (* m_bDebugPause                                             *)
  steps,      (* m_nDebugSteps                                             *)
  granted,    (* history: the steps asked for with ent_step, less the      *)
              (* events delivered while paused since then                  *)
  pauses,     (* bound: how often the debug commands were used             *)
  posted,     (* history: the number of events posted                      *)
  fired,      (* history: the events whose delivery has begun, in order,   *)
              (* each with the time it began                               *)
  cancelled   (* history: the numbers of the events cancelled              *)

service == <<pc, cur, at, found, handling, reached, named, freed>>
debug == <<paused, steps, granted, pauses>>
history == <<posted, fired, cancelled>>
entities == <<name, life>>
vars == <<curtime, queue, entities, service, debug, history>>

Places == {"commands", (* outside GameFrame: console commands, level load  *)
           "think",    (* GameFrame up to ServiceEventQueue                *)
           "service",  (* the head of the loop in ServiceEvents            *)
           "byName", "direct", "byClass",   (* its three target searches   *)
           "remove",   (* RemoveEvent( pe )                                *)
           "frameEnd",
           "undefined"}   (* the loop went on with a deleted event         *)

Event == [id : 1 .. MaxEvents, time : Nat, target : Names \cup {NULL},
          ent : Entities \cup {NULL}, caller : Entities \cup {NULL}]

ASSUME NullAssumption == NULL \notin Event \cup Nat

TypeOK ==
  /\ curtime \in 0 .. MaxTime
  /\ queue \in Seq(Event)
  /\ name \in [Entities -> Names \cup {NULL}]
  /\ life \in [Entities -> {"alive", "marked", "gone"}]
  /\ pc \in Places
  /\ cur \in Event \cup {NULL}
  /\ at \in Entities \cup {0}
  /\ found \in BOOLEAN
  /\ handling \in Entities \cup {NULL}
  /\ reached \in SUBSET Entities
  /\ named \in SUBSET Entities
  /\ freed \in 0 .. MaxEvents \cup {NULL}
  /\ paused \in BOOLEAN
  /\ steps \in Nat
  /\ granted \in Int
  /\ pauses \in 0 .. MaxPauses
  /\ posted \in 0 .. MaxEvents
  /\ fired \in Seq([event : Event, at : Nat])
  /\ cancelled \in SUBSET (1 .. MaxEvents)

Init ==
  /\ curtime = 0
  /\ queue = <<>>
  /\ name = FirstName
  /\ life = [e \in Entities |-> "alive"]
  /\ pc = "commands"
  /\ cur = NULL
  /\ at = 0
  /\ found = FALSE
  /\ handling = NULL
  /\ reached = {}
  /\ named = {}
  /\ freed = NULL
  /\ paused = FALSE
  /\ steps = FirstSteps
  /\ granted = 0
  /\ pauses = 0
  /\ posted = 0
  /\ fired = <<>>
  /\ cancelled = {}

-----------------------------------------------------------------------------
(***************************************************************************)
(* What running code does to the queue: the body of an input handler, or   *)
(* think functions and console commands in the rest of the frame.          *)
(***************************************************************************)
Running(e) ==
  handling = e \/ (pc \in {"commands", "think"} /\ life[e] /= "gone")

(* Faulty: in front of the first event that is not due earlier. *)
PlaceBeforeEquals(q, ev) ==
  CHOOSE i \in 1 .. Len(q) + 1 :
    /\ i <= Len(q) => q[i].time >= ev.time
    /\ \A j \in 1 .. i - 1 : q[j].time < ev.time

(* AddEvent's loop stops in front of the first event that is due later. *)
Place(q, ev) ==
  CHOOSE i \in 1 .. Len(q) + 1 :
    /\ i <= Len(q) => q[i].time > ev.time
    /\ \A j \in 1 .. i - 1 : q[j].time <= ev.time

(* Faulty: the link to the successor is not set. *)
InsertedLast(q, ev) == SubSeq(q, 1, Place(q, ev) - 1) \o <<ev>>

Inserted(q, ev) ==
  LET i == Place(q, ev)
  IN  SubSeq(q, 1, i - 1) \o <<ev>> \o SubSeq(q, i, Len(q))

Post(target, ent, delay, caller) ==
  LET ev == [id |-> posted + 1, time |-> curtime + delay, target |-> target,
             ent |-> ent, caller |-> caller]
  IN  /\ posted < MaxEvents
      /\ posted' = posted + 1
      /\ queue' = Inserted(queue, ev)
      /\ UNCHANGED <<curtime, entities, service, debug, fired, cancelled>>

(* AddEvent to a name and to an entity; outputs pass their owner as caller.*)
AddEventToName(n, delay, caller) ==
  Running(caller) /\ Post(n, NULL, delay, caller)

AddEventToEntity(e, delay, caller) ==
  Running(caller) /\ life[e] /= "gone" /\ Post(NULL, e, delay, caller)

(* The events in the queue. *)
Events == {queue[i] : i \in DOMAIN queue}

(* The walk that deletes the events of the numbers in hit, the one being   *)
(* delivered included.                                                     *)
DeleteEvents(hit) ==
  LET hitsCur == cur /= NULL /\ freed = NULL /\ cur.id \in hit
  IN  /\ hit /= {}
      /\ hitsCur => MaySelfCancel
      /\ queue' = Selected(queue, {ev \in Events : ev.id \notin hit})
      /\ cancelled' = cancelled \cup hit
      /\ freed' = IF ~hitsCur THEN freed
                  ELSE IF Len(queue) = 1 THEN 0 ELSE queue[2].id
      /\ UNCHANGED <<curtime, entities, pc, cur, at, found, handling, reached,
                     named, debug, posted, fired>>

PostedBy(caller) ==
  {queue[i].id : i \in {j \in DOMAIN queue : queue[j].caller = caller}}
PostedTo(e) == {queue[i].id : i \in {j \in DOMAIN queue : queue[j].ent = e}}

(* CancelEvents( this ) as the relays' CancelPending input calls it. *)
CancelEvents(caller) == Running(caller) /\ DeleteEvents(PostedBy(caller))

(* CancelEventOn( pTarget, ... ) for the input name of its events. *)
CancelEventOn(e, by) ==
  Running(by) /\ life[e] /= "gone" /\ DeleteEvents(PostedTo(e))

(* UTIL_Remove: the entity loses its name at once and stays in the table   *)
(* until CleanupDeleteList.                                                *)
RemoveEntity(e, by) ==
  /\ Running(by)
  /\ life[e] = "alive"
  /\ life' = [life EXCEPT ![e] = "marked"]
  /\ name' = [name EXCEPT ![e] = NULL]
  /\ UNCHANGED <<curtime, queue, service, debug, history>>

CleanupDeleteList ==
  life' = [e \in Entities |-> IF life[e] = "marked" THEN "gone" ELSE life[e]]

(* Clear when the world of the next level spawns; its entities take the    *)
(* numbers of the old ones.                                                *)
Clear ==
  /\ pc = "commands"
  /\ queue /= <<>>
  /\ queue' = <<>>
  /\ cancelled' = cancelled \cup {queue[i].id : i \in DOMAIN queue}
  /\ name' = FirstName
  /\ life' = [e \in Entities |-> "alive"]
  /\ UNCHANGED <<curtime, service, debug, posted, fired>>

(* What Restore makes of saved events: it adds them one by one to an empty *)
(* queue.                                                                  *)
Restored(saved) ==
  LET after[i \in 0 .. Len(saved)] ==
        IF i = 0 THEN <<>> ELSE Inserted(after[i - 1], saved[i])
  IN  after[Len(saved)]

(* Save writes the events in the order of the queue, Restore reads them.   *)
SaveAndRestore ==
  /\ pc = "commands"
  /\ queue /= <<>>
  /\ queue' = Restored(queue)
  /\ UNCHANGED <<curtime, entities, service, debug, history>>

HandlerReturns ==
  /\ handling /= NULL
  /\ handling' = NULL
  /\ UNCHANGED <<curtime, queue, entities, pc, cur, at, found, reached, named,
                 freed, debug, history>>

(* The console commands ent_pause and ent_step. *)
EntPause ==
  /\ pc = "commands"
  /\ pauses < MaxPauses
  /\ pauses' = pauses + 1
  /\ paused' = ~paused
  /\ UNCHANGED <<curtime, queue, entities, service, steps, granted,
                 history>>

EntStep(n) ==
  /\ pc = "commands"
  /\ pauses < MaxPauses
  /\ pauses' = pauses + 1
  /\ steps' = n
  /\ granted' = n
  /\ UNCHANGED <<curtime, queue, entities, service, paused, history>>

-----------------------------------------------------------------------------
(***************************************************************************)
(* ServiceEvents, a step for every call it makes.                          *)
(***************************************************************************)
(* Faulty: the last step is never used up. *)
AlwaysSteps == ~paused \/ steps >= 0

ShouldStep == ~paused \/ steps > 0

BeginFrame ==
  /\ pc = "commands"
  /\ pc' = "think"
  /\ CleanupDeleteList
  /\ UNCHANGED <<curtime, queue, name, cur, at, found, handling, reached,
                 named, freed, debug, history>>

BeginService ==
  /\ pc = "think"
  /\ pc' = IF ShouldStep THEN "service" ELSE "frameEnd"
  /\ UNCHANGED <<curtime, queue, entities, cur, at, found, handling, reached,
                 named, freed, debug, history>>

(* Faulty: the fire time is not looked at, or is not reached on time. *)
AnyHead == queue /= <<>>
HeadIsOverdue == queue /= <<>> /\ Head(queue).time < curtime

HeadIsDue == queue /= <<>> /\ Head(queue).time <= curtime

TakeEvent ==
  /\ pc = "service"
  /\ HeadIsDue
  /\ cur' = Head(queue)
  /\ found' = FALSE
  /\ at' = 0
  /\ reached' = {}
  /\ named' = {}
  /\ granted' = IF paused THEN granted - 1 ELSE granted
  /\ pc' = IF Head(queue).target /= NULL THEN "byName" ELSE "direct"
  /\ fired' = Append(fired, [event |-> Head(queue), at |-> curtime])
  /\ UNCHANGED <<curtime, queue, entities, handling, freed, paused, steps,
                 pauses, posted, cancelled>>

NoMoreDue ==
  /\ pc = "service"
  /\ ~HeadIsDue
  /\ pc' = "frameEnd"
  /\ UNCHANGED <<curtime, queue, entities, cur, at, found, handling, reached,
                 named, freed, debug, history>>

(* Faulty: the search is not resumed after the entity found last. *)
FirstWith(attribute) ==
  LET all == {e \in Entities : life[e] /= "gone" /\ attribute[e] = cur.target}
  IN  IF at /= 0 \/ all = {} THEN 0
      ELSE CHOOSE e \in all : \A d \in all : e <= d

(* FindEntityByName and FindEntityByClassname: the next match in the list. *)
NextWith(attribute) ==
  LET later == {e \in Entities :
                  e > at /\ life[e] /= "gone" /\ attribute[e] = cur.target}
  IN  IF later = {} THEN 0 ELSE CHOOSE e \in later : \A d \in later : e <= d

Call(e, place) ==
  /\ at' = e
  /\ found' = TRUE
  /\ handling' = e
  /\ reached' = reached \cup {e}
  /\ named' = named \cup {d \in Entities : d = e /\ name[d] = cur.target}
  /\ pc' = place

SearchByName ==
  /\ pc = "byName"
  /\ handling = NULL
  /\ IF NextWith(name) /= 0
     THEN Call(NextWith(name), "byName")
     ELSE pc' = "direct" /\ UNCHANGED <<at, found, handling, reached, named>>
  /\ UNCHANGED <<curtime, queue, entities, cur, freed, debug, history>>

(* Faulty: the handle is not checked for null. *)
ResolvesOrNull(e) == e = NULL \/ life[e] /= "gone"

(* The event's handle still gives its entity. *)
Resolves(e) == e /= NULL /\ life[e] /= "gone"

(* Faulty: the classname is tried whether or not a target was found. *)
CallDirectThenByClass ==
  /\ pc = "direct"
  /\ handling = NULL
  /\ IF Resolves(cur.ent)
     THEN Call(cur.ent, "remove")
     ELSE /\ pc' = IF cur.target /= NULL THEN "byClass" ELSE "remove"
          /\ at' = 0
          /\ UNCHANGED <<found, handling, reached, named>>
  /\ UNCHANGED <<curtime, queue, entities, cur, freed, debug, history>>

CallDirectTarget ==
  /\ pc = "direct"
  /\ handling = NULL
  /\ IF Resolves(cur.ent)
     THEN Call(cur.ent, "remove")
     ELSE /\ pc' = IF ~found /\ cur.target /= NULL THEN "byClass" ELSE "remove"
          /\ at' = 0
          /\ UNCHANGED <<found, handling, reached, named>>
  /\ UNCHANGED <<curtime, queue, entities, cur, freed, debug, history>>

SearchByClass ==
  /\ pc = "byClass"
  /\ handling = NULL
  /\ IF NextWith(Classname) /= 0
     THEN Call(NextWith(Classname), "byClass")
     ELSE pc' = "remove" /\ UNCHANGED <<at, found, handling, reached, named>>
  /\ UNCHANGED <<curtime, queue, entities, cur, freed, debug, history>>

(* Faulty: the event is not unlinked. *)
Kept(id) == queue

(* RemoveEvent( pe ), delete pe and the debug step. *)
Without(id) == Selected(queue, {ev \in Events : ev.id /= id})

(* Unlinking a deleted event by the links it had: the list starts at the   *)
(* old successor again, whatever has been put in front of it since.        *)
From(id) ==
  LET at_id == {i \in DOMAIN queue : queue[i].id = id}
  IN  IF at_id = {} THEN <<>>
      ELSE SubSeq(queue, CHOOSE i \in at_id : TRUE, Len(queue))

FinishEvent ==
  /\ pc = "remove"
  /\ handling = NULL
  /\ freed \in {NULL, 0} \/ \E i \in DOMAIN queue : queue[i].id = freed
  /\ queue' = IF freed = NULL THEN Without(cur.id) ELSE From(freed)
  /\ IF paused
     THEN /\ steps' = IF steps > 0 THEN steps - 1 ELSE 0
          /\ pc' = IF steps' > 0 THEN "service" ELSE "frameEnd"
     ELSE pc' = "service" /\ UNCHANGED steps
  /\ cur' = NULL
  /\ freed' = NULL
  /\ at' = 0
  /\ found' = FALSE
  /\ reached' = {}
  /\ named' = {}
  /\ UNCHANGED <<curtime, entities, handling, paused, granted, pauses, history>>

UsesDeletedEvent ==
  /\ freed /= NULL
  /\ handling = NULL
  /\ pc' = "undefined"
  /\ UNCHANGED <<curtime, queue, entities, cur, at, found, handling, reached,
                 named, freed, debug, history>>

NextFrame ==
  /\ pc = "frameEnd"
  /\ curtime < MaxTime
  /\ curtime' = curtime + 1
  /\ pc' = "commands"
  /\ CleanupDeleteList
  /\ UNCHANGED <<queue, name, cur, at, found, handling, reached, named,
                 freed, debug, history>>

RunningCode ==
  \/ \E c \in Entities :
       \/ \E n \in Names, d \in Delays : AddEventToName(n, d, c)
       \/ \E e \in Entities, d \in Delays : AddEventToEntity(e, d, c)
       \/ CancelEvents(c)
       \/ \E e \in Entities : CancelEventOn(e, c) \/ RemoveEntity(e, c)
  \/ Clear
  \/ SaveAndRestore
  \/ EntPause
  \/ \E n \in 1 .. 2 : EntStep(n)

ServiceLoop ==
  \/ BeginFrame \/ BeginService \/ TakeEvent \/ NoMoreDue
  \/ SearchByName \/ CallDirectTarget \/ SearchByClass
  \/ HandlerReturns \/ FinishEvent \/ UsesDeletedEvent
  \/ NextFrame

Next == RunningCode \/ ServiceLoop

Spec == Init /\ [][Next]_vars

(* The server runs frame after frame and a handler returns. *)
FairSpec == Spec /\ WF_vars(ServiceLoop)

-----------------------------------------------------------------------------
(***************************************************************************)
(* Properties.                                                             *)
(***************************************************************************)
Before(a, b) == a.time < b.time \/ (a.time = b.time /\ a.id < b.id)

(* The queue is always in order of fire time, events for the same time in  *)
(* the order they were added, whatever handlers add while ServiceEvents    *)
(* walks it and whatever is saved and restored (AddEvent inserts behind    *)
(* its equals, Restore adds in the order of Save).                         *)
QueueInOrder ==
  \A i, j \in DOMAIN queue : i < j => Before(queue[i], queue[j])

(* "remembering that the queue may have been added to", "restart the list  *)
(* (to catch any new items ...)": an event added is in the queue until it  *)
(* is delivered or cancelled, and never both.                              *)
Queued == {queue[i].id : i \in DOMAIN queue}
FiredIds == {fired[i].event.id : i \in DOMAIN fired}
NothingLost == 1 .. posted = Queued \cup FiredIds \cup cancelled

CancelledNeverFires ==
  /\ Queued \cap cancelled = {}
  /\ \A id \in FiredIds \cap cancelled : MaySelfCancel
  /\ Queued \cap FiredIds \subseteq IF cur = NULL THEN {} ELSE {cur.id}

(* When the searches for one event are over, the entity it points at and   *)
(* every entity that still has the name it was addressed to got its input, *)
(* and if nobody got it no entity of that classname is there: the searches *)
(* of ServiceEvents go on after the entity found last, whatever its input  *)
(* handler removed.                                                        *)
TargetsReached ==
  pc = "remove" =>
    /\ Resolves(cur.ent) => cur.ent \in reached
    /\ cur.target /= NULL =>
         /\ \A e \in Entities : name[e] = cur.target => e \in reached
         /\ named = {} => \A e \in Entities :
              Classname[e] = cur.target /\ life[e] /= "gone" => e \in reached

(* "See if we can find a target if we treat the target as a classname":    *)
(* only if no entity had the name when the search by name came to it, an   *)
(* entity is reached for its classname (targetFound, which is down until   *)
(* ServiceEvents has called a target).                                     *)
ClassnameIsFallback ==
  pc = "remove" /\ cur.target /= NULL =>
    \/ reached = named
    \/ named = {} /\ \A e \in reached : Classname[e] = cur.target

(* "When paused, no outputs will fire unless Debug_SetSteps is called with *)
(* a nonzero step value" does not hold of the first pause: m_nDebugSteps   *)
(* is 1 before anybody sets it, and granted goes below 0.  But that is all *)
(* that is delivered unasked: while paused, no more events than the last   *)
(* ent_step allowed and, before the first one, than m_nDebugSteps starts   *)
(* with, over any number of frames and however often ent_pause is used     *)
(* (Debug_ShouldStep at the head of ServiceEvents, Debug_Step at the end   *)
(* of its loop).                                                           *)
StepsCoverDeliveries == granted + FirstSteps >= 0

(* An event whose time comes is delivered or cancelled in the end, unless  *)
(* the queue stays paused or a handler cancels the event that called it,   *)
(* after which ServiceEvents goes on with an event it has deleted.         *)
Pending(id) == \E i \in DOMAIN queue :
                 queue[i].id = id /\ queue[i].time <= MaxTime
DueIsServed ==
  \/ <>[]paused
  \/ \A id \in 1 .. MaxEvents :
       Pending(id) ~> \/ id \in FiredIds \cup cancelled
                      \/ FiredIds \cap cancelled /= {}

(* The events that are not being delivered, and the order of delivery.     *)
Key(ev) == [id |-> ev.id, time |-> ev.time]
Undelivered == {Key(ev) : ev \in Events \ {cur}}
Order == [i \in DOMAIN fired |-> fired[i].event.id]

Timed == INSTANCE TimedEvents WITH
  Events <- [id : 1 .. MaxEvents,
             time : {t + d : t \in 0 .. MaxTime, d \in Delays}],
  now <- curtime,
  pending <- Undelivered,
  last <- posted,
  fired <- Order

(* Whatever the handlers do, the queue keeps the promise of TimedEvents:   *)
(* an event once added leaves it only by a cancellation, unfired, or by    *)
(* being the first that is due (AddEvent, ServiceEvents, CancelEvents).    *)
ImplementsTimedEvents == Timed!Spec
=============================================================================
