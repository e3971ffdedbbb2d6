# A specification of the entity injector and of the entity system it works in

The repository holds a plugin for Portal 2 (`utils/serverplugin_addent_p2`) that
adds entity classes to a running `server.dll`, and the SDK tree the server is
built from (`game/`, `public/`). This directory specifies the plugin's core
and the part of the server its entities live in: the handle table, the frame
with its think functions and touch checks, the deletion of entities and their
hierarchy, the queue of inputs and outputs, `logic_relay`, the entity that
depends on that queue most, and the lock-free queue the server's threads share.
Paths below are relative to `src/`.

## The system

| Component | State | Operations | Meets |
|---|---|---|---|
| Handle table: `CBaseEntityList`, `CEntInfoList`, `CBaseHandle` (`game/shared/entitylist_base.*`, `public/basehandle.h`) | entity and serial number of every slot, two lists on shared links | add at an edict, add from the free list, remove, look up, iterate | constructors and destructors of entities; everybody who keeps an `EHANDLE` |
| Event queue: `CEventQueue` (`game/server/eventqueue.h`, `cbase.cpp`) | a sorted linked list of events | `AddEvent`, `CancelEvents`, `CancelEventOn`, `ServiceEvents`, `Clear`, `Save`, `Restore` | outputs post to it, it calls input handlers, which call it again |
| Outputs: `CBaseEntityOutput`, `CEventAction` (`cbase.cpp`, `entityoutput.h`) | the list of actions of one output | `FireOutput`, `AddEventAction`, `RemoveEventAction`, `GetMaxDelay` | posts to the queue; scripts connect and disconnect |
| `logic_relay` (`logicrelay.*`) | disabled, waiting for refire | its inputs | its output, the queue |
| Entity factories of the plugin (`util.h`, the `*_stub.h` classes) | a patched virtual table per class, one shared destructor flag | construction of a factory, `Create`, `Destroy` | the server's factory dictionary and tables |
| Plugin load and unload (`serverplugin_addentp2.cpp`) | interfaces, listener registration | `Load`, `Unload`, `LevelInit`, `LevelShutdown` | engine |
| Symbol lookup (`pdbparser.cpp`, `baseentity_stub.cpp`) | addresses in the server | `LookupSymbol`, `FillRVAs` | DIA |
| Data description tools (`info_datadesc_acc.cpp`) | none | dump and read one value | console |
| Global entity list, `UTIL_Remove` (`entitylist.cpp`, `util.cpp`, `physics.cpp`) | delete list, deferred removals, listeners, counters | `AddToDeleteList`, `CleanupDeleteList`, `Clear`, `PhysCallbackRemove`, searches | handle table, frame, physics callbacks |
| Hierarchy of an entity (`baseentity.cpp`, `hierarchy.cpp`) | handles of parent, first child, next sibling | `SetParent`, `LinkChild`, `UnlinkChild`, `TransferChildren`, `UpdateOnRemove` | deletion |
| Think functions and touches (`baseentity_shared.cpp`, `physics_main*.cpp`, `CSimThinkManager` and `CEntityTouchManager` in `entitylist.cpp`) | a tick per think function, two flags, the list of thinks with its index, the list of touches | `SetNextThink`, `SetMoveType`, `SetCheckUntouch`, `EntityChanged`, `ListCopy`, `PhysicsRunThink` | frame, deletion |
| Server frame (`gameinterface.cpp`) | time | `GameFrame`: delete list, thinks, touches, event queue, delete list | all of the above |
| Lock-free list and queue (`public/tier0/tslist.h`) | two links with a sequence number, recycled nodes | `PushItem`, `PopItem` | `callqueue.h`, particle and collision queries, memory pools, from several threads |

The rest of the tree (client, AI, mission chooser, engine libraries) is listed
in `PROJECT.json` and not modelled.

Game code runs on one thread. What makes it hard is re-entrance (a handler
called from the middle of a loop changes the structure the loop walks), memory
that is named by an index and a number that wraps, static objects constructed in
no defined order, and rules that only the order of two statements keeps. The queue of `tslist.h`
is what several threads do share.
`PROJECT.json` lists these hazards line by line with the properties that cover
them.

## What makes each component correct

* Handle table: an old handle never gives another entity (until the serial
  number has wrapped); the table never points at a destroyed object; the two
  lists, which share their links, never mix; an entity keeps its slot while it
  lives.
* Deletion: a marked entity is destroyed once and by the end of the frame; its
  children go with it; the child lists hold exactly the children; `Clear` leaves
  nobody.
* Frame: every think is called in its tick, every touch is checked, and no list
  points at an entity that is gone.
* Lock-free queue: nothing lost or delivered twice, empty means empty, every call
  returns.
* Event queue: delivery in order of time and then of posting, nothing lost,
  nothing twice, nothing after its cancellation, every entity of the name
  reached, every due event delivered in the end.
* Outputs and relay: an action fires as often as the map says; a relay waits for
  exactly one `EnableRefire`, until its last output was delivered, and not
  forever.
* Factories: a complete table before the first entity, and a destructor that
  runs on what was constructed.

## Modules

### EntityList, EntityRegistry, MCEntityList, EntityListProofs

`EntityList` is `CBaseEntityList` link by link: `pEntity` and `serial` are
`m_EntPtrArray`'s members, `prev` and `next` its links, `active` and `free` the
heads and tails. The list operations are operators from a list to a list
(`Unlink`, `AddToTail`), with `m_pPrev = this` for a slot in no list.
The actions are the ways in and out: `AddNetworkableEntity`,
`AddNonNetworkableEntity`, its failure, an entity constructed without an edict,
and `Destroy` (`~CBaseEntity`, which removes whatever is in the slot its own
handle names, and the last slot if it has none). Holders copy handles at any
time. `live`, `removals` and the second half of `held` are history.
Whether an edict is free is the engine's business (not in the tree); the model
lets it hand out any edict whose slot is empty.

`EntityRegistry` is what the users of the table rely on: occupants, the order of
registration, and the first-in-first-out reuse of slots. `EntityList` reads
both sequences off the links (`Chain`), which is the mapping of
`ImplementsRegistry`; `MCEntityList` only adds the symmetry.

### Selection, SelectionProofs

`Selection` has one operator, `Selected(s, S)`: the elements of a sequence that are
in a set, in their order. It is what a loop over a linked list leaves that deletes
some of its nodes, in the queue and in the list of actions, and it is written as a
recursive function so that it can be proved about.

### EventQueue, TimedEvents, MCEventQueue, EventQueueProofs

`EventQueue` cuts `ServiceEvents` at every call it makes. `pc` says where the
frame is, `cur` is `pe`, `at` the search position, `handling` the entity whose
handler runs. While a handler runs, and in the parts of the frame before the
service, any live entity's code may post to a name or to an entity, cancel and
remove. `named` and `granted` are history: whom the search by name has reached, and
what `ent_step` still allows. The queue is a sequence; `Place` is `AddEvent`'s loop. Time is counted
in frames, delays are frames and never negative.

A handler may cancel the very event being delivered. `MaySelfCancel` says
whether it does. If it does, the event is deleted under the loop; `freed`
remembers the successor its stale links name. The model then either goes on as
the code does when the block still has its old contents (`FinishEvent` with
`From`), or stops in the place `undefined`.

Abstracted: input names and parameters (`CancelEventOn` speaks of the one input
name there is), the comparison of name and class that `CancelEvents` makes
after it has compared the handles, `!`-names, wildcards, and activators. After
`Clear` the entities of the next level take the numbers of the old ones.
`SaveAndRestore` adds the saved events one by one, as `Restore` does; it is a
step that changes nothing exactly because that keeps the order. An
immediate removal (`UTIL_RemoveImmediate`) during a search is not in the model.

`TimedEvents` is the promise: a set from which the earliest event, the oldest of
equals, leaves when it is due. `EventQueue` maps the queue without the event
being delivered to that set (`Undelivered`, `Order`, `Timed`); `MCEventQueue` only
gives the constants values.

### EntityOutput, LogicRelay, MCLogicRelay, LogicRelayProofs

`EntityOutput` has the operations on the list of actions; an action's `id` is its
`m_iIDStamp`, which no two actions share. `LogicRelay` is one
relay with `OnTrigger` and the events it has in the queue; it takes the queue at
`TimedEvents`' word. One unit of time is the 0.001 s that `EnableRefire` is
posted after the longest delay; a frame takes a few of them. Scripts connect and
disconnect one function. The model does not say where an event of the output
goes; any input, its own `Trigger` included, may come at any time. The `OnSpawn`
output is left out.

### EntityFactory, MCEntityFactory, EntityFactoryProofs

`EntityFactory` is the constructor of `CEntityFactory` (`util.h:75-117`), one
step per statement that matters and one per turn of its loop, for any number of
classes in any order, followed by the creation and deletion of entities.
Tables are functions from positions to addresses (position 0 is the RTTI pointer).
`NoFoldedOverride` assumes that the linker does not fold an override into the
placeholder. Entities are created once all the factories are there (static
construction ends before the module is handed to the engine). Deleting through
`callBaseDestructor` is the only thing modelled of the destructor: which of the
server's destructors it calls is not.

### EntityRemoval, MCEntityRemoval, EntityRemovalProofs

`EntityRemoval` is the way of an entity out of the server: `UTIL_Remove` from
any handler, from a destructor while `CleanupDeleteList` releases (`cursor` is
its loop variable, and the list may grow), during a physics callback, where
`PhysCallbackRemove` defers it, and from `Clear` at the end of a level.
`UpdateOnRemove` removes all children, collected by `GetAllChildren`, last one
first. What a removal changes is passed on as a record, `World`, since one call
makes many. The hierarchy is what the code has: three handles per entity, each
resolved when read, so that a destroyed entity cuts a list.

Entities are created once and have edicts (without one `SetParent` does not
link). The order in which `Clear` meets the entities is arbitrary. The callers
of `SetParent` are assumed not to make a cycle, and those of
`UTIL_RemoveImmediate` not to remove what a callback has deferred.
`ParentMarked` says whether anybody parents an entity that is marked.

### ServerFrame, ServerFrameProofs

`ServerFrame` cuts `GameFrame` at every call of game code: `phase` says where
the frame is, `copy` is what is left of the copied list of thinks or touches,
`at` the think function of the entity whose turn it is, `running` that a handler
is on the stack. While one runs, and outside of the two loops, entities are
created, removed, scheduled and moved at will. `simThink` is `CSimThinkManager`'s
vector with its index table, position by position: `RemoveEntinfoIndex` moves the
last entry into the hole. `NextThink` is `SetNextThink` with
`CheckHasThinkFunction` and its hint. An entity of the model stands for a slot
of the table and is created again once it is gone.

`Times` are what game code passes to `SetNextThink`: the current tick and later
ones, never, and 0. The code asks of a tick whether it is above 0 and whether it is
reached, and takes the least of several above 0, so that the current tick stands
for those that are past and 0 for those below (but -1, which is never). Tick 0 is
peculiar: it clears `EFL_NO_THINK_FUNCTION`, and no function with it is called
(see *Findings*). A function that was never scheduled has tick 0 in the code and `Never`
in the model, which reads the same wherever ticks are compared.

`PlayerSimulated` are the entities a player's commands simulate: they do not think
in this loop, and `SimulatePlayerSimulatedEntities` checks their touches in the
player's turn. `WithContexts` are those that have think functions with a context, all
`Thinks - 1` of them from the start; the others have the plain one. Not in the model: which
move type it is, what the simulation of a parent simulates, the skipping of
every other tick, `EFL_NO_THINK_FUNCTION` when the `nextthink` key value sets a
tick behind `CheckHasThinkFunction`'s back (`baseentity.cpp:2198`), and the limit
of 65535 entries. `UTIL_RemoveImmediate` is left out for what a touch handler is
being checked against and for player-simulated entities, which no code removes
that way.

### TSList, TSQueue, AtomicStack, MCTSQueue, TSQueueProofs

`TSQueue` is `CTSQueue` with `PushItem` and `PopItem`, for any number of threads,
one access to shared memory per step; a link of two words is read one word at a
time, a compare-and-swap is one step. Nodes are recycled through `m_FreeNodes`,
whose operations are `TSList`, instantiated on the same `next`: a node's link in
the free list is its `pNext` in the queue, which late threads still read.
`Half` is 2^16 in the code, the number of values of depth and sequence in the word
beside the pointer. Memory is sequentially consistent, as the interlocked
operations and `volatile` reads give it on x86; `m_Head`'s and `m_Tail`'s own
sequence numbers do not wrap within a run.

`AtomicStack` is what the free list promises. The queue has no such abstract
specification, for it is not one (see *Findings*).

## Runs

| Run | Bounds | Shows |
|---|---|---|
| EntityList | 4 slots (1 edict, slot 1 unused, 2 server-only), serials 0..1, 3 entities, 1 holder, 3 removals per slot; symmetric in the entities | the table, lists and handles stay consistent; `ImplementsRegistry` |
| EventQueue | 2 entities of one name, which is the class of one, 3 events, delays 0 and 1, 2 frames | order, no loss, all targets, names before classnames, `ImplementsTimedEvents` |
| EventQueueLive | 1 entity, 2 events, 3 frames, self-cancellation allowed, 2 uses of `ent_pause`/`ent_step`, fair | due events are served; while paused no more are delivered than `ent_step` and the first step allow |
| EventQueueLost | 1 entity, 3 events, self-cancellation | **violated**: an event posted by the handler is lost |
| LogicRelay | 2 actions, the longest delay on the unlimited one, 2 connections, 10 events, 6 units, fair | the relay's properties and its recovery |
| LogicRelayRefire | the longest delay on a limited action | **violated**: refire before the last output |
| EntityFactory | `prop_test` and `info_datadesc_accessor` with tables of 4, 3 objects | tables, destructors |
| EntityRemoval | 4 entities, symmetric; nobody parents a marked one | one release each, lists, no orphans, `Clear` |
| EntityRemovalOrphans | the same, marked ones may be parented | **violated**: a child survives its parent |
| ServerFrame | 2 entities, one with a second think function, the other simulated by a player; thinks at tick 0, now, 2 ahead and never; 2 ticks, 3 entries in the list of touches | thinks, touches, pointers, deletion |
| TSQueue | 2 threads, one of which may stop anywhere, 4 nodes, 3 pushes, 2 pops, fair to the other | items, emptiness, the free list, `AtomicStack`, every call returns |
| TSQueueFifo | the same with 4 pushes, symmetric | **violated**: an item overtakes another |

Why the bounds are enough. In the handle table two server-only slots make both
lists longer than one, and three entities exhaust them; a mask of 1 with three
removals takes every serial number past its wrap; the one slot of each other
kind (edict, slot `MAX_EDICTS`) suffices since the code tells slots apart by
these kinds and the last one only. In the queue, three events give an insertion in front of, between and behind
others while a fourth place, the head being delivered, is under the loop; two
entities are a search that goes on. Ties need two events of the same time, and
two frames give events that are not due. For the relay six units cover the longest delay,
the refire and a second trigger.
Four entities are a parent, a child between two siblings, or a chain of four. In
the frame a list of two entries has a hole and an entry that moves; a second think
function is one the hint does not know; a think two ticks ahead is not due in the
next frame, so that an earlier one must come in front of it. The entity a player
simulates does not think in the loop, but the other's handlers schedule, cancel and
remove it there, and everybody is scheduled from outside of the loop;
`NeverLateCorrect` has any number of entities that think. Three touch entries let
one entity be listed twice beside another. Two threads
and two new nodes beside the dummy recycle a node between two reads of the
other thread; a third push then links behind it. Half = 8 keeps the sequence
of the free list from coming round within a run, as 2^16 does for any delay that
is short of 2^16 pushes.

Each of the properties has, in `PROJECT.json`, a mutant of a definition (the
operators marked *Faulty* in the modules) that TLC finds violating it.

`CHECK_DEADLOCK FALSE` is there because the counters and the time are bounded:
each model ends when they are used up. `ServerFrame` is checked for deadlock: a
paused frame is always possible.

### Fairness

`EventQueue!FairSpec` assumes weak fairness of the frame as a whole
(`ServiceLoop`): the engine calls `GameFrame` again and a handler returns.
What handlers do is under no fairness. The number of events is bounded, so
`DueIsServed` says nothing of a handler that posts to itself without a delay
for ever, which keeps the frame from ending (listed as a hazard).
`LogicRelay!FairSpec` assumes the same of delivery and time.
`TSQueue!FairSpec` assumes that the threads of `Running` keep running and nothing of
the others, which may stop between any two accesses for good. `CallsReturn` is
about the former: a stopped thread does not stop them (a push that waits for the
thread that has linked its node to move the tail violates it). The calls are bounded,
so it does not say that a thread is served under endless load.
`DueIsServed` excepts a queue that stays paused and what follows once a handler
has deleted the event that called it.

## Findings

The violated runs are disagreements between comments and code:

1. `cbase.cpp:984`: a handler that cancels the event it is called by makes
   `ServiceEvents` unlink a deleted event, which can cut out a new one.
2. `logicrelay.cpp:154`: the wait is computed from a list that no longer has the
   actions that fired for the last time.
3. `baseentity.cpp:2545`: "Any children still connected are orphans, mark all for
   delete". A marked entity can be parented again (an input still reaches it); once
   it is destroyed, its handle cuts the child list of its last parent in two, and
   the children behind it survive that parent.
4. `tslist.h:6`, "FIFO": a push links its node behind the tail it has read whenever
   that node's link is `End()`. A node that was taken off, freed and prepared for
   another push has that link too. Nothing is lost (`EachItemOnce`) but the order.

Met while modelling, with no run of their own:

* `baseentity.h:1919`, "When paused, no outputs will fire unless Debug_SetSteps is
  called": `m_nDebugSteps` is 1 at first (`baseentity.cpp:89`), so that one event is
  delivered after the first `ent_pause` for which nobody asked. As an invariant
  `granted >= 0` the comment is violated within a frame. `StepsCoverDeliveries` says
  that this event is the only one.
* `util.cpp:392`, "so there can be no pointer errors": a player's
  `SimulatePlayerSimulatedEntities` (`baseplayer_shared.cpp:914`) clears
  `EFL_CHECK_UNTOUCH` of an entity whose entry stays in the list of touches. If the
  entity is then listed a second time while the touch loop runs, and its first entry
  clears the flag, its removal in the same frame does not take it off the list, and
  the next frame reads freed memory. Other entities are safe: `PointersAlive`
  excepts just these, and with `live` for `live \cup PlayerSimulated` it is violated.
* `entitylist.cpp:260`, `Assert( ... nextThinkTick>=0 )`: a think set to tick 0 or
  below clears `EFL_NO_THINK_FUNCTION` (`baseentity_shared.cpp:1062`), and the entity
  is put on the list of thinks with the tick of one that never thinks, -1.
  `logic_timer` sets such ticks when `AddToTimer` gets a negative number
  (`logicentities.cpp:531`). The entity is asked every frame in vain; nothing else
  goes wrong (`ListIsCurrent`, `NeverLate`).
* `public/basehandle.h:118` relies on the last slot being always empty; the table
  hands it out. An entity without a handle that is destroyed at that time takes the
  one in the last slot out of the table (`OnlyTheLastSlotIsStolen` shows that no
  other slot is affected).
* `entitylist_base.cpp:151`: all the slots are said to be free; slot `MAX_EDICTS`
  is in no list.
* `baseentity.cpp:2393`: disconnecting one script function drops every action
  (`RemoveEventAction` in `cbase.cpp:378`).
* `info_datadesc_acc.cpp:136`: the search for gaps expects rising offsets in a
  vector that was sorted by falling ones, so that it finds none.

## Proofs

TLAPS checks, for every value of the constants that satisfies the named assumptions:

* `EntityListProofs`: `Inductive`, and from it `Typing`, `NoDangling`,
  `ListsStayConsistent`, `HandleSafety`, `SlotsAreKept`. The properties are not
  inductive alone: a handle's resolution needs to know that the serial number
  of a slot has moved as far as its count of removals, that a holder's handle
  had the serial of that time, and that entry and own handle agree; an unlink
  needs to know that both lists are well linked over disjoint sets of slots. `IInv` is the
  conjunction of these. The argument about links is made once, for an arbitrary
  list over an arbitrary set (`UnlinkedList`, `AppendedList`, and what they
  leave alone: `UnlinkedElsewhere`, `AppendedElsewhere`); each action is then an
  instance, since the free and the active slots partition those that are linked.
  It rests on `SizesAssumption` and `NullAssumption`.
  `ListImplementsRegistry` is the refinement. `Threaded` says that the links of a
  list run through a given sequence, once through each of its slots. That two such
  sequences exist for the two lists is an invariant: an unlinking takes one position
  out of the sequence (`UnlinkThreads`), an insertion appends (`AppendThreads`).
  `ChainReads` shows that the mapping reads off just the sequence the links run
  through, by induction along the list; that a slot stands in it once bounds its
  length by the number of slots (`ThreadedLength`), which is how far `Chain` follows
  the links.
* `SelectionProofs`: `SelectedProperties` says what `Selected` returns for every
  sequence and set: positions that grow, of elements of the set, and all of these.
  Its recursion is resolved by induction over a *set* of numbers (`InductionUpTo`,
  from the existence of a least element), which needs no predicate as a parameter.
* `EventQueueProofs`: all the safety properties of `EventQueue`. `IInv` has two
  parts. `QInv` is about the queue: sorted, no event twice, all events numbered below
  the next number, the event being delivered is the head and not yet unlinked
  (`Delivery`), cancelled ones are gone, and whatever was posted is queued, fired or
  cancelled (`Conserved`, which speaks of the runs in which no handler has cancelled
  its own event; that is what makes it inductive). `SInv` is about the search: where
  it stands, which entities are behind it, by name and by class (`Searching`), what
  that comes to when the searches are over (`Reaching`, from which `AllTargetsReached`
  and `NamesComeFirst` follow), and how `m_nDebugSteps` and the deliveries add up
  while paused (`StepsLeft`, for `StepsAreSpent`). `EventsKept` (`NothingLost`) is proved under
  `~MaySelfCancel`; the run EventQueueLost shows that it is false without.
  `QueueImplementsTimedEvents` maps every step to one of `TimedEvents` or to none:
  an insertion adds one event (`PostRefines`), a deletion is a cancellation of a set
  (`DeleteRefines`), and the service takes the least, because the head of a sorted
  sequence without duplicates is before all others (`TakeRefines`).
* `LogicRelayProofs`: `Typing`; `RelayWaits`, which is inductive as it stands: a
  trigger posts one `EnableRefire` and starts to wait, cancelling ends both, delivery
  ends both. `NoMoreThanItsTimes` rests on `TimesLeft`: what an action has been
  posted and what its counter still allows add up to no more than the map says.
  It needs the identities of the actions of `OnTrigger` to be distinct
  (`RelayAssumption`), as those of `m_iIDStamp` are. `WaitsForTheLastOutput` is
  proved under `LongestAlwaysFires`: the longest delay of the output belongs to an
  action that fires without limit. Then a fire never drops the longest delay
  (`LongestStays`), and the `EnableRefire` that waits is the last event of its
  trigger (`RefireIsLast`). The run LogicRelayRefire violates the property where
  this is not so.
* `EntityFactoryProofs`: `Typing`, `FactoryInductive` and from it `FactoryTables`,
  `FactoryDestructors`. The strengthening says of the
  table under construction that the functions below the loop variable are in
  place and those from it on are as compiled, and ties the flag and the history
  to the place in the constructor.

* `ServerFrameProofs`: all the properties of `ServerFrame`. `ThinksInv` is the
  inductive invariant of the list of thinks: types, `IndexMatchesList`, that the list
  is what the flags say (`EntryIsCurrent`), that `EFL_NO_THINK_FUNCTION` is down
  while a function will be called, and besides only for one of tick 0
  (`NoThinkIsRight`), without which the hint of `CheckHasThinkFunction` cannot be
  trusted, and that an entity that is not
  constructed has no trace in it (`DeadIsBlank`). `RemoveEntinfoIndexProperties` and
  `EntityChangedProperties` say once what the two operations do to any list; the
  lemmas of the actions are instances (`IndexCorrect`, `ListCorrect`,
  `RemovedCorrect`). `FrameInv` ties copy, turn and phase; `OnTime` says of every
  function that is due that its entity is in the rest of the copy and its turn is
  not over, and gives `NeverLateCorrect` from the exactness of the list at the
  moment of the copy. `UntouchCorrect` needs that `Tail`, `Append` and the removal
  of another entity keep an entry. `PointersCorrect` needs that the list of touches
  and its copy hold an entity once, only with its flag and only in one of the two,
  which is what the exception for player-simulated entities is about.

* `EntityRemovalProofs`: all the properties of `EntityRemoval`. `RemovalInv` is the
  invariant of the removals. `Sound(w, D)` says of a world `w` in which the removals
  of `D` are under way that what the clean-up has yet to release is exactly who is
  marked and lives, except `D`; that neither list has anybody twice; and that what
  was put off lives. Removals nest, so the invariant speaks of a world and is carried
  through a removal piece by piece: `MarkSound` puts an entity into `D`, `ListedSound`
  takes it out, and `LeavesRemovedSound` and `RemovedAllSound` go along a list.
  `Quiet` (nothing is put off during a clean-up) and `Leaving` (what `Clear` leaves to
  its clean-up is everybody) complete it. `ListsHoldChildren` and `NoneIsOrphaned` are
  proved under `~ParentMarked`, which the run EntityRemovalOrphans shows is needed:
  `Tidy` says that a sequence runs through the handles of each list (`ListOf`) and
  that no marked entity has a parent that lives; it does not survive a `SetParent` of
  a marked child. Given `Tidy`, `Orphanless` follows because `AllChildren` is closed
  under children (`AllChildrenClosed`): every level that is not closed adds somebody,
  and there are no more levels than entities. What is defined by recursion over
  numbers (a list of children, the levels below an entity, the loops) is read off
  once, from the existence of the function (`StepsExist`), and then only through
  lemmas named `...Read`.

* `TSQueueProofs`: all the safety properties of `TSQueue`, for any number of threads,
  pushes and (finitely many) nodes, under `MaxPop < Half`. That hypothesis keeps the
  sequence number of the free list from coming round: `PopItem` frees one node per
  call, and `Half` is 2^16. It is needed: with `Half = 1`, five pushes and three pops
  TLC finds that the free list is no stack, because a swap succeeds on a head that was
  popped and pushed again. A program that runs long pops more often than that; the
  theorems say nothing of what a thread does that slept in the free list meanwhile.
  `IInv` says that there are a function `own` from nodes to chains (the queue, or the
  node at the start of a chain that a push prepares) and a function `pos` (the place
  in the chain), such that a link leads to the next place of the same chain, no place
  is taken twice and only a last node has the link `End` (`Forest`). All of it is
  needed because a thread may link its node behind one that has left the queue and is
  being prepared by another thread: the whole chain then hangs behind that one
  (`ChainHung`), and `rank` orders the nodes being prepared so that no chain is hung
  behind itself. `Stacked` gives the free list as a sequence, `Counted` its word as a
  number of pushes and a depth, `Apart` says that free nodes, new ones and those that a
  thread holds are not in a chain. `HeadSide`, `TailSide` and `FreeSide` say what a
  thread's stale reads are still good for: if the sequence is what it was when the
  thread read it, so are node and link. `ElementsOnce` and `NothingLost` follow the
  elements along the chains, `Told` the empty queue. `EachItemOnce` and
  `FreeListIsAStack` are stated by following links for as many steps as there are
  nodes; `ChainMet` and `StackIs` connect this with places and with the sequence
  (positions are distinct, so a chain is no longer than the number of nodes).

Only model-checked:

* The liveness properties `DueIsServed`, the recovery of the relay and `CallsReturn`,
  which need fairness and `ENABLED`.
* The four violations.

No module with a theorem has a `RECURSIVE` operator or a fold that takes an operator;
their recursion is that of functions.

## Not modelled, and why

* The rest of the SDK: the client, AI, weapons and game rules, the mission chooser,
  physics, networking, rendering, the engine's libraries. The tree has 1.2 million
  lines, of which the map covers a small part; what is modelled is where entities
  live and die. Most of the rest is content (one class per weapon or monster) that
  uses these components through the operations modelled here.
* The plugin's load and unload, `PdbParser` and the calls by address: their hazards
  (factories whose code was unloaded, COM objects released twice, a symbol that is
  missing and gives the address 0, layouts and calling conventions of another
  binary) lie in what code outside of this tree does with them, and the source
  promises nothing that could be checked.
* The console listing of data descriptions: no property of the program depends on
  it.
* `CEventAction`'s delay of its own for actions with a parameter, single precision
  of fire times (`GetMaxDelay() + 0.001`), and outputs fired for another caller,
  which `CancelEvents` misses.
* `CTSListBase::Detach`, `CTSQueue::Purge` and `Validate`, which are called when no
  other thread uses the list.

## Plan

Done: the components above, each with its abstract specification or its proofs.
Left:

1. Player simulation as state of an entity (`SetPlayerSimulated`,
   `UnsetPlayerSimulated`) in `ServerFrame`.
2. `EventQueue`'s service as the last part of `ServerFrame`, and `EntityRemoval`'s
   hierarchy in it.
3. `EntityOutput` with `LogicRelay` on the real `EventQueue` instead of
   `TimedEvents`, and the `OnSpawn` output.
