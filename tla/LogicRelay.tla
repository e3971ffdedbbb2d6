------------------------------ MODULE LogicRelay ------------------------------
(***************************************************************************)
(* CLogicRelay (game/server/logicrelay.cpp) with its OnTrigger output and  *)
(* the events it has in the event queue.  The queue is what TimedEvents    *)
(* says of it: a set from which the event due first fires first.  A        *)
(* triggered relay waits: it takes no Trigger until the EnableRefire event *)
(* it posted to itself comes back.                                         *)
(*                                                                         *)
(* One unit of time is the 0.001 that EnableRefire comes after the longest *)
(* delay.                                                                  *)
(***************************************************************************)
EXTENDS EntityOutput, FiniteSets

CONSTANTS
  OnTrigger,            (* The actions of OnTrigger in the map.            *)
  Script,               (* The action ConnectOutput adds: no delay, always.*)
  Frame,                (* How much time a frame may take.                 *)
  MaxEvents,            (* Bound: events posted.                           *)
  MaxTime,              (* Bound: time.                                    *)
  MaxConnects           (* Bound: uses of ConnectOutput.                   *)

ASSUME RelayAssumption ==
  /\ OnTrigger \in Seq([id : Nat \ {0}, delay : Nat, times : Int])
  /\ \A i, j \in DOMAIN OnTrigger : OnTrigger[i].id = OnTrigger[j].id => i = j
  /\ Script \in [id : Nat \ {0}, delay : {0}, times : {EVENT_FIRE_ALWAYS}]
  /\ \A a \in Actions(OnTrigger) : a.id /= Script.id
  /\ Frame \subseteq Nat \ {0}
  /\ {MaxEvents, MaxTime, MaxConnects} \subseteq Nat

VARIABLES
  now,          (* gpGlobals->curtime                                      *)
  spawnflags,   (* m_spawnflags, which the map sets                        *)
  output,       (* m_OnTrigger's action list                               *)
  disabled,     (* m_bDisabled                                             *)
  waiting,      (* m_bWaitForRefire                                        *)
  life,         (* the relay is alive, marked for deletion or gone         *)
  pending,      (* the events in the queue that the relay is the caller of *)
  last,         (* how many of them were posted                            *)
  connects,     (* bound: uses of ConnectOutput                            *)
  sent          (* history: how often each action of the map was posted    *)

vars == <<now, spawnflags, output, disabled, waiting, life, pending, last,
          connects, sent>>

Spawnflags == {"SF_REMOVE_ON_FIRE", "SF_ALLOW_FAST_RETRIGGER"}
RemoveOnFire == "SF_REMOVE_ON_FIRE" \in spawnflags
AllowFastRetrigger == "SF_ALLOW_FAST_RETRIGGER" \in spawnflags

(* An event is the relay's own EnableRefire or comes from its output. *)
Event == [id : 1 .. MaxEvents, time : Nat, refire : BOOLEAN]
MapIds == {a.id : a \in Actions(OnTrigger)}

TypeOK ==
  /\ now \in 0 .. MaxTime
  /\ spawnflags \subseteq Spawnflags
  /\ output \in Seq([id : Nat, delay : Nat, times : Int \ {0}])
  /\ disabled \in BOOLEAN
  /\ waiting \in BOOLEAN
  /\ life \in {"alive", "marked", "gone"}
  /\ pending \subseteq Event
  /\ last \in 0 .. MaxEvents
  /\ connects \in 0 .. MaxConnects
  /\ sent \in [MapIds -> Nat]

Init ==
  /\ now = 0
  /\ spawnflags \in SUBSET Spawnflags
  /\ output = [i \in DOMAIN OnTrigger |->
                 [OnTrigger[i] EXCEPT !.times = ParsedTimes(@)]]
  /\ disabled \in BOOLEAN
  /\ waiting = FALSE
  /\ life = "alive"
  /\ pending = {}
  /\ last = 0
  /\ connects = 0
  /\ sent = [i \in MapIds |-> 0]

-----------------------------------------------------------------------------
Before(a, b) == a.time < b.time \/ (a.time = b.time /\ a.id < b.id)

(* The events one firing of the output posts, numbered from the last one. *)
Posted(list) ==
  {[id |-> last + i, time |-> now + list[i].delay, refire |-> FALSE] :
     i \in DOMAIN list}

EnableRefireEvent(list, n) ==
  [id |-> n, time |-> now + GetMaxDelay(list) + 1, refire |-> TRUE]

(* InputTrigger.  FireOutput has shortened the list when GetMaxDelay looks *)
(* at it.                                                                  *)
InputTrigger ==
  LET left == AfterFire(output)
      n == Len(output)
      refire == ~RemoveOnFire /\ ~AllowFastRetrigger IN
  /\ life /= "gone"
  /\ ~disabled
  /\ ~waiting
  /\ last + n < MaxEvents
  /\ output' = left
  /\ sent' = [i \in MapIds |->
                sent[i] + Cardinality({a \in Actions(output) : a.id = i})]
  /\ life' = IF RemoveOnFire THEN "marked" ELSE life
  /\ waiting' = refire
  /\ last' = IF refire THEN last + n + 1 ELSE last + n
  /\ pending' = pending \cup Posted(output) \cup
                IF refire THEN {EnableRefireEvent(left, last + n + 1)} ELSE {}
  /\ UNCHANGED <<now, spawnflags, disabled, connects>>

InputEnableDisableOrToggle ==
  /\ life /= "gone"
  /\ disabled' = ~disabled
  /\ UNCHANGED <<now, spawnflags, output, waiting, life, pending, last,
                 connects, sent>>

(* Faulty: cancels the events and goes on waiting. *)
CancelAndWait ==
  /\ life /= "gone"
  /\ pending' = {}
  /\ UNCHANGED <<now, spawnflags, output, disabled, waiting, life, last,
                 connects, sent>>

(* InputCancelPending: CancelEvents( this ), and wait no more. *)
InputCancelPending ==
  /\ life /= "gone"
  /\ pending' = {}
  /\ waiting' = FALSE
  /\ UNCHANGED <<now, spawnflags, output, disabled, life, last, connects,
                 sent>>

(* ConnectOutputFromScript and DisconnectOutputFromScript for one function.*)
ConnectOutput ==
  /\ life /= "gone"
  /\ connects < MaxConnects
  /\ Script \notin Actions(output)
  /\ connects' = connects + 1
  /\ output' = AddEventAction(output, Script)
  /\ UNCHANGED <<now, spawnflags, disabled, waiting, life, pending, last,
                 sent>>

DisconnectOutput ==
  /\ life /= "gone"
  /\ Script \in Actions(output)
  /\ output' = RemoveEventAction(output, Script)
  /\ UNCHANGED <<now, spawnflags, disabled, waiting, life, pending, last,
                 connects, sent>>

(* Remove input of the relay. *)
InputKill ==
  /\ life = "alive"
  /\ life' = "marked"
  /\ UNCHANGED <<now, spawnflags, output, disabled, waiting, pending, last,
                 connects, sent>>

Due == {ev \in pending : ev.time <= now}

(* Faulty: EnableRefire does not end the wait. *)
DeliverAndWait ==
  \E ev \in Due :
    /\ \A other \in pending \ {ev} : Before(ev, other)
    /\ pending' = pending \ {ev}
    /\ UNCHANGED <<now, spawnflags, output, disabled, waiting, life, last,
                   connects, sent>>

(* The queue delivers the relay's next event; the one of them that is for  *)
(* the relay itself is EnableRefire.                                       *)
Deliver ==
  \E ev \in Due :
    /\ \A other \in pending \ {ev} : Before(ev, other)
    /\ pending' = pending \ {ev}
    /\ waiting' = (waiting /\ ~(ev.refire /\ life /= "gone"))
    /\ UNCHANGED <<now, spawnflags, output, disabled, life, last, connects,
                   sent>>

(* The frame ends with nothing due left, CleanupDeleteList, and time.      *)
NextFrame ==
  /\ Due = {}
  /\ \E t \in Frame : now + t <= MaxTime /\ now' = now + t
  /\ life' = IF life = "marked" THEN "gone" ELSE life
  /\ UNCHANGED <<spawnflags, output, disabled, waiting, pending, last,
                 connects, sent>>

Next ==
  \/ InputTrigger \/ InputEnableDisableOrToggle
  \/ InputCancelPending \/ InputKill
  \/ ConnectOutput \/ DisconnectOutput
  \/ Deliver \/ NextFrame

Spec == Init /\ [][Next]_vars

(* The server runs frames, and each delivers what is due. *)
FairSpec == Spec /\ WF_vars(Deliver \/ NextFrame)

-----------------------------------------------------------------------------
Refires == {ev \in pending : ev.refire}

(* A relay that waits has exactly one EnableRefire under way, and one that *)
(* does not has none: CancelPending drops the event and the waiting, and a *)
(* late EnableRefire never ends the wait of a later Trigger.               *)
WaitsForOneRefire ==
  life /= "gone" =>
    /\ waiting => \E ev \in pending : Refires = {ev}
    /\ ~waiting => Refires = {}

(* "Set to disallow a refire while we are waiting for our outputs to finish *)
(* firing" (m_bWaitForRefire): a relay that can be triggered has none of   *)
(* its outputs in the queue.                                               *)
NoRefireBeforeLastOutput ==
  life = "alive" /\ ~waiting /\ ~AllowFastRetrigger => pending = {}

(* An action with a number of times to fire is posted that often at most.  *)
FiresItsTimes ==
  \A a \in Actions(OnTrigger) : a.times > 0 => sent[a.id] <= a.times

(* A relay that waits takes triggers again some time.                      *)
RelayRecovers ==
  waiting /\ (\E ev \in Refires : ev.time <= MaxTime)
    ~> ~waiting \/ life = "gone"
=============================================================================
