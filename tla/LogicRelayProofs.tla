--------------------------- MODULE LogicRelayProofs ---------------------------
(***************************************************************************)
(* Proofs about LogicRelay: a relay that waits has one EnableRefire under  *)
(* way, whatever its output holds and however long time runs.              *)
(***************************************************************************)
EXTENDS LogicRelay, SelectionProofs, FiniteSetTheorems

-----------------------------------------------------------------------------
(* The output's actions: what firing, connecting and disconnecting make of *)
(* the list.                                                               *)
Action == [id : Nat, delay : Nat, times : Int]
Live == [id : Nat, delay : Nat, times : Int \ {0}]

LEMMA ActionsOf ==
  ASSUME NEW X, NEW list \in Seq(X)
  PROVE  Actions(list) \subseteq X /\ IsFiniteSet(Actions(list))
<1>1. DOMAIN list = 1 .. Len(list) /\ \A i \in 1 .. Len(list) : list[i] \in X
  OBVIOUS
<1>2. IsFiniteSet(1 .. Len(list))
  BY FS_Interval
<1>3. IsFiniteSet({list[i] : i \in 1 .. Len(list)})
  <2> DEFINE I == 1 .. Len(list)
             T == {list[i] : i \in I}
  <2>1. list \in Surjection(I, T)
    <3>1. list \in [I -> T]
      BY <1>1
    <3>2. \A t \in T : \E i \in I : list[i] = t
      OBVIOUS
    <3> QED  BY <3>1, <3>2 DEF Surjection
  <2> HIDE DEF T
  <2>2. IsFiniteSet(T)
    BY <1>2, <2>1, FS_Surjection
  <2> QED  BY <2>2 DEF T
<1> QED  BY <1>1, <1>3 DEF Actions

(* A list whose elements are all in a smaller set is a list over that set. *)
LEMMA NarrowedList ==
  ASSUME NEW X, NEW list \in Seq(X), NEW Y, Actions(list) \subseteq Y
  PROVE  list \in Seq(Y)
<1>1. list = [i \in 1 .. Len(list) |-> list[i]] /\ Len(list) \in Nat
  OBVIOUS
<1>2. \A i \in 1 .. Len(list) : list[i] \in Y
  BY DEF Actions
<1> QED  BY <1>1, <1>2

LEMMA SpentAction ==
  ASSUME NEW a \in Action
  PROVE  /\ Spent(a) \in Action
         /\ Spent(a).id = a.id /\ Spent(a).delay = a.delay
         /\ a.times = EVENT_FIRE_ALWAYS => Spent(a) = a
         /\ a.times /= EVENT_FIRE_ALWAYS => Spent(a).times = a.times - 1
BY DEF Spent, Action, EVENT_FIRE_ALWAYS

(* Firing the output keeps the actions that have times left, counted down. *)
LEMMA AfterFireActions ==
  ASSUME NEW list \in Seq(Live)
  PROVE  /\ AfterFire(list) \in Seq(Live)
         /\ Actions(AfterFire(list))
              = {a \in {Spent(b) : b \in Actions(list)} : a.times /= 0}
<1>1. list \in Seq(Action)
  <2>1. Live \subseteq Action
    BY DEF Live, Action
  <2>2. Actions(list) \subseteq Action
    BY <2>1, ActionsOf
  <2> QED  BY <2>2, NarrowedList
<1> DEFINE fl == Firing(list)
           S == {a \in Actions(fl) : a.times /= 0}
<1>2. fl \in Seq(Action) /\ Actions(fl) = {Spent(b) : b \in Actions(list)}
  <2>1. Len(list) \in Nat /\ DOMAIN list = 1 .. Len(list)
    BY <1>1
  <2>2. \A i \in 1 .. Len(list) : list[i] \in Action
    BY <1>1
  <2>3. \A i \in 1 .. Len(list) : Spent(list[i]) \in Action
    BY <2>2, SpentAction
  <2>4. fl = [i \in 1 .. Len(list) |-> Spent(list[i])]
    BY <2>1 DEF Firing
  <2>5. fl \in Seq(Action)
    BY <2>1, <2>3, <2>4
  <2>6. Actions(fl) = {Spent(list[i]) : i \in 1 .. Len(list)}
    BY <2>4 DEF Actions
  <2> QED  BY <2>1, <2>5, <2>6 DEF Actions
<1> HIDE DEF fl
<1>3. Selected(fl, S) \in Seq(Action) /\ Actions(Selected(fl, S)) = Actions(fl) \cap S
  <2> HIDE DEF S
  <2>1. Selected(fl, S) \in Seq(Action)
    BY <1>2, SelectedProperties
  <2>2. {Selected(fl, S)[i] : i \in DOMAIN Selected(fl, S)} = {fl[i] : i \in DOMAIN fl} \cap S
    BY <1>2, SelectedRange
  <2> QED  BY <2>1, <2>2 DEF Actions
<1>4. AfterFire(list) = Selected(fl, S)
  BY DEF AfterFire, fl
<1>5. Actions(AfterFire(list)) = S
  BY <1>3, <1>4
<1>6. S \subseteq Live
  <2>1. Actions(fl) \subseteq Action
    BY <1>2, ActionsOf
  <2> QED  BY <2>1 DEF Live, Action
<1>7. AfterFire(list) \in Seq(Live)
  BY <1>3, <1>4, <1>5, <1>6, NarrowedList
<1> QED  BY <1>2, <1>5, <1>7

LEMMA AddedAction ==
  ASSUME NEW list \in Seq(Live), NEW a \in Live
  PROVE  /\ AddEventAction(list, a) \in Seq(Live)
         /\ Actions(AddEventAction(list, a)) = Actions(list) \cup {a}
<1> DEFINE q == AddEventAction(list, a)
           n == Len(list)
<1>1. q \in Seq(Live) /\ Len(q) = n + 1 /\ q[1] = a /\ n \in Nat
      /\ \A i \in 1 .. n : q[i + 1] = list[i]
  BY DEF AddEventAction
<1>2. DOMAIN q = 1 .. n + 1 /\ DOMAIN list = 1 .. n
  BY <1>1
<1> HIDE DEF q, n
<1>3. ASSUME NEW x \in Actions(q)  PROVE x \in Actions(list) \cup {a}
  <2>1. PICK i \in 1 .. n + 1 : x = q[i]
    BY <1>2 DEF Actions
  <2>2. CASE i = 1
    BY <1>1, <2>1, <2>2
  <2>3. CASE i /= 1
    <3>1. PICK j \in 1 .. n : i = j + 1
      <4>1. i - 1 \in 1 .. n /\ i = (i - 1) + 1
        BY <1>1, <2>3
      <4> QED  BY <4>1
    <3> QED  BY <1>1, <1>2, <2>1, <3>1 DEF Actions
  <2> QED  BY <2>2, <2>3
<1>4. ASSUME NEW x \in Actions(list) \cup {a}  PROVE x \in Actions(q)
  <2>1. CASE x = a
    BY <1>1, <1>2, <2>1 DEF Actions
  <2>2. CASE x \in Actions(list)
    <3>1. PICK i \in 1 .. n : x = list[i]
      BY <1>2, <2>2 DEF Actions
    <3>2. i + 1 \in 1 .. n + 1 /\ q[i + 1] = x
      BY <1>1, <3>1
    <3> QED  BY <1>2, <3>2 DEF Actions
  <2> QED  BY <1>4, <2>1, <2>2
<1>5. Actions(q) = Actions(list) \cup {a}
  BY <1>3, <1>4
<1> QED  BY <1>1, <1>5 DEF q

LEMMA RemovedAction ==
  ASSUME NEW list \in Seq(Live), NEW a
  PROVE  /\ RemoveEventAction(list, a) \in Seq(Live)
         /\ Actions(RemoveEventAction(list, a)) \subseteq Actions(list)
         /\ a \in Actions(list) => RemoveEventAction(list, a) = <<>>
<1>1. <<>> \in Seq(Live) /\ Actions(<<>>) = {}
  BY DEF Actions
<1> QED  BY <1>1 DEF RemoveEventAction

(* The delays of a list have a largest one, and GetMaxDelay finds it.      *)
LEMMA MaxDelay ==
  ASSUME NEW list \in Seq(Live)
  PROVE  /\ GetMaxDelay(list) \in Nat
         /\ \A a \in Actions(list) : a.delay <= GetMaxDelay(list)
<1> DEFINE delays == {0} \cup {a.delay : a \in Actions(list)}
           n == Len(list)
           P == {m \in 0 .. n : \E b \in Nat : \A i \in 1 .. m : list[i].delay <= b}
<1>1. n \in Nat /\ DOMAIN list = 1 .. n /\ \A i \in 1 .. n : list[i].delay \in Nat
  <2>1. \A i \in 1 .. Len(list) : list[i] \in Live
    OBVIOUS
  <2>2. \A a \in Live : a.delay \in Nat
    BY DEF Live
  <2>3. \A i \in 1 .. Len(list) : list[i].delay \in Nat
    BY <2>1, <2>2
  <2> QED  BY <2>3
<1>2. n \in P
  <2>1. 0 \in P
    BY <1>1
  <2>2. ASSUME NEW m \in 0 .. n - 1, m \in P  PROVE m + 1 \in P
    <3>1. PICK b \in Nat : \A i \in 1 .. m : list[i].delay <= b
      BY <2>2
    <3>2. m + 1 \in 1 .. n
      BY <1>1
    <3> DEFINE d == list[m + 1].delay
    <3>3. d \in Nat
      BY <1>1, <3>2
    <3>4. \A i \in 1 .. m + 1 : i \in 1 .. m \/ i = m + 1
      OBVIOUS
    <3>5. \A i \in 1 .. m + 1 : list[i].delay <= b + d
      <4> SUFFICES ASSUME NEW i \in 1 .. m + 1  PROVE list[i].delay <= b + d
        OBVIOUS
      <4>1. CASE i = m + 1
        <5>1. list[i].delay = d
          BY <4>1
        <5> HIDE DEF d
        <5> QED  BY <3>3, <5>1
      <4>2. CASE i \in 1 .. m
        <5>1. list[i].delay <= b /\ list[i].delay \in Nat
          BY <1>1, <3>1, <4>2
        <5> HIDE DEF d
        <5> QED  BY <3>3, <5>1
      <4> QED  BY <3>4, <4>1, <4>2
    <3>6. b + d \in Nat
      <4> HIDE DEF d
      <4> QED  BY <3>3
    <3>7. m + 1 \in 0 .. n
      BY <1>1
    <3> HIDE DEF d, n
    <3> QED  BY <3>5, <3>6, <3>7
  <2> HIDE DEF P
  <2>3. 0 .. n \subseteq P
    BY <1>1, <2>1, <2>2, InductionUpTo
  <2> QED  BY <1>1, <2>3
<1>3. \A d \in delays : d \in Nat
  BY <1>1 DEF Actions
<1> DEFINE B == {b \in Nat : \A d \in delays : d <= b}
<1>4. B /= {}
  <2>1. PICK b \in Nat : \A i \in 1 .. n : list[i].delay <= b
    BY <1>2
  <2>2. \A d \in delays : d <= b
    BY <1>1, <2>1 DEF Actions
  <2> QED  BY <2>2
<1>5. PICK d \in B : \A b \in B : d <= b
  <2>1. B \in SUBSET Nat
    OBVIOUS
  <2> HIDE DEF B
  <2> QED  BY <1>4, <2>1, LeastNumber
<1>6. d \in delays
  <2> SUFFICES ASSUME d \notin delays  PROVE FALSE
    OBVIOUS
  <2>1. d \in Nat /\ \A x \in delays : x <= d /\ x /= d
    BY <1>5
  <2>2. 0 \in delays
    OBVIOUS
  <2> HIDE DEF delays
  <2>3. d - 1 \in Nat /\ \A x \in delays : x <= d - 1
    BY <1>3, <2>1, <2>2
  <2>4. d - 1 \in B
    BY <2>3
  <2> HIDE DEF B
  <2> QED  BY <1>5, <2>1, <2>4
<1>7. \A other \in delays : other <= d
  BY <1>5
<1>8. GetMaxDelay(list) = CHOOSE x \in delays : \A other \in delays : other <= x
  BY DEF GetMaxDelay
<1>9. \A a \in Actions(list) : a.delay \in delays
  OBVIOUS
<1> HIDE DEF delays
<1>10. GetMaxDelay(list) \in delays /\ \A other \in delays : other <= GetMaxDelay(list)
  BY <1>6, <1>7, <1>8
<1> QED  BY <1>3, <1>9, <1>10

-----------------------------------------------------------------------------

(* A relay starts with no event in the queue and does not wait. *)
LEMMA InitWaits == Init => WaitsForOneRefire
  BY DEF Init, WaitsForOneRefire, Refires

(* A trigger that makes the relay wait posts the one EnableRefire; one     *)
(* that does not posts none.                                               *)
LEMMA TriggerWaits ==
  ASSUME WaitsForOneRefire, InputTrigger
  PROVE  WaitsForOneRefire'
<1>1. Refires = {}
  BY DEF WaitsForOneRefire, InputTrigger
<1> DEFINE e == EnableRefireEvent(AfterFire(output), last + Len(output) + 1)
<1>2. e.refire
  BY DEF EnableRefireEvent
<1>3. \A ev \in Posted(output) : ~ev.refire
  BY DEF Posted
<1>4. CASE waiting'
  <2>1. pending' = pending \cup Posted(output) \cup {e}
    BY <1>4 DEF InputTrigger
  <2>2. Refires' = {e}
    BY <1>1, <1>2, <1>3, <2>1 DEF Refires
  <2> QED  BY <1>4, <2>1, <2>2 DEF WaitsForOneRefire
<1>5. CASE ~waiting'
  <2>1. pending' = pending \cup Posted(output)
    BY <1>5 DEF InputTrigger
  <2>2. Refires' = {}
    BY <1>1, <1>3, <2>1 DEF Refires
  <2> QED  BY <1>5, <2>2 DEF WaitsForOneRefire
<1> QED  BY <1>4, <1>5

(* Delivering EnableRefire ends the wait, delivering an output does not    *)
(* touch it.                                                               *)
LEMMA DeliverWaits ==
  ASSUME WaitsForOneRefire, Deliver
  PROVE  WaitsForOneRefire'
<1>1. PICK ev \in pending :
        /\ pending' = pending \ {ev}
        /\ waiting' = (waiting /\ ~(ev.refire /\ life /= "gone"))
        /\ life' = life
  BY DEF Deliver, Due
<1>2. Refires' = Refires \ {ev}
  BY <1>1 DEF Refires
<1>3. ev.refire <=> ev \in Refires
  BY <1>1 DEF Refires
<1>4. SUFFICES ASSUME life /= "gone"
               PROVE  /\ waiting' => \E e \in pending' : Refires' = {e}
                      /\ ~waiting' => Refires' = {}
  BY <1>1 DEF WaitsForOneRefire
<1>5. CASE waiting
  <2>1. PICK e \in pending : Refires = {e}
    BY <1>4, <1>5 DEF WaitsForOneRefire
  <2>2. CASE ev = e
    BY <1>1, <1>2, <1>3, <1>4, <2>1, <2>2
  <2>3. CASE ev /= e
    BY <1>1, <1>2, <1>3, <1>5, <2>1, <2>3
  <2> QED  BY <2>2, <2>3
<1>6. CASE ~waiting
  BY <1>1, <1>2, <1>4, <1>6 DEF WaitsForOneRefire
<1> QED  BY <1>5, <1>6

(* Every step.                                                             *)
LEMMA NextWaits ==
  ASSUME WaitsForOneRefire, [Next]_vars
  PROVE  WaitsForOneRefire'
<1> USE DEF WaitsForOneRefire, Refires
<1>1. CASE InputTrigger
  BY <1>1, TriggerWaits
<1>2. CASE InputEnableDisableOrToggle
  BY <1>2 DEF InputEnableDisableOrToggle
<1>3. CASE InputCancelPending
  BY <1>3 DEF InputCancelPending
<1>4. CASE InputKill
  BY <1>4 DEF InputKill
<1>5. CASE ConnectOutput
  BY <1>5 DEF ConnectOutput
<1>6. CASE DisconnectOutput
  BY <1>6 DEF DisconnectOutput
<1>7. CASE Deliver
  BY <1>7, DeliverWaits
<1>8. CASE NextFrame
  BY <1>8 DEF NextFrame
<1>9. CASE UNCHANGED vars
  BY <1>9 DEF vars
<1> QED
  BY <1>1, <1>2, <1>3, <1>4, <1>5, <1>6, <1>7, <1>8, <1>9 DEF Next

(* A relay that waits has exactly one EnableRefire in the queue, and one   *)
(* that does not has none: neither CancelPending nor a removal or a change *)
(* of its output leaves a relay waiting for nothing, or lets an            *)
(* EnableRefire of an earlier trigger end a later wait.                    *)
THEOREM RelayWaits == Spec => []WaitsForOneRefire
BY InitWaits, NextWaits, PTL DEF Spec

-----------------------------------------------------------------------------
(* What the proofs need of a relay besides its types.                      *)

(* The longest delay of OnTrigger is that of an action that always fires.  *)
LongestAlwaysFires ==
  \A a \in Actions(OnTrigger) :
    \E b \in Actions(OnTrigger) :
      a.delay <= b.delay /\ ParsedTimes(b.times) = EVENT_FIRE_ALWAYS

(* And it stays in the output.                                             *)
LongestStays ==
  \A a \in Actions(output) :
    \E b \in Actions(output) :
      a.delay <= b.delay /\ b.times = EVENT_FIRE_ALWAYS

(* A relay waits for all of its outputs: EnableRefire is behind them.      *)
RefireIsLast ==
  life = "alive" /\ ~AllowFastRetrigger =>
    /\ ~waiting => pending = {}
    /\ \A ev, other \in pending : ~ev.refire /\ other.refire => Before(ev, other)

(* An action was posted no more often than it has counted down.            *)
TimesLeft ==
  /\ \A a \in Actions(output) : a = Script \/ a.id \in MapIds
  /\ \A a, b \in Actions(output) : a.id = b.id => a = b
  /\ \A a \in Actions(OnTrigger) : a.times > 0 =>
       /\ sent[a.id] <= a.times
       /\ \A b \in Actions(output) :
            b.id = a.id => b.times > 0 /\ sent[a.id] + b.times <= a.times

-----------------------------------------------------------------------------
(* Types.                                                                  *)
LEMMA MapActions ==
  /\ OnTrigger \in Seq(Action)
  /\ DOMAIN OnTrigger = 1 .. Len(OnTrigger) /\ Len(OnTrigger) \in Nat
  /\ \A i \in 1 .. Len(OnTrigger) : OnTrigger[i] \in Action
  /\ Script \in Live /\ Script.delay = 0 /\ Script.times = EVENT_FIRE_ALWAYS
<1>1. OnTrigger \in Seq(Action)
  <2>1. OnTrigger \in Seq([id : Nat \ {0}, delay : Nat, times : Int])
    BY RelayAssumption
  <2>2. [id : Nat \ {0}, delay : Nat, times : Int] \subseteq Action
    BY DEF Action
  <2>3. Actions(OnTrigger) \subseteq Action
    BY <2>1, <2>2, ActionsOf
  <2> QED  BY <2>1, <2>3, NarrowedList
<1>2. \A i \in 1 .. Len(OnTrigger) : OnTrigger[i] \in Action
  BY <1>1
<1>3. Script \in Live /\ Script.delay = 0 /\ Script.times = EVENT_FIRE_ALWAYS
  BY RelayAssumption DEF Live, EVENT_FIRE_ALWAYS
<1> QED  BY <1>1, <1>2, <1>3

(* The relay's output at first: the map's actions, parsed.                 *)
LEMMA FirstOutput ==
  ASSUME Init
  PROVE  /\ output \in Seq(Live)
         /\ Actions(output) =
              {[a EXCEPT !.times = ParsedTimes(@)] : a \in Actions(OnTrigger)}
<1> DEFINE n == Len(OnTrigger)
           parsed(a) == [a EXCEPT !.times = ParsedTimes(@)]
<1>1. output = [i \in 1 .. n |-> parsed(OnTrigger[i])] /\ n \in Nat
  BY MapActions DEF Init
<1>2. \A a \in Action : parsed(a) \in Live
  BY DEF Action, Live, ParsedTimes, EVENT_FIRE_ALWAYS
<1>3. \A i \in 1 .. n : parsed(OnTrigger[i]) \in Live
  BY <1>2, MapActions
<1>4. output \in Seq(Live)
  <2> HIDE DEF n, parsed
  <2> QED  BY <1>1, <1>3
<1>5. Actions(output) = {parsed(OnTrigger[i]) : i \in 1 .. n}
  <2> HIDE DEF parsed, n
  <2> QED  BY <1>1 DEF Actions
<1>6. {parsed(OnTrigger[i]) : i \in 1 .. n} = {parsed(a) : a \in Actions(OnTrigger)}
  <2> HIDE DEF parsed
  <2> QED  BY MapActions DEF Actions
<1> QED  BY <1>4, <1>5, <1>6

(* What one firing posts.                                                  *)
LEMMA PostedEvents ==
  ASSUME TypeOK
  PROVE  /\ Len(output) \in Nat /\ output \in Seq(Live)
         /\ \A ev \in Posted(output) :
              /\ ~ev.refire
              /\ ev.id \in last + 1 .. last + Len(output)
              /\ \E a \in Actions(output) : ev.time = now + a.delay
         /\ last + Len(output) < MaxEvents => Posted(output) \subseteq Event
<1> DEFINE n == Len(output)
<1>1. output \in Seq(Live) /\ n \in Nat /\ DOMAIN output = 1 .. n
      /\ now \in Nat /\ last \in Nat /\ MaxEvents \in Nat
  BY RelayAssumption DEF TypeOK, Live
<1>2. \A i \in 1 .. n : output[i] \in Live
  BY <1>1
<1>3. \A i \in 1 .. n : output[i].delay \in Nat /\ output[i] \in Actions(output)
  BY <1>1, <1>2 DEF Live, Actions
<1> HIDE DEF n
<1>4. ASSUME NEW ev \in Posted(output)
      PROVE  /\ ~ev.refire
             /\ ev.id \in last + 1 .. last + n
             /\ \E a \in Actions(output) : ev.time = now + a.delay
             /\ last + n < MaxEvents => ev \in Event
  <2>1. PICK i \in 1 .. n :
          ev = [id |-> last + i, time |-> now + output[i].delay, refire |-> FALSE]
    BY <1>1, <1>4 DEF Posted
  <2>2. ~ev.refire /\ ev.id = last + i /\ ev.time = now + output[i].delay
    BY <2>1
  <2>3. last + i \in last + 1 .. last + n
    BY <1>1
  <2>4. now + output[i].delay \in Nat
    BY <1>1, <1>3
  <2>5. ASSUME last + n < MaxEvents  PROVE ev \in Event
    <3>1. last + i \in 1 .. MaxEvents
      BY <1>1, <2>5
    <3> QED  BY <2>1, <2>4, <3>1 DEF Event
  <2> QED  BY <1>3, <2>2, <2>3, <2>5
<1> QED  BY <1>1, <1>4 DEF n

LEMMA TriggerTypes ==
  ASSUME TypeOK, InputTrigger
  PROVE  TypeOK'
<1> DEFINE left == AfterFire(output)
           n == Len(output)
           e == EnableRefireEvent(left, last + n + 1)
<1>1. output \in Seq(Live) /\ n \in Nat /\ last + n < MaxEvents
      /\ Posted(output) \subseteq Event
  BY PostedEvents DEF InputTrigger
<1>2. left \in Seq(Live) /\ GetMaxDelay(left) \in Nat
  BY <1>1, AfterFireActions, MaxDelay
<1>3. now \in Nat /\ last \in Nat /\ MaxEvents \in Nat
  BY RelayAssumption DEF TypeOK
<1>4. e \in Event
  <2>1. last + n + 1 \in 1 .. MaxEvents
    BY <1>1, <1>3
  <2>2. now + GetMaxDelay(left) + 1 \in Nat
    BY <1>2, <1>3
  <2> HIDE DEF left, n
  <2> QED  BY <2>1, <2>2 DEF EnableRefireEvent, Event
<1>5. pending' \subseteq pending \cup Posted(output) \cup {e}
  BY DEF InputTrigger
<1>6. pending' \subseteq Event
  BY <1>1, <1>4, <1>5 DEF TypeOK
<1>7. last' \in 0 .. MaxEvents
  BY <1>1, <1>3 DEF InputTrigger
<1>8. sent' \in [MapIds -> Nat]
  <2>1. ASSUME NEW i \in MapIds
        PROVE  Cardinality({a \in Actions(output) : a.id = i}) \in Nat
    <3>1. IsFiniteSet(Actions(output))
      BY <1>1, ActionsOf
    <3>2. IsFiniteSet({a \in Actions(output) : a.id = i})
      BY <3>1, FS_Subset
    <3> QED  BY <3>2, FS_CardinalityType
  <2>2. \A i \in MapIds : sent[i] \in Nat
    BY DEF TypeOK
  <2> QED  BY <2>1, <2>2 DEF InputTrigger
<1>9. output' \in Seq([id : Nat, delay : Nat, times : Int \ {0}])
  BY <1>2 DEF InputTrigger, Live
<1>10. waiting' \in BOOLEAN
  BY DEF InputTrigger, RemoveOnFire, AllowFastRetrigger
<1>11. life' \in {"alive", "marked", "gone"}
  BY DEF InputTrigger, TypeOK
<1> QED
  BY <1>6, <1>7, <1>8, <1>9, <1>10, <1>11 DEF TypeOK, InputTrigger

(* TypeOK is inductive.                                                    *)
LEMMA Types ==
  /\ Init => TypeOK
  /\ TypeOK /\ [Next]_vars => TypeOK'
<1>1. ASSUME Init  PROVE TypeOK
  <2>1. output \in Seq([id : Nat, delay : Nat, times : Int \ {0}])
    BY <1>1, FirstOutput DEF Live
  <2>2. 0 \in 0 .. MaxTime /\ 0 \in 0 .. MaxEvents /\ 0 \in 0 .. MaxConnects
    BY RelayAssumption
  <2>3. sent \in [MapIds -> Nat]
    BY <1>1 DEF Init
  <2> QED  BY <1>1, <2>1, <2>2, <2>3 DEF Init, TypeOK
<1>2. ASSUME TypeOK, [Next]_vars  PROVE TypeOK'
  <2> USE DEF TypeOK
  <2>1. CASE InputTrigger
    BY <2>1, <1>2, TriggerTypes
  <2>2. CASE InputEnableDisableOrToggle
    BY <2>2, <1>2 DEF InputEnableDisableOrToggle
  <2>3. CASE InputCancelPending
    BY <2>3, <1>2 DEF InputCancelPending
  <2>4. CASE InputKill
    BY <2>4, <1>2 DEF InputKill
  <2>5. CASE ConnectOutput
    <3>1. output' \in Seq(Live)
      BY <2>5, <1>2, MapActions, AddedAction DEF ConnectOutput, Live
    <3>2. connects' \in 0 .. MaxConnects
      BY <2>5, <1>2, RelayAssumption DEF ConnectOutput
    <3> QED  BY <2>5, <1>2, <3>1, <3>2 DEF ConnectOutput, Live
  <2>6. CASE DisconnectOutput
    <3>1. output' \in Seq(Live)
      BY <2>6, <1>2, RemovedAction DEF DisconnectOutput, Live
    <3> QED  BY <2>6, <1>2, <3>1 DEF DisconnectOutput, Live
  <2>7. CASE Deliver
    BY <2>7, <1>2 DEF Deliver
  <2>8. CASE NextFrame
    <3>1. now' \in 0 .. MaxTime
      BY <2>8, <1>2, RelayAssumption DEF NextFrame
    <3> QED  BY <2>8, <1>2, <3>1 DEF NextFrame
  <2>9. CASE UNCHANGED vars
    BY <2>9, <1>2 DEF vars
  <2> QED
    BY <1>2, <2>1, <2>2, <2>3, <2>4, <2>5, <2>6, <2>7, <2>8, <2>9 DEF Next
<1> QED  BY <1>1, <1>2

(* Every variable keeps its type, however often the output fires.          *)
THEOREM Typing == Spec => []TypeOK
BY Types, PTL DEF Spec

-----------------------------------------------------------------------------
(* No refire before the last output.                                       *)

(* Counting down does not take out the action with the longest delay, nor  *)
(* does any change of the output leave the others without it.              *)
LEMMA LongestIsKept ==
  ASSUME TypeOK, LongestStays, [Next]_vars
  PROVE  LongestStays'
<1>1. output \in Seq(Live) /\ Actions(output) \subseteq Action
  <2>1. output \in Seq(Live)
    BY DEF TypeOK, Live
  <2>2. Live \subseteq Action
    BY DEF Live, Action
  <2> QED  BY <2>1, <2>2, ActionsOf
<1>2. CASE InputTrigger
  <2>1. Actions(output') = {a \in {Spent(b) : b \in Actions(output)} : a.times /= 0}
    BY <1>1, <1>2, AfterFireActions DEF InputTrigger
  <2>2. SUFFICES ASSUME NEW a \in Actions(output')
                 PROVE  \E b \in Actions(output') :
                          a.delay <= b.delay /\ b.times = EVENT_FIRE_ALWAYS
    BY DEF LongestStays
  <2>3. PICK c \in Actions(output) : a = Spent(c)
    BY <2>1
  <2>4. PICK b \in Actions(output) : c.delay <= b.delay /\ b.times = EVENT_FIRE_ALWAYS
    BY DEF LongestStays
  <2>5. Spent(b) = b /\ b.times /= 0 /\ a.delay = c.delay
    BY <1>1, <2>3, <2>4, SpentAction DEF EVENT_FIRE_ALWAYS
  <2>6. b \in Actions(output')
    BY <2>1, <2>5
  <2> QED  BY <2>4, <2>5, <2>6
<1>3. CASE ConnectOutput
  <2>1. Actions(output') = Actions(output) \cup {Script}
    BY <1>1, <1>3, AddedAction, MapActions DEF ConnectOutput
  <2> QED  BY <2>1, MapActions DEF LongestStays
<1>4. CASE DisconnectOutput
  <2>1. output' = <<>>
    BY <1>1, <1>4, RemovedAction DEF DisconnectOutput
  <2> QED  BY <2>1 DEF LongestStays, Actions
<1>5. CASE output' = output
  BY <1>5 DEF LongestStays
<1> QED
  BY <1>2, <1>3, <1>4, <1>5
     DEF Next, vars, InputEnableDisableOrToggle, InputCancelPending, InputKill,
         Deliver, NextFrame

(* The EnableRefire that a trigger posts is behind everything it posts.    *)
LEMMA TriggerRefiresLast ==
  ASSUME TypeOK, LongestStays, WaitsForOneRefire, RefireIsLast, InputTrigger
  PROVE  RefireIsLast'
<1> SUFFICES ASSUME life' = "alive", ~AllowFastRetrigger'
             PROVE  /\ ~waiting' => pending' = {}
                    /\ \A ev, other \in pending' :
                         ~ev.refire /\ other.refire => Before(ev, other)
  BY DEF RefireIsLast
<1> DEFINE left == AfterFire(output)
           n == Len(output)
           d == GetMaxDelay(left)
           e == EnableRefireEvent(left, last + n + 1)
<1>1. life = "alive" /\ ~RemoveOnFire /\ ~AllowFastRetrigger
  BY DEF InputTrigger, AllowFastRetrigger, RemoveOnFire
<1>2. pending = {} /\ waiting' /\ pending' = Posted(output) \cup {e}
  BY <1>1 DEF InputTrigger, RefireIsLast
<1>3. /\ n \in Nat /\ output \in Seq(Live) /\ now \in Nat /\ last \in Nat
      /\ \A ev \in Posted(output) :
           /\ ~ev.refire
           /\ \E a \in Actions(output) : ev.time = now + a.delay
  BY PostedEvents DEF TypeOK
<1>4. left \in Seq(Live) /\ d \in Nat /\ \A a \in Actions(left) : a.delay <= d
  BY <1>3, AfterFireActions, MaxDelay
<1>5. Actions(output) \subseteq Live /\ Live \subseteq Action
  BY <1>3, ActionsOf DEF Live, Action
<1>6. ASSUME NEW a \in Actions(output)  PROVE a.delay <= d
  <2>1. PICK b \in Actions(output) : a.delay <= b.delay /\ b.times = EVENT_FIRE_ALWAYS
    BY DEF LongestStays
  <2>2. Spent(b) = b /\ b.times /= 0
    BY <1>5, <2>1, SpentAction DEF EVENT_FIRE_ALWAYS
  <2>3. b \in Actions(left)
    BY <1>3, <2>2, AfterFireActions
  <2>4. a.delay \in Nat /\ b.delay \in Nat /\ b.delay <= d
    BY <1>4, <1>5, <2>3 DEF Live
  <2> HIDE DEF d
  <2> QED  BY <1>4, <2>1, <2>4
<1>7. e.time = now + d + 1 /\ e.refire
  BY DEF EnableRefireEvent
<1>8. ASSUME NEW ev \in Posted(output)  PROVE Before(ev, e)
  <2>1. PICK a \in Actions(output) : ev.time = now + a.delay
    BY <1>3
  <2>2. a.delay \in Nat /\ a.delay <= d
    BY <1>5, <1>6 DEF Live
  <2> HIDE DEF d, e
  <2> QED  BY <1>3, <1>4, <1>7, <2>1, <2>2 DEF Before
<1> HIDE DEF e
<1> QED  BY <1>2, <1>3, <1>7, <1>8

(* Until EnableRefire is delivered it stays behind, and nothing is left    *)
(* when it is.                                                             *)
LEMMA DeliverRefiresLast ==
  ASSUME TypeOK, WaitsForOneRefire, RefireIsLast, Deliver
  PROVE  RefireIsLast'
<1> SUFFICES ASSUME life' = "alive", ~AllowFastRetrigger'
             PROVE  /\ ~waiting' => pending' = {}
                    /\ \A ev, other \in pending' :
                         ~ev.refire /\ other.refire => Before(ev, other)
  BY DEF RefireIsLast
<1>1. PICK ev \in pending :
        /\ \A other \in pending \ {ev} : Before(ev, other)
        /\ pending' = pending \ {ev}
        /\ waiting' = (waiting /\ ~(ev.refire /\ life /= "gone"))
  BY DEF Deliver, Due
<1>2. life = "alive" /\ ~AllowFastRetrigger
  BY DEF Deliver, AllowFastRetrigger
<1>3. waiting
  BY <1>1, <1>2 DEF RefireIsLast
<1>4. ASSUME ~waiting'  PROVE pending' = {}
  <2>1. ev.refire
    BY <1>1, <1>3, <1>4
  <2>2. Refires = {ev}
    BY <1>2, <1>3, <2>1 DEF WaitsForOneRefire, Refires
  <2>3. ASSUME NEW other \in pending \ {ev}  PROVE FALSE
    <3>1. ~other.refire
      BY <2>2, <2>3 DEF Refires
    <3>2. Before(other, ev) /\ Before(ev, other)
      BY <1>1, <1>2, <2>1, <3>1 DEF RefireIsLast
    <3>3. ev \in Event /\ other \in Event
      BY DEF TypeOK
    <3>4. ev.time \in Nat /\ other.time \in Nat /\ ev.id \in Nat /\ other.id \in Nat
      BY <3>3 DEF Event
    <3> QED  BY <3>2, <3>4 DEF Before
  <2> QED  BY <1>1, <2>3
<1> QED  BY <1>1, <1>2, <1>4 DEF RefireIsLast

(* A relay that always waits is never triggered while one of its outputs   *)
(* is in the queue: when the longest delay is that of an action that       *)
(* always fires.  Without it FireOutput may take that action out before    *)
(* GetMaxDelay looks, and the relay waits too short.                       *)
THEOREM WaitsForTheLastOutput ==
  ASSUME LongestAlwaysFires
  PROVE  Spec => []NoRefireBeforeLastOutput
<1> DEFINE Inv == TypeOK /\ WaitsForOneRefire /\ LongestStays /\ RefireIsLast
<1>1. ASSUME Init  PROVE Inv
  <2>1. LongestStays
    <3> DEFINE parsed(a) == [a EXCEPT !.times = ParsedTimes(@)]
    <3>1. Actions(output) = {parsed(a) : a \in Actions(OnTrigger)}
      BY <1>1, FirstOutput
    <3>2. Actions(OnTrigger) \subseteq Action
      BY MapActions, ActionsOf
    <3>3. \A a \in Actions(OnTrigger) :
            parsed(a).delay = a.delay /\ parsed(a).times = ParsedTimes(a.times)
      BY <3>2 DEF Action
    <3> HIDE DEF parsed
    <3> QED  BY <3>1, <3>3 DEF LongestAlwaysFires, LongestStays
  <2>2. RefireIsLast
    BY <1>1 DEF Init, RefireIsLast
  <2> QED  BY <1>1, <2>1, <2>2, InitWaits, Types
<1>2. ASSUME Inv, [Next]_vars  PROVE Inv'
  <2>1. TypeOK' /\ LongestStays' /\ WaitsForOneRefire'
    BY <1>2, Types, LongestIsKept, NextWaits
  <2>2. RefireIsLast'
    <3> USE DEF RefireIsLast, AllowFastRetrigger
    <3>1. CASE InputTrigger
      BY <1>2, <3>1, TriggerRefiresLast
    <3>2. CASE InputEnableDisableOrToggle
      BY <1>2, <3>2 DEF InputEnableDisableOrToggle
    <3>3. CASE InputCancelPending
      BY <1>2, <3>3 DEF InputCancelPending
    <3>4. CASE InputKill
      BY <1>2, <3>4 DEF InputKill
    <3>5. CASE ConnectOutput
      BY <1>2, <3>5 DEF ConnectOutput
    <3>6. CASE DisconnectOutput
      BY <1>2, <3>6 DEF DisconnectOutput
    <3>7. CASE Deliver
      BY <1>2, <3>7, DeliverRefiresLast
    <3>8. CASE NextFrame
      BY <1>2, <3>8 DEF NextFrame
    <3>9. CASE UNCHANGED vars
      BY <1>2, <3>9 DEF vars
    <3> QED
      BY <1>2, <3>1, <3>2, <3>3, <3>4, <3>5, <3>6, <3>7, <3>8, <3>9 DEF Next
  <2> QED  BY <2>1, <2>2
<1>3. Inv => NoRefireBeforeLastOutput
  BY DEF RefireIsLast, NoRefireBeforeLastOutput
<1> QED  BY <1>1, <1>2, <1>3, PTL DEF Spec

-----------------------------------------------------------------------------
(* Times to fire.                                                          *)

LEMMA FirstTimes ==
  ASSUME Init
  PROVE  TimesLeft
<1> DEFINE parsed(a) == [a EXCEPT !.times = ParsedTimes(@)]
<1>1. Actions(output) = {parsed(a) : a \in Actions(OnTrigger)}
  BY FirstOutput
<1>2. Actions(OnTrigger) \subseteq Action
  BY MapActions, ActionsOf
<1>3. \A a \in Actions(OnTrigger) :
        parsed(a).id = a.id /\ parsed(a).times = ParsedTimes(a.times)
  BY <1>2 DEF Action
<1> HIDE DEF parsed
<1>4. \A a, b \in Actions(OnTrigger) : a.id = b.id => a = b
  BY RelayAssumption DEF Actions
<1>5. /\ \A a \in Actions(output) : a.id \in MapIds
      /\ \A a, b \in Actions(output) : a.id = b.id => a = b
  BY <1>1, <1>3, <1>4 DEF MapIds
<1>6. ASSUME NEW a \in Actions(OnTrigger), a.times > 0
      PROVE  /\ sent[a.id] <= a.times
             /\ \A b \in Actions(output) :
                  b.id = a.id => b.times > 0 /\ sent[a.id] + b.times <= a.times
  <2>1. a.times \in Int /\ a.id \in MapIds
    BY <1>2 DEF Action, MapIds
  <2>2. sent[a.id] = 0
    BY <2>1 DEF Init
  <2>3. ASSUME NEW b \in Actions(output), b.id = a.id  PROVE b.times = a.times
    <3>1. PICK c \in Actions(OnTrigger) : b = parsed(c)
      BY <1>1
    <3>2. c = a
      BY <1>3, <1>4, <2>3, <3>1
    <3> QED  BY <1>3, <1>6, <2>1, <3>1, <3>2 DEF ParsedTimes
  <2> QED  BY <1>6, <2>1, <2>2, <2>3
<1> QED  BY <1>5, <1>6 DEF TimesLeft

(* A firing posts every action of the output once, and counts it down.     *)
LEMMA TriggerTimes ==
  ASSUME TypeOK, TimesLeft, InputTrigger
  PROVE  TimesLeft'
<1>1. output \in Seq(Live) /\ Actions(output) \subseteq Live /\ Live \subseteq Action
  <2>1. output \in Seq(Live)
    BY DEF TypeOK, Live
  <2> QED  BY <2>1, ActionsOf DEF Live, Action
<1>2. Actions(output') = {a \in {Spent(b) : b \in Actions(output)} : a.times /= 0}
  BY <1>1, AfterFireActions DEF InputTrigger
<1>3. \A b \in Actions(output) : Spent(b).id = b.id
  BY <1>1, SpentAction
<1>4. /\ \A a \in Actions(output') : a = Script \/ a.id \in MapIds
      /\ \A a, b \in Actions(output') : a.id = b.id => a = b
  <2>1. Spent(Script) = Script
    BY <1>1, MapActions, SpentAction
  <2> QED  BY <1>2, <1>3, <2>1 DEF TimesLeft
<1>5. ASSUME NEW a \in Actions(OnTrigger), a.times > 0
      PROVE  /\ sent'[a.id] <= a.times
             /\ \A b \in Actions(output') :
                  b.id = a.id => b.times > 0 /\ sent'[a.id] + b.times <= a.times
  <2> DEFINE A == {b \in Actions(output) : b.id = a.id}
  <2>1. a.times \in Int /\ a.id \in MapIds
    <3>1. Actions(OnTrigger) \subseteq Action
      BY MapActions, ActionsOf
    <3> QED  BY <3>1 DEF Action, MapIds
  <2>2. sent[a.id] \in Nat /\ sent'[a.id] = sent[a.id] + Cardinality(A)
    BY <2>1 DEF TypeOK, InputTrigger
  <2>3. CASE A = {}
    <3>1. sent'[a.id] = sent[a.id]
      <4>1. Cardinality(A) = 0
        BY <2>3, FS_EmptySet
      <4> HIDE DEF A
      <4> QED  BY <2>2, <4>1
    <3>2. \A b \in Actions(output') : b.id /= a.id
      BY <1>2, <1>3, <2>3
    <3> QED  BY <1>5, <3>1, <3>2 DEF TimesLeft
  <2>4. CASE A /= {}
    <3>1. PICK b \in Actions(output) : b.id = a.id
      BY <2>4
    <3>2. A = {b}
      BY <3>1 DEF TimesLeft
    <3>3. sent'[a.id] = sent[a.id] + 1
      BY <2>2, <3>2, FS_Singleton
    <3>4. b.times > 0 /\ sent[a.id] + b.times <= a.times /\ b.times \in Int
      BY <1>1, <1>5, <3>1 DEF TimesLeft, Live
    <3>5. Spent(b).times = b.times - 1
      BY <1>1, <3>4, SpentAction DEF EVENT_FIRE_ALWAYS
    <3>6. sent'[a.id] <= a.times
      BY <2>1, <2>2, <3>3, <3>4
    <3>7. ASSUME NEW c \in Actions(output'), c.id = a.id
          PROVE  c.times > 0 /\ sent'[a.id] + c.times <= a.times
      <4>1. PICK other \in Actions(output) : c = Spent(other) /\ c.times /= 0
        BY <1>2
      <4>2. other = b
        BY <1>3, <3>2, <3>7, <4>1
      <4>3. c.times = b.times - 1 /\ c.times /= 0
        BY <3>5, <4>1, <4>2
      <4> QED  BY <2>1, <2>2, <3>3, <3>4, <4>3
    <3> QED  BY <3>6, <3>7
  <2> QED  BY <2>3, <2>4
<1> QED  BY <1>4, <1>5 DEF TimesLeft

(* An action with a number of times to fire is posted at most that often,  *)
(* whatever else is connected to the output and disconnected from it.      *)
THEOREM NoMoreThanItsTimes == Spec => []FiresItsTimes
<1> DEFINE Inv == TypeOK /\ TimesLeft
<1>1. Init => Inv
  BY FirstTimes, Types
<1>2. ASSUME Inv, [Next]_vars  PROVE Inv'
  <2>1. TypeOK'
    BY <1>2, Types
  <2>2. CASE InputTrigger
    BY <1>2, <2>1, <2>2, TriggerTimes
  <2>3. CASE ConnectOutput
    <3>1. output \in Seq(Live)
      BY <1>2 DEF TypeOK, Live
    <3>2. Actions(output') = Actions(output) \cup {Script} /\ sent' = sent
      BY <2>3, <3>1, AddedAction, MapActions DEF ConnectOutput
    <3>3. \A a \in Actions(OnTrigger) : a.id /= Script.id
      BY RelayAssumption
    <3>4. \A a \in Actions(output) : a.id /= Script.id
      BY <1>2, <2>3, <3>3 DEF TimesLeft, MapIds, ConnectOutput
    <3> QED  BY <1>2, <2>1, <3>2, <3>3, <3>4 DEF TimesLeft
  <2>4. CASE DisconnectOutput
    <3>1. output \in Seq(Live)
      BY <1>2 DEF TypeOK, Live
    <3>2. Actions(output') \subseteq Actions(output) /\ sent' = sent
      BY <2>4, <3>1, RemovedAction DEF DisconnectOutput
    <3> QED  BY <1>2, <2>1, <3>2 DEF TimesLeft
  <2>5. CASE UNCHANGED <<output, sent>>
    BY <1>2, <2>1, <2>5 DEF TimesLeft
  <2> QED
    BY <1>2, <2>2, <2>3, <2>4, <2>5
       DEF Next, vars, InputEnableDisableOrToggle, InputCancelPending, InputKill,
           Deliver, NextFrame
<1>3. Inv => FiresItsTimes
  BY DEF TimesLeft, FiresItsTimes
<1> QED  BY <1>1, <1>2, <1>3, PTL DEF Spec
=============================================================================
