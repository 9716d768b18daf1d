------------------------ MODULE ExtensionWorkerProofs ------------------------
(* Theorems about ExtensionWorker, for any tabs, activations and bounds.   *)
EXTENDS ExtensionWorker, SequenceTheorems, TLAPS

-----------------------------------------------------------------------------
(* Activations.                                                            *)

\* The tasks are well formed: the part of TypeOK about them.
TasksOK == tasks \in [Slots -> TaskRecord] /\ \A s \in Slots : WellFormed(tasks[s])

\* What an activation can become.
GoodActivation(a) == a \in TaskRecord /\ WellFormed(a)

LEMMA BecomeGood ==
  ASSUME TasksOK, NEW s \in Slots, NEW a, GoodActivation(a), Become(s, a)
  PROVE  TasksOK'
BY DEF TasksOK, GoodActivation, Become

LEMMA IdleGood == GoodActivation(Idle)
BY DEF GoodActivation, Idle, Activation, TaskRecord, Stages, WellFormed

\* An activation that waits and makes no call.
LEMMA WaitingGood ==
  ASSUME NEW ts \in SUBSET Tabs, NEW at \in Stages \ {"sent", "offscreen", "next"}
  PROVE  GoodActivation(Waiting(at, ts))
BY DEF GoodActivation, Waiting, Activation, TaskRecord, WellFormed

\* An activation that makes a call.
LEMMA CallingGood ==
  ASSUME NEW ts \in SUBSET Tabs, NEW calls \in Seq(Calls) \ {<<>>},
         NEW left \in 0..2, NEW b \in BOOLEAN,
         NEW at \in {"query", "offscreen", "sent"}, at = "query" => left > 0
  PROVE  GoodActivation(Activation(at, ts, calls, left, b))
BY DEF GoodActivation, Activation, TaskRecord, Stages, WellFormed

\* A batch that goes on with its next call.
LEMMA NextGood ==
  ASSUME NEW ts \in SUBSET Tabs, NEW calls \in Seq(Calls), Len(calls) > 1
  PROVE  GoodActivation(Activation("next", ts, calls, 0, FALSE))
BY DEF GoodActivation, Activation, TaskRecord, Stages, WellFormed

LEMMA HeadTail ==
  ASSUME NEW calls \in Seq(Calls), calls # <<>>
  PROVE  /\ Head(calls) \in Calls /\ Tail(calls) \in Seq(Calls)
         /\ Len(calls) > 1 => Tail(calls) # <<>>
         /\ Len(calls) # 1 => Len(calls) > 1
<1>1. Len(calls) \in Nat /\ Len(calls) # 0
  BY EmptySeq
<1>2. /\ Head(calls) \in Calls /\ Tail(calls) \in Seq(Calls)
      /\ Len(Tail(calls)) = Len(calls) - 1
  BY HeadTailProperties
<1>3. ASSUME Tail(calls) = <<>> PROVE Len(calls) = 1
  <2>1. Len(Tail(calls)) = 0
    BY <1>3, EmptySeq
  <2> QED
    BY <2>1, <1>1, <1>2
<1>4. \A n \in Nat : (n # 0 /\ n # 1 => n > 1) /\ (n > 1 => n # 1)
  OBVIOUS
<1>5. Len(calls) # 1 => Len(calls) > 1
  BY <1>1, <1>4, Zenon
<1>6. Len(calls) > 1 => Tail(calls) # <<>>
  BY <1>1, <1>3, <1>4, Zenon
<1> QED
  BY <1>2, <1>5, <1>6, Zenon

\* A failing call leaves tasks and stored state well typed.
LEMMA FailGood ==
  ASSUME TasksOK, stored \in State, state \in State, NEW s \in Slots,
         NEW ts \in SUBSET Tabs, NEW calls \in Seq(Calls), Fail(s, ts, calls)
  PROVE  TasksOK' /\ stored' \in State
BY BecomeGood, IdleGood, NextGood DEF Fail

EffectsOK == offEffects \subseteq [call : Calls, begunOn : BOOLEAN]

\* So does sending a command.
LEMMA SendGood ==
  ASSUME TasksOK, stored \in State, state \in State, EffectsOK, NEW s \in Slots,
         NEW ts \in SUBSET Tabs, NEW calls \in Seq(Calls) \ {<<>>},
         NEW left \in 1..2, NEW b \in BOOLEAN,
         SendCommand(s, ts, calls, left, b)
  PROVE  TasksOK' /\ stored' \in State /\ EffectsOK'
<1>1. GoodActivation(Activation("sent", ts, calls, left - 1, b))
  <2>1. left - 1 \in 0..2
    OBVIOUS
  <2> QED
    BY <2>1, CallingGood
<1>2. Head(calls) \in Calls
  BY HeadTail
<1>3. CASE ts \subseteq attached
  BY <1>1, <1>2, <1>3, BecomeGood DEF SendCommand, Effect, EffectsOK
<1>4. CASE ~ (ts \subseteq attached)
  BY <1>1, <1>4, BecomeGood, FailGood DEF SendCommand, EffectsOK
<1> QED
  BY <1>3, <1>4

TabsOK ==
  /\ tabState \in [Tabs -> {"new", "open", "gone"}]
  /\ attached \subseteq Tabs

\* And so does beginning a call.
LEMMA DispatchGood ==
  ASSUME TasksOK, stored \in State, state \in State, EffectsOK, TabsOK,
         NEW s \in Slots, NEW ts \in SUBSET Tabs,
         NEW calls \in Seq(Calls) \ {<<>>}, Dispatch(s, ts, calls)
  PROVE  TasksOK' /\ stored' \in State /\ EffectsOK' /\ TabsOK'
<1> DEFINE n == Commands(Head(calls))
<1>1. n \in 1..2 /\ n \in 0..2 /\ n > 0 /\ 0 \in 0..2
  BY DEF Commands
<1>2. Head(calls) \in Calls
  BY HeadTail
<1>3. CASE BeginCdp(s, ts, calls)
  <2>1. TabsOK'
    BY <1>3 DEF BeginCdp, browserVars, TabsOK
  <2>2. CASE Fail(s, ts, calls) /\ UNCHANGED offEffects
    BY <2>1, <2>2, FailGood DEF EffectsOK
  <2>3. CASE SendCommand(s, ts, calls, n, TRUE)
    BY <1>1, <2>1, <2>3, SendGood
  <2>4. CASE /\ Become(s, Activation("query", ts, calls, n, TRUE))
             /\ UNCHANGED <<stored, offEffects>>
    <3>1. GoodActivation(Activation("query", ts, calls, n, TRUE))
      BY <1>1, CallingGood
    <3> QED
      BY <2>1, <2>4, <3>1, BecomeGood DEF EffectsOK
  <2> QED
    BY <1>3, <2>2, <2>3, <2>4 DEF BeginCdp
<1>4. CASE BeginClipboard(s, ts, calls)
  <2>1. TabsOK' /\ EffectsOK'
    BY <1>4 DEF BeginClipboard, browserVars, TabsOK, EffectsOK
  <2>2. GoodActivation(Activation("offscreen", ts, calls, 0, TRUE))
    BY <1>1, CallingGood
  <2> QED
    BY <1>4, <2>1, <2>2, FailGood, BecomeGood DEF BeginClipboard
<1>5. CASE BeginTabs(s, ts, calls)
  <2>1. state.enabled \in BOOLEAN
    BY DEF State
  <2>2. GoodActivation(Activation("sent", ts, calls, 0, state.enabled))
    BY <1>1, <2>1, CallingGood
  <2>3. TasksOK' /\ stored' \in State
    BY <1>5, <2>2, BecomeGood DEF BeginTabs
  <2>4. EffectsOK'
    BY <1>2, <1>5, <2>1 DEF BeginTabs, Effect, EffectsOK
  <2>5. TabsOK'
    BY <1>5 DEF BeginTabs, TabsOK
  <2> QED
    BY <2>3, <2>4, <2>5
<1>6. CASE TabsCloseFails(s, ts, calls)
  BY <1>6, FailGood DEF TabsCloseFails, browserVars, TabsOK, EffectsOK
<1> QED
  BY <1>3, <1>4, <1>5, <1>6 DEF Dispatch

-----------------------------------------------------------------------------
(* Type correctness.                                                       *)

\* The rest of TypeOK.
BridgeOK ==
  /\ connecting \in {"none", "profile", "hello"}
  /\ nativePort \in {"none", "open", "dead"} /\ reconnectTimer \in BOOLEAN

BootOK ==
  /\ awake \in BOOLEAN /\ bootTab \in BOOLEAN
  /\ loads \subseteq [by : {"boot", "startup"}, read : State]

HistoryOK == wanted \in BOOLEAN /\ early \in BOOLEAN /\ crossed \in BOOLEAN

CountsOK ==
  starts \in Nat /\ toggles \in Nat /\ requests \in Nat /\ reconnects \in Nat

TypeParts ==
  /\ stored \in State /\ state \in State /\ attachedTabs \subseteq Tabs
  /\ TabsOK /\ TasksOK /\ EffectsOK /\ BridgeOK /\ BootOK /\ HistoryOK /\ CountsOK

\* TypeOK, now and next, is its parts.
LEMMA TypeOKParts == (TypeOK <=> TypeParts) /\ (TypeOK' <=> TypeParts')
BY DEF TypeOK, TypeParts, TabsOK, TasksOK, EffectsOK, BridgeOK, BootOK, HistoryOK,
   CountsOK

LEMMA InitTypeOK == Init => TypeOK
<1> SUFFICES ASSUME Init PROVE TypeOK
  OBVIOUS
<1>1. TasksOK
  BY IdleGood DEF Init, TasksOK, GoodActivation
<1> QED
  BY <1>1, TypeOKParts
  DEF TypeParts, Init, State, DefaultState, TabsOK, EffectsOK, BridgeOK, BootOK, HistoryOK,
      CountsOK

\* The steps of starting and stopping keep the types.
LEMMA LifeTypeOK ==
  ASSUME TypeOK, LifeNext
  PROVE  TypeOK'
<1> USE TypeOKParts DEF TypeParts
<1>1. CASE WorkerStarts
  BY <1>1 DEF WorkerStarts, State, DefaultState, browserVars, bridgeVars,
     historyVars, TabsOK, TasksOK, EffectsOK, BridgeOK, BootOK, HistoryOK, CountsOK
<1>2. CASE WorkerStops
  <2>1. TasksOK'
    BY <1>2, IdleGood DEF WorkerStops, TasksOK, GoodActivation
  <2> QED
    BY <1>2, <2>1 DEF WorkerStops, Some, browserVars, countVars, TabsOK, EffectsOK,
       BridgeOK, BootOK, HistoryOK, CountsOK
<1>3. CASE OnStartup
  <2>1. BootOK'
    BY <1>3 DEF OnStartup, BootOK
  <2> QED
    BY <1>3, <2>1 DEF OnStartup, browserVars, bridgeVars, historyVars,
       countVars, TabsOK, TasksOK, EffectsOK, BridgeOK, HistoryOK, CountsOK
<1>6. CASE BootSaves
  BY <1>6 DEF BootSaves, browserVars, bridgeVars, historyVars,
     countVars, TabsOK, TasksOK, EffectsOK, BridgeOK, BootOK, HistoryOK, CountsOK
<1>4. ASSUME NEW l \in loads, Loaded(l) PROVE TypeOK'
  BY <1>4 DEF Loaded, EnsureConnected, browserVars, historyVars, countVars,
     TabsOK, TasksOK, EffectsOK, BridgeOK, BootOK, HistoryOK, CountsOK
<1>5. ASSUME NEW t \in Tabs, Detached(t) PROVE TypeOK'
  BY <1>5 DEF Detached, bootVars, bridgeVars, historyVars, countVars, TabsOK,
     TasksOK, EffectsOK, BridgeOK, BootOK, HistoryOK, CountsOK
<1> QED
  BY <1>1, <1>2, <1>3, <1>4, <1>5, <1>6 DEF LifeNext

\* The steps of the bridge keep the types.
LEMMA BridgeTypeOK ==
  ASSUME TypeOK, BridgeNext
  PROVE  TypeOK'
<1> USE TypeOKParts DEF TypeParts, EnsureConnected, SetLastError, ScheduleReconnect, NoteEvent,
        browserVars, bootVars, historyVars, countVars, State,
        TabsOK, TasksOK, EffectsOK, BridgeOK, BootOK, HistoryOK, CountsOK
<1>1. CASE ConnectHello \/ ConnectDone
  BY <1>1 DEF ConnectHello, ConnectDone
<1>2. CASE ConnectFails
  BY <1>2 DEF ConnectFails
<1>3. CASE PortLost
  BY <1>3 DEF PortLost
<1>4. CASE TimerFires \/ KeepAliveAlarm
  BY <1>4, ZenonT(60) DEF TimerFires, KeepAliveAlarm
<1>5. CASE UiReconnect
  BY <1>5 DEF UiReconnect
<1> QED
  BY <1>1, <1>2, <1>3, <1>4, <1>5 DEF BridgeNext

\* The steps of the switch keep the types.
LEMMA SwitchTypeOK ==
  ASSUME TypeOK, SwitchNext
  PROVE  TypeOK'
<1> USE TypeOKParts DEF TypeParts
<1> PICK s \in Slots :
      \/ \E on \in BOOLEAN : SetEnabled(s, on) \/ SetFollowActive(s, on)
      \/ OffDisconnects(s) \/ OffTargets(s) \/ OffDetaches(s) \/ Follow(s)
      \/ \E t \in Tabs : ActiveTab(s, t)
      \/ NoActiveTab(s) \/ AttachActive(s)
  BY DEF SwitchNext
<1>0. /\ \A at \in Stages \ {"sent", "offscreen", "next"} :
            Become(s, Waiting(at, {})) => TasksOK'
      /\ Become(s, Idle) => TasksOK'
  BY WaitingGood, IdleGood, BecomeGood
<1> USE DEF browserVars, bootVars, bridgeVars, historyVars, countVars
<1>1. ASSUME NEW on \in BOOLEAN, SetEnabled(s, on) PROVE TypeOK'
  <2>1. TasksOK'
    BY <1>0, <1>1 DEF SetEnabled, Stages
  <2>2. state' \in State /\ stored' \in State
    BY <1>1 DEF SetEnabled, State
  <2>3. HistoryOK' /\ CountsOK'
    BY <1>1 DEF SetEnabled, NoteEvent, Some, HistoryOK, CountsOK
  <2> QED
    BY <1>1, <2>1, <2>2, <2>3 DEF SetEnabled, TabsOK, EffectsOK, BridgeOK, BootOK
<1>2. ASSUME NEW on \in BOOLEAN, SetFollowActive(s, on) PROVE TypeOK'
  <2>1. TasksOK'
    BY <1>0, <1>2 DEF SetFollowActive, Stages
  <2>2. state' \in State /\ stored' \in State
    BY <1>2 DEF SetFollowActive, State
  <2>3. HistoryOK' /\ CountsOK'
    BY <1>2 DEF SetFollowActive, NoteEvent, HistoryOK, CountsOK
  <2> QED
    BY <1>2, <2>1, <2>2, <2>3
    DEF SetFollowActive, TabsOK, EffectsOK, BridgeOK, BootOK
<1>3. CASE OffDisconnects(s)
  BY <1>0, <1>3 DEF OffDisconnects, Stages, TabsOK, EffectsOK, BridgeOK, BootOK,
     HistoryOK, CountsOK
<1>4. CASE OffTargets(s)
  <2>1. TasksOK'
    BY <1>4, WaitingGood, BecomeGood DEF OffTargets, Stages, TabsOK
  <2> QED
    BY <1>4, <2>1 DEF OffTargets, TabsOK, EffectsOK, BridgeOK, BootOK, HistoryOK,
       CountsOK
<1>5. CASE OffDetaches(s)
  BY <1>0, <1>5 DEF OffDetaches, TabsOK, EffectsOK, BridgeOK, BootOK, HistoryOK,
     CountsOK
<1>6. CASE Follow(s)
  BY <1>0, <1>6 DEF Follow, EnsureConnected, Stages, TabsOK, EffectsOK, BridgeOK,
     BootOK, HistoryOK, CountsOK
<1>7. ASSUME NEW t \in Tabs, ActiveTab(s, t) PROVE TypeOK'
  <2>1. TasksOK'
    BY <1>7, WaitingGood, BecomeGood DEF ActiveTab, Stages
  <2> QED
    BY <1>7, <2>1 DEF ActiveTab, NoteEvent, TabsOK, EffectsOK, BridgeOK, BootOK,
       HistoryOK, CountsOK
<1>8. CASE NoActiveTab(s)
  BY <1>0, <1>8 DEF NoActiveTab, TabsOK, EffectsOK, BridgeOK, BootOK, HistoryOK,
     CountsOK
<1>9. CASE AttachActive(s)
  <2>1. tasks[s].tabs \in SUBSET Tabs
    BY DEF TasksOK, TaskRecord
  <2>2. TasksOK'
    BY <1>0, <1>9, <2>1, WaitingGood, BecomeGood DEF AttachActive, Stages
  <2> QED
    BY <1>9, <2>2 DEF AttachActive, TabsOK, EffectsOK, BridgeOK, BootOK, HistoryOK,
       CountsOK
<1> QED
  BY <1>1, <1>2, <1>3, <1>4, <1>5, <1>6, <1>7, <1>8, <1>9

\* The steps of requests keep the types.
LEMMA RequestTypeOK ==
  ASSUME TypeOK, RequestNext
  PROVE  TypeOK'
<1> USE TypeOKParts DEF TypeParts
<1> PICK s \in Slots :
      \/ \E t \in Tabs, calls \in Batches : Rpc(s, t, calls)
      \/ AttachQueried(s) \/ AttachDone(s) \/ ClipboardWritten(s)
      \/ Answered(s) \/ NextCall(s)
  BY DEF RequestNext
<1> DEFINE k == tasks[s]
<1>0. /\ k.tabs \in SUBSET Tabs /\ k.calls \in Seq(Calls) /\ k.left \in 0..2
      /\ k.begunOn \in BOOLEAN /\ k \in TaskRecord /\ WellFormed(k)
  BY DEF TasksOK, TaskRecord
<1> USE DEF browserVars, bootVars, bridgeVars, historyVars, countVars
<1>1. ASSUME NEW t \in Tabs, NEW calls \in Batches, Rpc(s, t, calls) PROVE TypeOK'
  <2>1. calls \in Seq(Calls) \ {<<>>} /\ {t} \in SUBSET Tabs
    BY BatchesAssumption
  <2>2. TasksOK' /\ stored' \in State /\ EffectsOK' /\ TabsOK'
    BY <1>1, <2>1, DispatchGood DEF Rpc
  <2> QED
    BY <1>1, <2>2 DEF Rpc, BridgeOK, BootOK, HistoryOK, CountsOK
<1>2. CASE AttachQueried(s)
  <2>1. ASSUME k.calls # <<>>, SendCommand(s, k.tabs, k.calls, k.left, k.begunOn)
        PROVE  TasksOK' /\ stored' \in State /\ EffectsOK'
    <3>1. k.left \in 1..2
      BY <1>0, <1>2, <2>1 DEF AttachQueried, WellFormed
    <3> QED
      BY <1>0, <2>1, <3>1, SendGood
  <2>2. ASSUME tasks' = [tasks EXCEPT ![s].at = "attaching"] PROVE TasksOK'
    <3>1. k.calls # <<>> => k.left > 0
      BY <1>0, <1>2 DEF AttachQueried, WellFormed
    <3>2. GoodActivation([k EXCEPT !.at = "attaching"])
      BY <1>0, <3>1 DEF GoodActivation, TaskRecord, Stages, WellFormed
    <3> QED
      BY <2>2, <3>2 DEF TasksOK, GoodActivation
  <2>3. TasksOK' /\ stored' \in State /\ EffectsOK'
    BY <1>0, <1>2, <2>1, <2>2, IdleGood, BecomeGood, FailGood
    DEF AttachQueried, EffectsOK
  <2>4. attached' \subseteq Tabs /\ attachedTabs' \subseteq Tabs
    BY <1>0, <1>2 DEF AttachQueried, TabsOK
  <2> QED
    BY <1>2, <2>3, <2>4 DEF AttachQueried, TabsOK, BridgeOK, BootOK, HistoryOK, CountsOK
<1>3. CASE AttachDone(s)
  <2>1. ASSUME k.calls # <<>>, SendCommand(s, k.tabs, k.calls, k.left, k.begunOn)
        PROVE  TasksOK' /\ stored' \in State /\ EffectsOK'
    <3>1. k.left \in 1..2
      BY <1>0, <1>3, <2>1 DEF AttachDone, WellFormed
    <3> QED
      BY <1>0, <2>1, <3>1, SendGood
  <2>2. TasksOK' /\ stored' \in State /\ EffectsOK'
    BY <1>3, <2>1, IdleGood, BecomeGood DEF AttachDone, EffectsOK
  <2>3. attachedTabs' \subseteq Tabs
    BY <1>0, <1>3 DEF AttachDone
  <2> QED
    BY <1>3, <2>2, <2>3 DEF AttachDone, TabsOK, BridgeOK, BootOK, HistoryOK, CountsOK
<1>4. CASE ClipboardWritten(s)
  <2>1. k.calls # <<>> /\ 0 \in 0..2
    BY <1>0, <1>4 DEF ClipboardWritten, WellFormed
  <2>2. GoodActivation(Activation("sent", k.tabs, k.calls, 0, k.begunOn))
    BY <1>0, <2>1, CallingGood
  <2>3. TasksOK'
    BY <1>4, <2>2, BecomeGood DEF ClipboardWritten
  <2>4. EffectsOK'
    BY <1>0, <1>4 DEF ClipboardWritten, Effect, EffectsOK, Calls
  <2> QED
    BY <1>4, <2>3, <2>4 DEF ClipboardWritten, TabsOK, BridgeOK, BootOK, HistoryOK,
       CountsOK
<1>5. CASE Answered(s)
  <2>1. k.calls # <<>>
    BY <1>0, <1>5 DEF Answered, WellFormed
  <2>2. CASE k.left > 0 /\ SendCommand(s, k.tabs, k.calls, k.left, k.begunOn)
    <3>1. k.left \in 1..2
      BY <1>0, <2>2
    <3>2. TasksOK' /\ stored' \in State /\ EffectsOK'
      BY <1>0, <2>1, <2>2, <3>1, SendGood
    <3> QED
      BY <1>5, <3>2 DEF Answered, TabsOK, BridgeOK, BootOK, HistoryOK, CountsOK
  <2>3. CASE k.left = 0
    <3>1. Len(k.calls) # 1 => Len(k.calls) > 1
      BY <1>0, <2>1, HeadTail
    <3>2. TasksOK'
      <4>1. Become(s, IF Len(k.calls) = 1 THEN Idle
                      ELSE Activation("next", k.tabs, k.calls, 0, FALSE))
        <5>1. ~ (k.left > 0)
          BY <2>3
        <5> QED
          BY <1>5, <5>1, Zenon DEF Answered
      <4>2. CASE Len(k.calls) = 1
        BY <4>1, <4>2, IdleGood, BecomeGood
      <4>3. CASE Len(k.calls) # 1
        <5>1. GoodActivation(Activation("next", k.tabs, k.calls, 0, FALSE))
          BY <1>0, <3>1, <4>3, NextGood
        <5> QED
          BY <4>1, <4>3, <5>1, BecomeGood
      <4> QED
        BY <4>2, <4>3
    <3> QED
      BY <1>5, <2>3, <3>2 DEF Answered, TabsOK, EffectsOK, BridgeOK, BootOK,
         HistoryOK, CountsOK
  <2> QED
    BY <1>5, <2>2, <2>3 DEF Answered
<1>6. CASE NextCall(s)
  <2>1. Len(k.calls) > 1 /\ k.calls # <<>>
    <3>1. Len(k.calls) > 1
      BY <1>0, <1>6 DEF NextCall, WellFormed
    <3>2. Len(<<>>) = 0
      BY EmptySeq
    <3> QED
      BY <3>1, <3>2
  <2>2. Tail(k.calls) \in Seq(Calls) \ {<<>>}
    BY <1>0, <2>1, HeadTail
  <2>3. TasksOK' /\ stored' \in State /\ EffectsOK' /\ TabsOK'
    BY <1>0, <1>6, <2>2, DispatchGood DEF NextCall
  <2> QED
    BY <1>6, <2>3 DEF NextCall, BridgeOK, BootOK, HistoryOK, CountsOK
<1> QED
  BY <1>1, <1>2, <1>3, <1>4, <1>5, <1>6

\* The worker's variables keep their types (TypeOK).
THEOREM TypeCorrect == Spec => []TypeOK
<1>1. TypeOK /\ [Next]_vars => TypeOK'
  <2> SUFFICES ASSUME TypeOK, [Next]_vars PROVE TypeOK'
    OBVIOUS
  <2>1. CASE UNCHANGED vars
    BY <2>1, TypeOKParts DEF TypeParts, vars, browserVars, bootVars, bridgeVars, historyVars,
       countVars, TabsOK, TasksOK, EffectsOK, BridgeOK, BootOK, HistoryOK, CountsOK
  <2> QED
    BY <2>1, LifeTypeOK, BridgeTypeOK, SwitchTypeOK, RequestTypeOK DEF Next
<1> QED
  BY <1>1, InitTypeOK, PTL DEF Spec

-----------------------------------------------------------------------------
(* One host.                                                               *)

\* A worker never has two native hosts (OneHost).
THEOREM OneHostAtATime == Spec => []OneHost
<1>1. Init => OneHost
  BY DEF Init, OneHost
<1>2. ASSUME OneHost, [Next]_vars PROVE OneHost'
  <2> USE DEF OneHost, EnsureConnected, browserVars, bridgeVars, bootVars
  <2>1. CASE LifeNext
    BY <1>2, <2>1 DEF LifeNext, WorkerStarts, WorkerStops, OnStartup, BootSaves, Loaded,
       Detached
  <2>2. CASE BridgeNext
    BY <1>2, <2>2 DEF BridgeNext, ConnectHello, ConnectDone, ConnectFails, PortLost,
       TimerFires, KeepAliveAlarm, UiReconnect
  <2>3. CASE SwitchNext
    BY <1>2, <2>3 DEF SwitchNext, SetEnabled, SetFollowActive, OffDisconnects, OffTargets,
       OffDetaches, Follow, ActiveTab, NoActiveTab, AttachActive
  <2>4. CASE RequestNext
    BY <1>2, <2>4 DEF RequestNext, Rpc, AttachQueried, AttachDone, ClipboardWritten,
       Answered, NextCall
  <2>5. CASE UNCHANGED vars
    BY <1>2, <2>5 DEF vars
  <2> QED
    BY <1>2, <2>1, <2>2, <2>3, <2>4, <2>5 DEF Next
<1> QED
  BY <1>1, <1>2, PTL DEF Spec

-----------------------------------------------------------------------------
(* The switch.                                                             *)

\* Nothing is going on in the worker.
Quiet ==
  /\ connecting = "none" /\ nativePort = "none" /\ ~reconnectTimer /\ ~bootTab
  /\ \A s \in Slots : tasks[s] = Idle

\* While the worker is stopped nothing goes on, and unless an event comes
\* early nothing does until boot's read returns; until then the switch is
\* what is stored, and then what the worker has.
SwitchInv ==
  /\ \A l, m \in loads : l.by = "boot" /\ m.by = "boot" => l = m
  /\ ~awake => Quiet /\ loads = {}
  /\ ~early =>
       /\ stored.enabled = wanted
       /\ \A l \in loads : l.read.enabled = wanted
       /\ awake /\ StorageAnswers => state.enabled = wanted
       /\ ~StorageAnswers => Quiet

\* A running activation, bridge or timer belongs to a worker that is awake
\* and, unless an event came early, has loaded its state.
LEMMA BusyIsLoaded ==
  ASSUME SwitchInv, ~Quiet
  PROVE  awake /\ (~early => StorageAnswers)
BY DEF SwitchInv

\* Steps of an awake and loaded worker that leave the switch alone, whatever
\* they save.
LEMMA SwitchFrame ==
  ASSUME TypeOK, SwitchInv, awake, ~early' => ~early /\ StorageAnswers,
         UNCHANGED <<awake, loads, state, wanted>>, stored' \in {stored, state}
  PROVE  SwitchInv'
BY DEF SwitchInv, StorageAnswers

\* What makes a worker busy.
LEMMA BusyCases ==
  /\ \A s \in Slots : tasks[s].at # "idle" => ~Quiet
  /\ connecting # "none" \/ nativePort # "none" \/ reconnectTimer \/ bootTab => ~Quiet
BY DEF Quiet, Idle, Activation

\* An event that may be early keeps the frame.
LEMMA EventFrame ==
  ASSUME TypeOK, SwitchInv, awake, NoteEvent,
         UNCHANGED <<awake, loads, state, wanted>>, stored' \in {stored, state}
  PROVE  SwitchInv'
<1>1. ~early' => ~early /\ loads = {}
  BY DEF NoteEvent, TypeOK
<1>2. loads = {} => StorageAnswers
  BY DEF StorageAnswers
<1> QED
  BY <1>1, <1>2, SwitchFrame

\* What a busy worker does on its own keeps the frame.
LEMMA BusyFrame ==
  ASSUME TypeOK, SwitchInv, ~Quiet,
         UNCHANGED <<awake, loads, state, wanted, early>>, stored' \in {stored, state}
  PROVE  SwitchInv'
BY BusyIsLoaded, SwitchFrame

\* Failing, sending and dispatching save nothing but the state.
LEMMA CallsSaveState ==
  ASSUME NEW s, NEW ts, NEW calls, NEW left, NEW b,
         \/ Fail(s, ts, calls) \/ SendCommand(s, ts, calls, left, b)
         \/ Dispatch(s, ts, calls)
  PROVE  stored' \in {stored, state}
BY DEF Fail, SendCommand, Dispatch, BeginCdp, BeginClipboard, BeginTabs, TabsCloseFails

LEMMA SwitchLife ==
  ASSUME TypeOK, SwitchInv, LifeNext
  PROVE  SwitchInv'
<1>1. CASE WorkerStarts
  BY <1>1 DEF WorkerStarts, SwitchInv, Quiet, StorageAnswers, bridgeVars, historyVars
<1>2. CASE WorkerStops
  BY <1>2 DEF WorkerStops, SwitchInv, Quiet, StorageAnswers
<1>3. CASE OnStartup
  <2>1. loads' = loads \cup {[by |-> "startup", read |-> stored]}
    BY <1>3 DEF OnStartup
  <2>2. \A l, m \in loads' : l.by = "boot" /\ m.by = "boot" => l = m
    BY <2>1 DEF SwitchInv
  <2>3. StorageAnswers' <=> StorageAnswers
    BY <2>1 DEF StorageAnswers
  <2>4. ~early => \A l \in loads' : l.read.enabled = wanted
    BY <2>1 DEF SwitchInv
  <2>5. Quiet => Quiet'
    BY <1>3 DEF OnStartup, Quiet, bridgeVars
  <2> QED
    BY <1>3, <2>2, <2>3, <2>4, <2>5 DEF OnStartup, SwitchInv, historyVars
<1>4. CASE BootSaves
  <2>1. ~Quiet
    BY <1>4, BusyCases DEF BootSaves
  <2> QED
    BY <1>4, <2>1, BusyFrame DEF BootSaves, historyVars
<1>5. ASSUME NEW l \in loads, Loaded(l) PROVE SwitchInv'
  <2>1. awake /\ awake'
    BY <1>5 DEF Loaded, SwitchInv
  <2>2. loads' = loads \ {l} /\ state' = l.read /\ UNCHANGED <<stored, wanted, early>>
    BY <1>5 DEF Loaded, historyVars
  <2>3. StorageAnswers'
    BY <1>5, <2>2 DEF Loaded, SwitchInv, StorageAnswers
  <2> QED
    BY <2>1, <2>2, <2>3 DEF SwitchInv
<1>6. ASSUME NEW t \in Tabs, Detached(t) PROVE SwitchInv'
  BY <1>6 DEF Detached, SwitchInv, Quiet, StorageAnswers, bootVars, bridgeVars,
     historyVars
<1> QED
  BY <1>1, <1>2, <1>3, <1>4, <1>5, <1>6 DEF LifeNext

LEMMA SwitchBridge ==
  ASSUME TypeOK, SwitchInv, BridgeNext
  PROVE  SwitchInv'
<1> USE DEF bootVars, historyVars, SetLastError
<1>1. CASE ConnectHello \/ ConnectDone \/ ConnectFails
  <2>1. ~Quiet
    BY <1>1, BusyCases DEF ConnectHello, ConnectDone, ConnectFails
  <2> QED
    BY <1>1, <2>1, BusyFrame DEF ConnectHello, ConnectDone, ConnectFails
<1>2. CASE PortLost \/ TimerFires
  <2>1. ~Quiet
    BY <1>2, BusyCases DEF PortLost, TimerFires
  <2> QED
    BY <1>2, <2>1, BusyFrame DEF PortLost, TimerFires
<1>3. CASE KeepAliveAlarm \/ UiReconnect
  BY <1>3, EventFrame DEF KeepAliveAlarm, UiReconnect
<1> QED
  BY <1>1, <1>2, <1>3 DEF BridgeNext

LEMMA SwitchSwitch ==
  ASSUME TypeOK, SwitchInv, SwitchNext
  PROVE  SwitchInv'
<1> PICK s \in Slots :
      \/ \E on \in BOOLEAN : SetEnabled(s, on) \/ SetFollowActive(s, on)
      \/ OffDisconnects(s) \/ OffTargets(s) \/ OffDetaches(s) \/ Follow(s)
      \/ \E t \in Tabs : ActiveTab(s, t)
      \/ NoActiveTab(s) \/ AttachActive(s)
  BY DEF SwitchNext
<1> USE DEF bootVars, historyVars
<1>1. ASSUME NEW on \in BOOLEAN, SetEnabled(s, on) \/ SetFollowActive(s, on)
      PROVE  SwitchInv'
  <2>1. awake /\ UNCHANGED <<awake, loads>> /\ stored' = state'
    BY <1>1 DEF SetEnabled, SetFollowActive
  <2>2. ~early' => ~early /\ loads = {}
    BY <1>1 DEF SetEnabled, SetFollowActive, NoteEvent, TypeOK
  <2>3. state'.enabled = wanted' \/ (state'.enabled = state.enabled /\ UNCHANGED wanted)
    BY <1>1 DEF SetEnabled, SetFollowActive, TypeOK, State
  <2> QED
    BY <2>1, <2>2, <2>3 DEF SwitchInv, StorageAnswers
<1>2. CASE OffDisconnects(s) \/ OffTargets(s) \/ OffDetaches(s)
  <2>1. ~Quiet
    BY <1>2, BusyCases DEF OffDisconnects, OffTargets, OffDetaches
  <2> QED
    BY <1>2, <2>1, BusyFrame DEF OffDisconnects, OffTargets, OffDetaches
<1>3. CASE Follow(s) \/ NoActiveTab(s) \/ AttachActive(s)
  <2>1. ~Quiet
    BY <1>3, BusyCases DEF Follow, NoActiveTab, AttachActive
  <2> QED
    BY <1>3, <2>1, BusyFrame DEF Follow, NoActiveTab, AttachActive
<1>4. ASSUME NEW t \in Tabs, ActiveTab(s, t) PROVE SwitchInv'
  <2>1. stored' = state /\ UNCHANGED <<awake, loads, state, wanted>>
    BY <1>4 DEF ActiveTab
  <2>2. CASE tasks[s].at = "tab" /\ UNCHANGED early
    BY <2>1, <2>2, BusyCases, BusyFrame
  <2>3. CASE awake /\ NoteEvent
    BY <2>1, <2>3, EventFrame
  <2> QED
    BY <1>4, <2>2, <2>3 DEF ActiveTab
<1> QED
  BY <1>1, <1>2, <1>3, <1>4

LEMMA SwitchRequest ==
  ASSUME TypeOK, SwitchInv, RequestNext
  PROVE  SwitchInv'
<1> PICK s \in Slots :
      \/ \E t \in Tabs, calls \in Batches : Rpc(s, t, calls)
      \/ AttachQueried(s) \/ AttachDone(s) \/ ClipboardWritten(s)
      \/ Answered(s) \/ NextCall(s)
  BY DEF RequestNext
<1>1. ~Quiet
  BY BusyCases
  DEF Rpc, AttachQueried, AttachDone, ClipboardWritten, Answered, NextCall
<1>2. UNCHANGED <<awake, loads, state, wanted, early>>
  BY DEF Rpc, AttachQueried, AttachDone, ClipboardWritten, Answered, NextCall,
     bootVars, historyVars
<1>3. stored' \in {stored, state}
  BY CallsSaveState
  DEF Rpc, AttachQueried, AttachDone, ClipboardWritten, Answered, NextCall
<1> QED
  BY <1>1, <1>2, <1>3, BusyFrame

LEMMA SwitchInvariant == Spec => []SwitchInv
<1>1. Init => SwitchInv
  BY DEF Init, SwitchInv, Quiet, StorageAnswers, DefaultState
<1>2. TypeOK /\ SwitchInv /\ [Next]_vars => SwitchInv'
  <2> SUFFICES ASSUME TypeOK, SwitchInv, [Next]_vars PROVE SwitchInv'
    OBVIOUS
  <2>1. CASE UNCHANGED vars
    BY <2>1 DEF vars, SwitchInv, Quiet, StorageAnswers, bootVars, bridgeVars,
       historyVars
  <2> QED
    BY <2>1, SwitchLife, SwitchBridge, SwitchSwitch, SwitchRequest DEF Next
<1> QED
  BY <1>1, <1>2, TypeCorrect, PTL DEF Spec

\* The switch stays where the user put it, unless an event is handled before
\* the stored state is loaded (SwitchHolds).
THEOREM SwitchKept == Spec => []SwitchHolds
<1>1. SwitchInv => SwitchHolds
  BY DEF SwitchInv, SwitchHolds, StorageAnswers
<1> QED
  BY <1>1, SwitchInvariant, PTL

-----------------------------------------------------------------------------
(* The gate of the debugger and clipboard calls.                           *)

\* A call that looks at the switch and has not changed the browser yet, or
\* has commands left, began when it was on.
Gated(k) ==
  \/ k.at \in {"query", "attaching", "offscreen"} /\ k.calls # <<>>
  \/ k.at = "sent" /\ k.left > 0
  => k.begunOn

GateInv == GatedCallsRefused /\ \A s \in Slots : Gated(tasks[s])

\* One activation changes and nothing in the browser does.
LEMMA GateBecome ==
  ASSUME TasksOK, GateInv, NEW s \in Slots, NEW a, Gated(a), Become(s, a),
         UNCHANGED offEffects
  PROVE  GateInv'
BY DEF TasksOK, GateInv, GatedCallsRefused, Gated, Become

LEMMA GatedWaits ==
  /\ Gated(Idle)
  /\ \A at, ts : Gated(Waiting(at, ts))
  /\ \A at, ts, calls, left : Gated(Activation(at, ts, calls, left, TRUE))
  /\ \A ts, calls, b : Gated(Activation("next", ts, calls, 0, b))
  /\ \A ts, calls, b : Gated(Activation("sent", ts, calls, 0, b))
BY DEF Gated, Waiting, Idle, Activation

LEMMA GateFail ==
  ASSUME TasksOK, GateInv, NEW s \in Slots, NEW ts, NEW calls, Fail(s, ts, calls),
         UNCHANGED offEffects
  PROVE  GateInv'
BY GateBecome, GatedWaits DEF Fail

\* A change of the browser by a call that began when the switch was on, or
\* that does not look at it.
LEMMA GateEffect ==
  ASSUME TasksOK, GateInv, NEW s \in Slots, NEW a, Gated(a), Become(s, a),
         NEW call, NEW b, Effect(call, b),
         b = TRUE \/ call \notin CdpCalls \cup {"clipboard"}
  PROVE  GateInv'
BY DEF TasksOK, GateInv, GatedCallsRefused, Gated, Become, Effect

LEMMA GateSend ==
  ASSUME TasksOK, GateInv, NEW s \in Slots, NEW ts, NEW calls, NEW left,
         SendCommand(s, ts, calls, left, TRUE)
  PROVE  GateInv'
BY GateBecome, GateEffect, GateFail, GatedWaits DEF SendCommand

LEMMA GateDispatch ==
  ASSUME TasksOK, GateInv, NEW s \in Slots, NEW ts, NEW calls, Dispatch(s, ts, calls)
  PROVE  GateInv'
<1>1. CASE BeginCdp(s, ts, calls)
  BY <1>1, GateFail, GateSend, GateBecome, GatedWaits DEF BeginCdp
<1>2. CASE BeginClipboard(s, ts, calls)
  BY <1>2, GateFail, GateBecome, GatedWaits DEF BeginClipboard
<1>3. CASE BeginTabs(s, ts, calls)
  <2>1. Head(calls) \notin CdpCalls \cup {"clipboard"}
    BY <1>3 DEF BeginTabs, CdpCalls
  <2> QED
    BY <1>3, <2>1, GateEffect, GatedWaits DEF BeginTabs
<1>4. CASE TabsCloseFails(s, ts, calls)
  BY <1>4, GateFail DEF TabsCloseFails
<1> QED
  BY <1>1, <1>2, <1>3, <1>4 DEF Dispatch

LEMMA GateRequest ==
  ASSUME TypeOK, GateInv, RequestNext
  PROVE  GateInv'
<1> PICK s \in Slots :
      \/ \E t \in Tabs, calls \in Batches : Rpc(s, t, calls)
      \/ AttachQueried(s) \/ AttachDone(s) \/ ClipboardWritten(s)
      \/ Answered(s) \/ NextCall(s)
  BY DEF RequestNext
<1> DEFINE k == tasks[s]
<1>0. /\ TasksOK /\ k \in TaskRecord /\ k.begunOn \in BOOLEAN /\ WellFormed(k)
      /\ Gated(k)
  BY DEF TypeOK, TasksOK, TaskRecord, GateInv
<1>1. ASSUME NEW t \in Tabs, NEW calls \in Batches, Rpc(s, t, calls) PROVE GateInv'
  BY <1>0, <1>1, GateDispatch DEF Rpc
<1>2. CASE AttachQueried(s)
  <2>1. k.calls # <<>> => k.begunOn = TRUE
    BY <1>0, <1>2 DEF AttachQueried, Gated
  <2>2. ASSUME tasks' = [tasks EXCEPT ![s].at = "attaching"], UNCHANGED offEffects
        PROVE  GateInv'
    <3>1. Gated([k EXCEPT !.at = "attaching"])
      BY <1>0, <2>1 DEF Gated, TaskRecord
    <3>2. Become(s, [k EXCEPT !.at = "attaching"])
      BY <1>0, <2>2 DEF Become, TasksOK
    <3> QED
      BY <1>0, <2>2, <3>1, <3>2, GateBecome
  <2>3. ASSUME k.calls # <<>>, SendCommand(s, k.tabs, k.calls, k.left, k.begunOn)
        PROVE  GateInv'
    BY <1>0, <2>1, <2>3, GateSend
  <2>4. ASSUME Become(s, Idle), UNCHANGED offEffects PROVE GateInv'
    BY <1>0, <2>4, GateBecome, GatedWaits
  <2>5. ASSUME Fail(s, k.tabs, k.calls), UNCHANGED offEffects PROVE GateInv'
    BY <1>0, <2>5, GateFail
  <2> QED
    BY <1>2, <2>2, <2>3, <2>4, <2>5 DEF AttachQueried
<1>3. CASE AttachDone(s)
  <2>1. k.calls # <<>> => k.begunOn = TRUE
    BY <1>0, <1>3 DEF AttachDone, Gated
  <2>2. ASSUME k.calls # <<>>, SendCommand(s, k.tabs, k.calls, k.left, k.begunOn)
        PROVE  GateInv'
    BY <1>0, <2>1, <2>2, GateSend
  <2>3. ASSUME Become(s, Idle), UNCHANGED offEffects PROVE GateInv'
    BY <1>0, <2>3, GateBecome, GatedWaits
  <2> QED
    BY <1>3, <2>2, <2>3 DEF AttachDone
<1>4. CASE ClipboardWritten(s)
  <2>1. k.begunOn = TRUE
    BY <1>0, <1>4 DEF ClipboardWritten, Gated, WellFormed
  <2>2. /\ Become(s, Activation("sent", k.tabs, k.calls, 0, k.begunOn))
        /\ Effect("clipboard", k.begunOn)
    BY <1>4 DEF ClipboardWritten
  <2> QED
    BY <1>0, <2>1, <2>2, GateEffect, GatedWaits
<1>5. CASE Answered(s)
  <2>1. CASE k.left > 0 /\ SendCommand(s, k.tabs, k.calls, k.left, k.begunOn)
    <3>1. k.begunOn = TRUE
      BY <1>0, <1>5, <2>1 DEF Answered, Gated
    <3> QED
      BY <1>0, <2>1, <3>1, GateSend
  <2>2. CASE /\ Become(s, IF Len(k.calls) = 1 THEN Idle
                          ELSE Activation("next", k.tabs, k.calls, 0, FALSE))
             /\ UNCHANGED offEffects
    BY <1>0, <2>2, GateBecome, GatedWaits
  <2> QED
    BY <1>5, <2>1, <2>2 DEF Answered
<1>6. CASE NextCall(s)
  BY <1>0, <1>6, GateDispatch DEF NextCall
<1> QED
  BY <1>1, <1>2, <1>3, <1>4, <1>5, <1>6

LEMMA GateSwitch ==
  ASSUME TypeOK, GateInv, SwitchNext
  PROVE  GateInv'
<1> PICK s \in Slots :
      \/ \E on \in BOOLEAN : SetEnabled(s, on) \/ SetFollowActive(s, on)
      \/ OffDisconnects(s) \/ OffTargets(s) \/ OffDetaches(s) \/ Follow(s)
      \/ \E t \in Tabs : ActiveTab(s, t)
      \/ NoActiveTab(s) \/ AttachActive(s)
  BY DEF SwitchNext
<1>1. UNCHANGED offEffects
  BY DEF SetEnabled, SetFollowActive, OffDisconnects, OffTargets, OffDetaches, Follow,
     ActiveTab, NoActiveTab, AttachActive
<1>2. Become(s, Idle) \/ \E at, ts : Become(s, Waiting(at, ts))
  BY DEF SetEnabled, SetFollowActive, OffDisconnects, OffTargets, OffDetaches, Follow,
     ActiveTab, NoActiveTab, AttachActive
<1>3. TasksOK
  BY DEF TypeOK, TasksOK
<1> QED
  BY <1>1, <1>2, <1>3, GateBecome, GatedWaits

\* A debugger or clipboard call that begins when the switch is off changes
\* nothing, in a batch too (GatedCallsRefused).
THEOREM GateHolds == Spec => []GatedCallsRefused
<1>1. Init => GateInv
  BY GatedWaits DEF Init, GateInv, GatedCallsRefused
<1>2. TypeOK /\ GateInv /\ [Next]_vars => GateInv'
  <2> SUFFICES ASSUME TypeOK, GateInv, [Next]_vars PROVE GateInv'
    OBVIOUS
  <2>1. CASE LifeNext \/ BridgeNext \/ UNCHANGED vars
    <3>1. /\ UNCHANGED offEffects
          /\ UNCHANGED tasks \/ tasks' = [s \in Slots |-> Idle]
      BY <2>1 DEF LifeNext, WorkerStarts, WorkerStops, OnStartup, BootSaves, Loaded,
         Detached, BridgeNext, ConnectHello, ConnectDone, ConnectFails, PortLost,
         TimerFires, KeepAliveAlarm, UiReconnect, vars
    <3> QED
      BY <3>1, GatedWaits DEF GateInv, GatedCallsRefused, Gated
  <2> QED
    BY <2>1, GateSwitch, GateRequest DEF Next
<1>3. GateInv => GatedCallsRefused
  BY DEF GateInv
<1> QED
  BY <1>1, <1>2, <1>3, TypeCorrect, PTL DEF Spec

-----------------------------------------------------------------------------
(* Switching off shuts everything.                                         *)

\* The user has switched off, with none of the exceptions of FailClosed.
Off == ~early /\ ~crossed /\ ~wanted

\* What is not shut then is about to be, by an activation of setEnabled.
ShutInv ==
  Off =>
    /\ connecting = "none" /\ ~Some({"query", "attaching"})
    /\ nativePort # "none" \/ reconnectTimer => Some({"off.save"})
    /\ \/ attached = {} \/ Some({"off.save", "off.close"})
       \/ \E s \in Slots : tasks[s].at = "off.detach" /\ attached \subseteq tasks[s].tabs

\* Off, the worker that does something knows it.
LEMMA OffIsKnown ==
  ASSUME TypeOK, SwitchInv, Off, ~Quiet \/ (awake /\ StorageAnswers)
  PROVE  state.enabled = FALSE
BY DEF SwitchInv, Off, TypeOK, State

\* Steps that connect and attach nothing.
LEMMA ShutFrame ==
  ASSUME TasksOK, ShutInv, Off' => Off, UNCHANGED connecting,
         nativePort' # "none" \/ reconnectTimer' => nativePort # "none" \/ reconnectTimer,
         attached' \subseteq attached, UNCHANGED tasks
  PROVE  ShutInv'
BY DEF ShutInv, Some

\* The same, of an activation that neither shuts nor goes on to attach.
LEMMA ShutTaskFrame ==
  ASSUME TasksOK, ShutInv, Off' => Off, UNCHANGED connecting,
         nativePort' # "none" \/ reconnectTimer' => nativePort # "none" \/ reconnectTimer,
         attached' \subseteq attached, NEW s \in Slots, NEW a, Become(s, a),
         tasks[s].at \notin {"off.save", "off.close", "off.detach"},
         a.at \notin {"query", "attaching"}
  PROVE  ShutInv'
<1> SUFFICES ASSUME Off' PROVE ShutInv'
  BY DEF ShutInv
<1>1. \A r \in Slots : tasks'[r] = IF r = s THEN a ELSE tasks[r]
  BY DEF Become, TasksOK
<1>2. ~Some({"query", "attaching"})'
  BY <1>1 DEF ShutInv, Some
<1>3. \A stages \in SUBSET {"off.save", "off.close", "off.detach"} :
        Some(stages) => Some(stages)'
  BY <1>1 DEF Some
<1>4. \A r \in Slots : tasks[r].at = "off.detach" => tasks'[r] = tasks[r]
  BY <1>1
<1> QED
  BY <1>2, <1>3, <1>4 DEF ShutInv

LEMMA ShutLife ==
  ASSUME TypeOK, SwitchInv, ShutInv, LifeNext
  PROVE  ShutInv'
<1>0. TasksOK
  BY DEF TypeOK, TasksOK
<1> USE DEF browserVars, bridgeVars, historyVars, Off
<1>1. CASE WorkerStarts \/ OnStartup \/ BootSaves
  BY <1>0, <1>1, ShutFrame DEF WorkerStarts, OnStartup, BootSaves
<1>2. CASE WorkerStops
  <2>1. Off' => attached = {}
    BY <1>2 DEF WorkerStops, ShutInv, Some
  <2> QED
    BY <1>2, <2>1 DEF WorkerStops, ShutInv, Some, Idle, Activation
<1>3. ASSUME NEW l \in loads, Loaded(l) PROVE ShutInv'
  <2>1. Off => l.read.enabled = FALSE
    BY DEF SwitchInv, TypeOK, State
  <2>2. Off => UNCHANGED connecting
    BY <1>3, <2>1 DEF Loaded, EnsureConnected
  <2>3. CASE Off
    BY <1>0, <1>3, <2>2, <2>3, ShutFrame DEF Loaded
  <2>4. CASE ~Off
    BY <1>3, <2>4 DEF Loaded, ShutInv
  <2> QED
    BY <2>3, <2>4
<1>4. ASSUME NEW t \in Tabs, Detached(t) PROVE ShutInv'
  BY <1>0, <1>4, ShutFrame DEF Detached
<1> QED
  BY <1>1, <1>2, <1>3, <1>4 DEF LifeNext

LEMMA ShutBridge ==
  ASSUME TypeOK, SwitchInv, ShutInv, BridgeNext
  PROVE  ShutInv'
<1>0. TasksOK
  BY DEF TypeOK, TasksOK
<1> USE DEF browserVars, bridgeVars, historyVars, Off
<1> SUFFICES ASSUME Off' PROVE ShutInv'
  BY DEF ShutInv
<1>1. Off
  BY DEF BridgeNext, ConnectHello, ConnectDone, ConnectFails, PortLost, TimerFires,
     KeepAliveAlarm, UiReconnect, NoteEvent, TypeOK
<1>2. CASE ConnectHello \/ ConnectDone \/ ConnectFails
  BY <1>1, <1>2 DEF ConnectHello, ConnectDone, ConnectFails, ShutInv
<1>3. CASE PortLost \/ TimerFires
  <2>1. state.enabled = FALSE
    BY <1>1, <1>3, OffIsKnown, BusyCases DEF PortLost, TimerFires
  <2> QED
    BY <1>0, <1>1, <1>3, <2>1, ShutFrame
    DEF PortLost, TimerFires, ScheduleReconnect, EnsureConnected
<1>4. CASE KeepAliveAlarm \/ UiReconnect
  <2>1. awake /\ StorageAnswers
    BY <1>4 DEF KeepAliveAlarm, UiReconnect, NoteEvent, StorageAnswers, TypeOK
  <2>2. state.enabled = FALSE
    BY <1>1, <2>1, OffIsKnown
  <2> QED
    BY <1>0, <1>1, <1>4, <2>2, ShutFrame DEF KeepAliveAlarm, UiReconnect, EnsureConnected
<1> QED
  BY <1>2, <1>3, <1>4 DEF BridgeNext

LEMMA ShutSwitch ==
  ASSUME TypeOK, SwitchInv, ShutInv, SwitchNext
  PROVE  ShutInv'
<1>0. TasksOK
  BY DEF TypeOK, TasksOK
<1> USE DEF browserVars, bridgeVars, historyVars, Off
<1> PICK s \in Slots :
      \/ \E on \in BOOLEAN : SetEnabled(s, on) \/ SetFollowActive(s, on)
      \/ OffDisconnects(s) \/ OffTargets(s) \/ OffDetaches(s) \/ Follow(s)
      \/ \E t \in Tabs : ActiveTab(s, t)
      \/ NoActiveTab(s) \/ AttachActive(s)
  BY DEF SwitchNext
<1> SUFFICES ASSUME Off' PROVE ShutInv'
  BY DEF ShutInv
<1>1. ASSUME NEW on \in BOOLEAN, SetEnabled(s, on) PROVE ShutInv'
  <2>1. /\ on = FALSE /\ connecting = "none" /\ ~Some({"query", "attaching"})
        /\ UNCHANGED <<connecting, attached>> /\ Become(s, Waiting("off.save", {}))
    BY <1>1 DEF SetEnabled, TypeOK
  <2>2. \A r \in Slots : tasks'[r] = IF r = s THEN Waiting("off.save", {}) ELSE tasks[r]
    BY <1>0, <2>1 DEF Become, TasksOK
  <2>3. Waiting("off.save", {}).at = "off.save"
    BY DEF Waiting, Activation
  <2>4. Some({"off.save"})' /\ Some({"off.save", "off.close"})'
    BY <2>2, <2>3 DEF Some
  <2>5. ~Some({"query", "attaching"})'
    BY <2>1, <2>2, <2>3 DEF Some
  <2> QED
    BY <2>1, <2>4, <2>5 DEF ShutInv
<1>2. ASSUME NEW on \in BOOLEAN, SetFollowActive(s, on) PROVE ShutInv'
  <2>1. Off
    BY <1>2 DEF SetFollowActive, NoteEvent, TypeOK
  <2>2. PICK a : Become(s, a) /\ a.at \notin {"query", "attaching"}
    BY <1>2 DEF SetFollowActive, Waiting, Activation
  <2>3. tasks[s].at = "idle"
    BY <1>2 DEF SetFollowActive, Idle, Activation
  <2> QED
    BY <1>0, <1>2, <2>1, <2>2, <2>3, ShutTaskFrame DEF SetFollowActive
<1>3. CASE OffDisconnects(s)
  <2>1. \A r \in Slots : tasks'[r] = IF r = s THEN Waiting("off.close", {}) ELSE tasks[r]
    BY <1>0, <1>3 DEF OffDisconnects, Become, TasksOK
  <2>2. Waiting("off.close", {}).at = "off.close"
    BY DEF Waiting, Activation
  <2>3. Some({"off.save", "off.close"})'
    BY <2>1, <2>2 DEF Some
  <2>4. Some({"query", "attaching"})' => Some({"query", "attaching"})
    BY <2>1, <2>2 DEF Some
  <2> QED
    BY <1>3, <2>3, <2>4 DEF OffDisconnects, ShutInv
<1>4. CASE OffTargets(s)
  <2>1. \A r \in Slots : tasks'[r] = IF r = s THEN Waiting("off.detach", attached) ELSE tasks[r]
    BY <1>0, <1>4 DEF OffTargets, Become, TasksOK
  <2>2. /\ Waiting("off.detach", attached).at = "off.detach"
        /\ Waiting("off.detach", attached).tabs = attached
    BY DEF Waiting, Activation
  <2>3. Some({"off.save"}) => Some({"off.save"})'
    BY <1>4, <2>1 DEF Some, OffTargets
  <2>4. Some({"query", "attaching"})' => Some({"query", "attaching"})
    BY <2>1, <2>2 DEF Some
  <2>5. attached' \subseteq tasks'[s].tabs /\ tasks'[s].at = "off.detach"
    BY <1>4, <2>1, <2>2 DEF OffTargets
  <2> QED
    BY <1>4, <2>3, <2>4, <2>5 DEF OffTargets, ShutInv
<1>5. CASE OffDetaches(s)
  <2>1. \A r \in Slots : tasks'[r] = IF r = s THEN Idle ELSE tasks[r]
    BY <1>0, <1>5 DEF OffDetaches, Become, TasksOK
  <2>2. \A stages \in SUBSET {"off.save", "off.close"} : Some(stages) => Some(stages)'
    BY <1>5, <2>1 DEF Some, OffDetaches
  <2>3. Some({"query", "attaching"})' => Some({"query", "attaching"})
    BY <2>1 DEF Some, Idle, Activation
  <2>4. attached' = attached \ tasks[s].tabs
    BY <1>5 DEF OffDetaches
  <2>5. ASSUME NEW r \in Slots, tasks[r].at = "off.detach", attached \subseteq tasks[r].tabs
        PROVE  \/ attached' = {}
               \/ \E q \in Slots : tasks'[q].at = "off.detach" /\ attached' \subseteq tasks'[q].tabs
    BY <2>1, <2>4, <2>5
  <2> QED
    BY <1>5, <2>2, <2>3, <2>4, <2>5 DEF OffDetaches, ShutInv
<1>6. CASE Follow(s) \/ NoActiveTab(s) \/ AttachActive(s)
  <2>1. Off /\ tasks[s].at \notin {"off.save", "off.close", "off.detach", "idle"}
    BY <1>6 DEF Follow, NoActiveTab, AttachActive
  <2>2. state.enabled = FALSE
    BY <2>1, OffIsKnown, BusyCases
  <2>3. PICK a : Become(s, a) /\ a.at \notin {"query", "attaching"}
    BY <1>6, <2>2 DEF Follow, NoActiveTab, AttachActive, Waiting, Idle, Activation
  <2> QED
    BY <1>0, <1>6, <2>1, <2>2, <2>3, ShutTaskFrame
    DEF Follow, NoActiveTab, AttachActive, EnsureConnected
<1>7. ASSUME NEW t \in Tabs, ActiveTab(s, t) PROVE ShutInv'
  <2>1. Off /\ tasks[s].at \notin {"off.save", "off.close", "off.detach"}
    BY <1>7 DEF ActiveTab, NoteEvent, Idle, Activation, TypeOK
  <2>2. PICK a : Become(s, a) /\ a.at \notin {"query", "attaching"}
    BY <1>7 DEF ActiveTab, Waiting, Activation
  <2> QED
    BY <1>0, <1>7, <2>1, <2>2, ShutTaskFrame DEF ActiveTab
<1> QED
  BY <1>1, <1>2, <1>3, <1>4, <1>5, <1>6, <1>7

\* When off, no call goes on to attach.
LEMMA OffCalls ==
  ASSUME NEW s \in Slots, NEW ts, NEW calls, NEW left, NEW b,
         \/ Fail(s, ts, calls) \/ SendCommand(s, ts, calls, left, b)
         \/ state.enabled = FALSE /\ Dispatch(s, ts, calls)
  PROVE  \E a : Become(s, a) /\ a.at \notin {"query", "attaching"}
<1>1. \A at, n, c : Activation(at, ts, calls, n, c).at = at
  BY DEF Activation
<1>2. Idle.at = "idle"
  BY DEF Idle, Activation
<1>3. Fail(s, ts, calls) => \E a : Become(s, a) /\ a.at \notin {"query", "attaching"}
  <2>1. Become(s, Idle) => \E a : Become(s, a) /\ a.at \notin {"query", "attaching"}
    BY <1>2
  <2>2. \A n, c : Become(s, Activation("next", ts, calls, n, c))
                 => \E a : Become(s, a) /\ a.at \notin {"query", "attaching"}
    BY <1>1
  <2> QED
    BY <2>1, <2>2 DEF Fail
<1>4. SendCommand(s, ts, calls, left, b)
        => \E a : Become(s, a) /\ a.at \notin {"query", "attaching"}
  BY <1>1, <1>3 DEF SendCommand
<1>5. ASSUME state.enabled = FALSE, Dispatch(s, ts, calls)
      PROVE  \E a : Become(s, a) /\ a.at \notin {"query", "attaching"}
  <2>1. BeginCdp(s, ts, calls) => Fail(s, ts, calls)
    BY <1>5 DEF BeginCdp
  <2>4. BeginTabs(s, ts, calls) => \E a : Become(s, a) /\ a.at \notin {"query", "attaching"}
    BY <1>1 DEF BeginTabs
  <2>2. TabsCloseFails(s, ts, calls) => Fail(s, ts, calls)
    BY DEF TabsCloseFails
  <2>3. BeginClipboard(s, ts, calls) => \E a : Become(s, a) /\ a.at \notin {"query", "attaching"}
    <3>1. Become(s, Activation("offscreen", ts, calls, 0, TRUE))
            => \E a : Become(s, a) /\ a.at \notin {"query", "attaching"}
      <4>1. Activation("offscreen", ts, calls, 0, TRUE).at = "offscreen"
        BY <1>1
      <4> QED BY ONLY <4>1
    <3> QED BY <1>3, <3>1 DEF BeginClipboard
  <2> QED BY <1>3, <1>5, <2>1, <2>2, <2>3, <2>4 DEF Dispatch
<1> QED
  BY <1>3, <1>4, <1>5

LEMMA ShutRequest ==
  ASSUME TypeOK, SwitchInv, ShutInv, RequestNext
  PROVE  ShutInv'
<1>0. TasksOK
  BY DEF TypeOK, TasksOK
<1> USE DEF browserVars, bridgeVars, historyVars, Off
<1> PICK s \in Slots :
      \/ \E t \in Tabs, calls \in Batches : Rpc(s, t, calls)
      \/ AttachQueried(s) \/ AttachDone(s) \/ ClipboardWritten(s)
      \/ Answered(s) \/ NextCall(s)
  BY DEF RequestNext
<1> SUFFICES ASSUME Off' PROVE ShutInv'
  BY DEF ShutInv
<1>1. Off /\ UNCHANGED <<connecting, nativePort, reconnectTimer>>
  <2>1. UNCHANGED <<bridgeVars, historyVars>>
    BY DEF Rpc, AttachQueried, AttachDone, ClipboardWritten, Answered, NextCall
  <2> QED
    BY <2>1
<1>2. ~ (tasks[s].at \in {"query", "attaching"})
  BY <1>1 DEF ShutInv, Some
<1>3. ~Quiet
  BY BusyCases
  DEF Rpc, AttachQueried, AttachDone, ClipboardWritten, Answered, NextCall
<1>4. state.enabled = FALSE
  BY <1>1, <1>3, OffIsKnown
<1>5. tasks[s].at \notin {"off.save", "off.close", "off.detach"}
  <2>1. Idle.at = "idle"
    BY DEF Idle, Activation
  <2>2. ASSUME NEW t \in Tabs, NEW calls \in Batches, Rpc(s, t, calls)
        PROVE  tasks[s].at = "idle"
    BY <2>1, <2>2 DEF Rpc
  <2>3. CASE AttachQueried(s) \/ AttachDone(s) \/ ClipboardWritten(s) \/ Answered(s) \/ NextCall(s)
    BY <2>3 DEF AttachQueried, AttachDone, ClipboardWritten, Answered, NextCall
  <2> QED
    BY <2>2, <2>3
<1>6. attached' \subseteq attached
  BY <1>2 DEF Rpc, AttachQueried, AttachDone, ClipboardWritten, Answered, NextCall,
     Dispatch, BeginCdp, BeginClipboard, BeginTabs, TabsCloseFails
<1>7. \E a : Become(s, a) /\ a.at \notin {"query", "attaching"}
  <2>1. CASE (\E t \in Tabs, calls \in Batches : Rpc(s, t, calls)) \/ NextCall(s)
    BY <1>4, <2>1, OffCalls DEF Rpc, NextCall
  <2>2. CASE ClipboardWritten(s)
    BY <2>2 DEF ClipboardWritten, Activation
  <2>3. CASE Answered(s)
    <3>1. Become(s, Idle)
            => \E a : Become(s, a) /\ a.at \notin {"query", "attaching"}
      BY DEF Idle, Activation
    <3>2. \A ts, calls :
            Become(s, Activation("next", ts, calls, 0, FALSE))
            => \E a : Become(s, a) /\ a.at \notin {"query", "attaching"}
      BY DEF Activation
    <3> QED
      BY <2>3, <3>1, <3>2, OffCalls DEF Answered
  <2> QED
    BY <1>2, <2>1, <2>2, <2>3 DEF AttachQueried, AttachDone
<1> QED
  BY <1>0, <1>1, <1>5, <1>6, <1>7, ShutTaskFrame

\* Switching off shuts everything, with the exceptions that FailClosed names.
THEOREM FailsClosed == Spec => []FailClosed
<1>1. Init => ShutInv
  BY DEF Init, ShutInv, Off
<1>2. TypeOK /\ SwitchInv /\ ShutInv /\ [Next]_vars => ShutInv'
  <2> SUFFICES ASSUME TypeOK, SwitchInv, ShutInv, [Next]_vars PROVE ShutInv'
    OBVIOUS
  <2>1. CASE UNCHANGED vars
    BY <2>1 DEF vars, ShutInv, Off, Some, browserVars, bridgeVars, historyVars
  <2> QED
    BY <2>1, ShutLife, ShutBridge, ShutSwitch, ShutRequest DEF Next
<1>3. TypeOK /\ SwitchInv /\ ShutInv => FailClosed
  BY DEF SwitchInv, ShutInv, Off, FailClosed, OffAndDone, Shut, StorageAnswers, Some, Idle,
     Activation
<1> QED
  BY <1>1, <1>2, <1>3, TypeCorrect, SwitchInvariant, PTL DEF Spec
=============================================================================
