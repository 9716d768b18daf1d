--------------------------- MODULE ExtensionWorker ---------------------------
(***************************************************************************)
(* The service worker of the browser extension (service_worker.js): its    *)
(* native bridge, its kill switch (state.enabled), the debugger it holds   *)
(* on tabs, and the handlers of the requests that come over the bridge.    *)
(*                                                                         *)
(* The worker is one JavaScript thread: a step is what a task does between *)
(* two awaits. The browser starts and stops the worker at will; what it    *)
(* keeps is the stored state, the tabs and the debugger sessions.          *)
(* Storage operations are served in the order they were issued, so a save  *)
(* takes effect when issued, and a read returns what was stored then.      *)
(* A bridge port in hand, nativeConnected and nativeHandshakeOk are        *)
(* assigned together everywhere, and are one variable here. The state.set  *)
(* request is the popup's setEnabled and setFollowActive.                  *)
(***************************************************************************)
EXTENDS Naturals, Sequences

CONSTANTS
  Tabs,           \* tab ids; a closed tab's id is not used again
  Slots,          \* bound: activations of asynchronous functions at a time
  Batches,        \* the requests considered: sequences of calls (rpc.batch)
  MaxStarts,      \* bound: starts of the worker
  MaxToggles,     \* bound: setEnabled and setFollowActive calls
  MaxRequests,    \* bound: requests over the bridge
  MaxReconnects   \* bound: clicks on the popup's Reconnect

CdpCalls == {"cdp.send", "cdp.sendMany"}
Calls    == CdpCalls \cup {"clipboard", "tabs.create", "tabs.close"}

ASSUME BatchesAssumption == Batches \subseteq Seq(Calls) \ {<<>>}
ASSUME BoundsAssumption ==
  MaxStarts \in Nat /\ MaxToggles \in Nat /\ MaxRequests \in Nat /\ MaxReconnects \in Nat

VARIABLES
  \* kept by the browser
  stored,        \* storage.local: the saved state
  tabState,      \* tab -> "new", "open" or "gone"
  attached,      \* tabs the extension's debugger is attached to
  \* the worker
  awake,
  state,         \* state.enabled and state.followActive
  loads,         \* loadState reads under way: [by, read]
  bootTab,       \* boot has loaded and waits for the active tab
  connecting,    \* connectInFlight: "none", "profile" or "hello"
  nativePort,    \* "none", "open", or "dead": in hand but disconnected
  reconnectTimer,
  attachedTabs,  \* the worker's cache of attached
  tasks,         \* slot -> what its activation awaits
  \* history and bounds
  wanted,        \* the switch as last set by the user
  early,         \* an event was handled before the stored state was loaded
  crossed,       \* the switch went off across an attach, a connect or a stop
  offEffects,    \* calls that changed the browser while off: [call, begunOn]
  starts, toggles, requests, reconnects

browserVars == <<tabState, attached>>
bridgeVars  == <<connecting, nativePort, reconnectTimer>>
bootVars    == <<awake, loads, bootTab>>
historyVars == <<wanted, early, crossed>>
countVars   == <<starts, toggles, requests, reconnects>>
vars == <<stored, browserVars, bootVars, state, bridgeVars, attachedTabs,
          tasks, historyVars, offEffects, countVars>>

State == [enabled : BOOLEAN, followActive : BOOLEAN]
DefaultState == [enabled |-> TRUE, followActive |-> FALSE]

\* An activation: what it awaits, the tabs it is about, the calls of its
\* batch from the present one on, the commands of that call still to send,
\* and whether the switch was on when that call began.
Activation(at, ts, calls, left, begunOn) ==
  [at |-> at, tabs |-> ts, calls |-> calls, left |-> left, begunOn |-> begunOn]
Idle == Activation("idle", {}, <<>>, 0, FALSE)
Waiting(at, ts) == Activation(at, ts, <<>>, 0, FALSE)

Become(s, a) == tasks' = [tasks EXCEPT ![s] = a]

\* Some activation is in one of the stages.
Some(stages) == \E s \in Slots : tasks[s].at \in stages

Init ==
  /\ stored = DefaultState /\ state = DefaultState
  /\ tabState \in [Tabs -> {"new", "open"}]
  /\ attached = {} /\ attachedTabs = {}
  /\ awake = FALSE /\ loads = {} /\ bootTab = FALSE
  /\ connecting = "none" /\ nativePort = "none" /\ reconnectTimer = FALSE
  /\ tasks = [s \in Slots |-> Idle]
  /\ wanted = TRUE /\ early = FALSE /\ crossed = FALSE
  /\ offEffects = {}
  /\ starts = 0 /\ toggles = 0 /\ requests = 0 /\ reconnects = 0

-----------------------------------------------------------------------------
(* Starting and stopping.                                                  *)

\* An event wakes the worker: the script runs, with the default state, and
\* its boot issues loadState.
WorkerStarts ==
  /\ ~awake /\ starts < MaxStarts
  /\ awake' = TRUE /\ starts' = starts + 1
  /\ state' = DefaultState
  /\ loads' = {[by |-> "boot", read |-> stored]}
  /\ UNCHANGED <<stored, browserVars, bootTab, bridgeVars, attachedTabs, tasks,
                 historyVars, offEffects, toggles, requests, reconnects>>

\* The browser stops the worker: its variables, timers and activations go,
\* its port is closed; debugger sessions stay.
WorkerStops ==
  /\ awake
  /\ awake' = FALSE /\ loads' = {} /\ bootTab' = FALSE
  /\ connecting' = "none" /\ nativePort' = "none" /\ reconnectTimer' = FALSE
  /\ attachedTabs' = {}
  /\ tasks' = [s \in Slots |-> Idle]
  /\ crossed' = (crossed \/ Some({"off.save", "off.close", "off.detach"}))
  /\ UNCHANGED <<stored, browserVars, state, wanted, early, offEffects,
                 countVars>>

\* ensureConnected and connect: nothing when off, connecting or connected.
EnsureConnected(on) ==
  connecting' = IF on /\ connecting = "none" /\ nativePort = "none"
                THEN "profile" ELSE connecting

\* onStartup loads the state a second time.
OnStartup ==
  /\ awake /\ \E l \in loads : l.by = "boot"
  /\ loads' = loads \cup {[by |-> "startup", read |-> stored]}
  /\ UNCHANGED <<stored, browserVars, awake, bootTab, state, bridgeVars,
                 attachedTabs, tasks, historyVars, offEffects, countVars>>

\* Mutant: what storage returned is taken for the state it holds.
LoadedRaw(l) ==
  /\ l \in loads /\ loads' = {}
  /\ state' = l
  /\ UNCHANGED <<stored, browserVars, awake, bootTab, bridgeVars, attachedTabs,
                 tasks, historyVars, offEffects, countVars>>

\* loadState returns: what was stored replaces what the worker has, and the
\* bridge is started if that says so.
Loaded(l) ==
  /\ l \in loads
  /\ \/ l.by = "boot" \/ \A m \in loads : m.by # "boot"
  /\ loads' = loads \ {l}
  /\ state' = l.read
  /\ EnsureConnected(l.read.enabled)
  /\ bootTab' = (bootTab \/ l.by = "boot")
  /\ UNCHANGED <<stored, browserVars, awake, nativePort, reconnectTimer,
                 attachedTabs, tasks, historyVars, offEffects, countVars>>

\* The end of boot saves the state with the active tab.
BootSaves ==
  /\ bootTab /\ bootTab' = FALSE
  /\ stored' = state
  /\ UNCHANGED <<browserVars, awake, loads, state, bridgeVars, attachedTabs,
                 tasks, historyVars, offEffects, countVars>>

\* Storage answers in order: whatever the worker stores or reads is served
\* after the read its boot began with.
StorageAnswers == \A l \in loads : l.by # "boot"

\* An event handled now may come before the stored state has been read.
NoteEvent == early' = (early \/ loads # {})

-----------------------------------------------------------------------------
(* The bridge.                                                             *)

\* setLastError saves the whole state, if the message is a new one.
SetLastError == stored' \in {stored, state}

ScheduleReconnect == reconnectTimer' = (reconnectTimer \/ state.enabled)

\* ensureProfileId has returned: the native host is started, hello posted.
\* Nothing looks at the switch again.
ConnectHello ==
  /\ connecting = "profile" /\ StorageAnswers
  /\ connecting' = "hello"
  /\ UNCHANGED <<stored, browserVars, bootVars, state, nativePort,
                 reconnectTimer, attachedTabs, tasks, historyVars, offEffects,
                 countVars>>

\* helloAck in time: the port is the bridge.
ConnectDone ==
  /\ connecting = "hello"
  /\ connecting' = "none" /\ nativePort' = "open"
  /\ SetLastError
  /\ UNCHANGED <<browserVars, bootVars, state, reconnectTimer, attachedTabs,
                 tasks, historyVars, offEffects, countVars>>

\* No host, a host that ends, or no helloAck within the deadline.
ConnectFails ==
  /\ connecting = "hello"
  /\ connecting' = "none"
  /\ IF state.enabled THEN SetLastError ELSE UNCHANGED stored
  /\ ScheduleReconnect
  /\ UNCHANGED <<browserVars, bootVars, state, nativePort, attachedTabs,
                 tasks, historyVars, offEffects, countVars>>

\* Mutant: the closed port stays in hand.
PortLostStays ==
  /\ nativePort = "open"
  /\ nativePort' = "dead"
  /\ ScheduleReconnect
  /\ UNCHANGED <<stored, browserVars, bootVars, state, connecting, attachedTabs,
                 tasks, historyVars, offEffects, countVars>>

\* The host's end of the port closes.
PortLost ==
  /\ nativePort = "open"
  /\ nativePort' = "none"
  /\ IF state.enabled THEN SetLastError ELSE UNCHANGED stored
  /\ ScheduleReconnect
  /\ UNCHANGED <<browserVars, bootVars, state, connecting, attachedTabs,
                 tasks, historyVars, offEffects, countVars>>

TimerFires ==
  /\ reconnectTimer /\ reconnectTimer' = FALSE
  /\ EnsureConnected(state.enabled)
  /\ UNCHANGED <<stored, browserVars, bootVars, state, nativePort,
                 attachedTabs, tasks, historyVars, offEffects, countVars>>

\* The alarm of every minute.
KeepAliveAlarm ==
  /\ awake
  /\ EnsureConnected(state.enabled)
  /\ NoteEvent
  /\ UNCHANGED <<stored, browserVars, bootVars, state, nativePort,
                 reconnectTimer, attachedTabs, tasks, wanted, crossed,
                 offEffects, countVars>>

\* The popup's Reconnect. A port's own end is not told of its disconnect(),
\* so the port stays in hand, and ensureConnected finds the bridge connected.
UiReconnect ==
  /\ awake /\ reconnects < MaxReconnects
  /\ reconnects' = reconnects + 1
  /\ nativePort' = IF nativePort = "none" THEN "none" ELSE "dead"
  /\ EnsureConnected(state.enabled)
  /\ NoteEvent
  /\ UNCHANGED <<stored, browserVars, bootVars, state, reconnectTimer,
                 attachedTabs, tasks, wanted, crossed, offEffects, starts,
                 toggles, requests>>

-----------------------------------------------------------------------------
(* The switch.                                                             *)

\* Mutant: the switch is not saved.
SetEnabledUnsaved(s, on) ==
  /\ awake /\ tasks[s] = Idle /\ toggles < MaxToggles
  /\ toggles' = toggles + 1
  /\ state' = [state EXCEPT !.enabled = on]
  /\ wanted' = on
  /\ Become(s, Waiting(IF on THEN "on.save" ELSE "off.save", {}))
  /\ UNCHANGED crossed
  /\ NoteEvent
  /\ UNCHANGED <<stored, browserVars, bootVars, bridgeVars, attachedTabs,
                 offEffects, starts, requests, reconnects>>

\* setEnabled, to its first await.
SetEnabled(s, on) ==
  /\ awake /\ tasks[s] = Idle /\ toggles < MaxToggles
  /\ toggles' = toggles + 1
  /\ state' = [state EXCEPT !.enabled = on]
  /\ stored' = state'
  /\ wanted' = on
  /\ Become(s, Waiting(IF on THEN "on.save" ELSE "off.save", {}))
  /\ crossed' = (\/ crossed
                 \/ ~on /\ (connecting # "none" \/ Some({"query", "attaching"})))
  /\ NoteEvent
  /\ UNCHANGED <<browserVars, bootVars, bridgeVars, attachedTabs, offEffects,
                 starts, requests, reconnects>>

\* Mutant: the reconnect timer is left running.
OffKeepsTimer(s) ==
  /\ tasks[s].at = "off.save" /\ StorageAnswers
  /\ nativePort' = "none"
  /\ Become(s, Waiting("off.close", {}))
  /\ UNCHANGED <<stored, browserVars, bootVars, state, connecting, reconnectTimer,
                 attachedTabs, historyVars, offEffects, countVars>>

\* Off: the port is closed and the reconnect timer cleared.
OffDisconnects(s) ==
  /\ tasks[s].at = "off.save" /\ StorageAnswers
  /\ nativePort' = "none" /\ reconnectTimer' = FALSE
  /\ Become(s, Waiting("off.close", {}))
  /\ UNCHANGED <<stored, browserVars, bootVars, state, connecting, attachedTabs,
                 historyVars, offEffects, countVars>>

\* The offscreen document is closed; detachAll asks for the debug targets.
OffTargets(s) ==
  /\ tasks[s].at = "off.close"
  /\ Become(s, Waiting("off.detach", attached))
  /\ UNCHANGED <<stored, browserVars, bootVars, state, bridgeVars, attachedTabs,
                 historyVars, offEffects, countVars>>

\* Mutant: the cache is cleared and the targets left alone.
OffForgets(s) ==
  /\ tasks[s].at = "off.detach"
  /\ attachedTabs' = {}
  /\ Become(s, Idle)
  /\ UNCHANGED <<stored, browserVars, bootVars, state, bridgeVars, historyVars,
                 offEffects, countVars>>

\* The targets found are detached, and the cache is cleared.
OffDetaches(s) ==
  /\ tasks[s].at = "off.detach"
  /\ attached' = attached \ tasks[s].tabs
  /\ attachedTabs' = {}
  /\ Become(s, Idle)
  /\ UNCHANGED <<stored, tabState, bootVars, state, bridgeVars, historyVars,
                 offEffects, countVars>>

\* setFollowActive, to its first await.
SetFollowActive(s, on) ==
  /\ awake /\ tasks[s] = Idle /\ toggles < MaxToggles
  /\ toggles' = toggles + 1
  /\ state' = [state EXCEPT !.followActive = on]
  /\ stored' = state'
  /\ Become(s, Waiting("follow.save", {}))
  /\ NoteEvent
  /\ UNCHANGED <<browserVars, bootVars, bridgeVars, attachedTabs, wanted,
                 crossed, offEffects, starts, requests, reconnects>>

\* Saved, on and following: connect, and look for the active tab.
Follow(s) ==
  /\ tasks[s].at \in {"on.save", "follow.save"} /\ StorageAnswers
  /\ IF state.followActive /\ (tasks[s].at = "on.save" \/ state.enabled)
     THEN EnsureConnected(state.enabled) /\ Become(s, Waiting("tab", {}))
     ELSE UNCHANGED connecting /\ Become(s, Idle)
  /\ UNCHANGED <<stored, browserVars, bootVars, state, nativePort,
                 reconnectTimer, attachedTabs, historyVars, offEffects,
                 countVars>>

\* The active tab t is known and saved, or another tab was activated by the
\* user (onActivated): either saves before it attaches.
ActiveTab(s, t) ==
  /\ tabState[t] = "open"
  /\ \/ tasks[s].at = "tab" /\ UNCHANGED early
     \/ awake /\ tasks[s] = Idle /\ NoteEvent
  /\ stored' = state
  /\ Become(s, Waiting(IF tasks[s] = Idle THEN "activated" ELSE "follow", {t}))
  /\ UNCHANGED <<browserVars, bootVars, state, bridgeVars, attachedTabs, wanted,
                 crossed, offEffects, countVars>>

\* There is no active tab.
NoActiveTab(s) ==
  /\ tasks[s].at = "tab" /\ Become(s, Idle)
  /\ UNCHANGED <<stored, browserVars, bootVars, state, bridgeVars, attachedTabs,
                 historyVars, offEffects, countVars>>

\* ensureDebuggerAttached of that tab, unless it throws or has nothing to do.
AttachActive(s) ==
  /\ tasks[s].at \in {"activated", "follow"} /\ StorageAnswers
  /\ IF /\ state.enabled
        /\ tasks[s].at = "activated" => state.followActive
        /\ tasks[s].tabs \cap attachedTabs = {}
     THEN Become(s, Waiting("query", tasks[s].tabs))
     ELSE Become(s, Idle)
  /\ UNCHANGED <<stored, browserVars, bootVars, state, bridgeVars, attachedTabs,
                 historyVars, offEffects, countVars>>

-----------------------------------------------------------------------------
(* Requests.                                                               *)

Commands(call) == IF call = "cdp.sendMany" THEN 2 ELSE 1

\* A call changes something in the browser.
Effect(call, begunOn) ==
  offEffects' = IF state.enabled THEN offEffects
                ELSE offEffects \cup {[call |-> call, begunOn |-> begunOn]}

\* A call throws: the request is answered with the error, which is saved as
\* lastError, or a batch without stopOnError goes on.
Fail(s, ts, calls) ==
  \/ Become(s, Idle) /\ stored' = state
  \/ /\ Len(calls) > 1
     /\ Become(s, Activation("next", ts, calls, 0, FALSE))
     /\ UNCHANGED stored

\* One debugger command goes out, and fails if the tab is not attached; in a
\* sendMany without stopOnError the next one follows. The switch is not
\* looked at.
SendCommand(s, ts, calls, left, begunOn) ==
  \/ /\ ts \subseteq attached
     /\ Effect(Head(calls), begunOn)
     /\ Become(s, Activation("sent", ts, calls, left - 1, begunOn))
     /\ UNCHANGED stored
  \/ /\ ~ (ts \subseteq attached)
     /\ UNCHANGED offEffects
     /\ \/ Fail(s, ts, calls)
        \/ /\ left > 1
           /\ Become(s, Activation("sent", ts, calls, left - 1, begunOn))
           /\ UNCHANGED stored

\* Mutant: cdp.send and cdp.sendMany leave the switch to ensureDebuggerAttached,
\* and that to its callers.
BeginCdpUnchecked(s, ts, calls) ==
  /\ Head(calls) \in CdpCalls
  /\ \/ /\ ts \subseteq attachedTabs
        /\ SendCommand(s, ts, calls, Commands(Head(calls)), state.enabled)
     \/ /\ ~ (ts \subseteq attachedTabs)
        /\ Become(s, Activation("query", ts, calls, Commands(Head(calls)),
                                state.enabled))
        /\ UNCHANGED <<stored, offEffects>>
  /\ UNCHANGED browserVars

\* cdp.send, cdp.sendMany: refused when off; a tab in the cache is taken for
\* attached, for another the debug targets are asked for.
BeginCdp(s, ts, calls) ==
  /\ Head(calls) \in CdpCalls
  /\ \/ ~state.enabled /\ Fail(s, ts, calls) /\ UNCHANGED offEffects
     \/ /\ state.enabled /\ ts \subseteq attachedTabs
        /\ SendCommand(s, ts, calls, Commands(Head(calls)), TRUE)
     \/ /\ state.enabled /\ ~ (ts \subseteq attachedTabs)
        /\ Become(s, Activation("query", ts, calls, Commands(Head(calls)), TRUE))
        /\ UNCHANGED <<stored, offEffects>>
  /\ UNCHANGED browserVars

\* clipboard.*: refused when off; then the offscreen document is made ready.
BeginClipboard(s, ts, calls) ==
  /\ Head(calls) = "clipboard"
  /\ \/ ~state.enabled /\ Fail(s, ts, calls)
     \/ /\ state.enabled
        /\ Become(s, Activation("offscreen", ts, calls, 0, TRUE))
        /\ UNCHANGED stored
  /\ UNCHANGED <<browserVars, offEffects>>

\* tabs.create and tabs.close do not look at the switch.
BeginTabs(s, ts, calls) ==
  /\ \/ /\ Head(calls) = "tabs.create"
        /\ \E t \in Tabs : tabState[t] = "new"
                           /\ tabState' = [tabState EXCEPT ![t] = "open"]
        /\ UNCHANGED attached
     \/ /\ Head(calls) = "tabs.close"
        /\ \A t \in ts : tabState[t] = "open"
        /\ tabState' = [t \in Tabs |-> IF t \in ts THEN "gone" ELSE tabState[t]]
        /\ attached' = attached \ ts
  /\ Effect(Head(calls), state.enabled)
  /\ Become(s, Activation("sent", ts, calls, 0, state.enabled))
  /\ UNCHANGED stored

\* Closing a tab that is not there throws.
TabsCloseFails(s, ts, calls) ==
  /\ Head(calls) = "tabs.close" /\ \E t \in ts : tabState[t] # "open"
  /\ Fail(s, ts, calls)
  /\ UNCHANGED <<browserVars, offEffects>>

\* dispatchRpc of the first of the calls.
Dispatch(s, ts, calls) ==
  \/ BeginCdp(s, ts, calls) \/ BeginClipboard(s, ts, calls)
  \/ BeginTabs(s, ts, calls) \/ TabsCloseFails(s, ts, calls)

\* A request comes in over the bridge.
Rpc(s, t, calls) ==
  /\ nativePort = "open" /\ tasks[s] = Idle /\ requests < MaxRequests
  /\ requests' = requests + 1
  /\ Dispatch(s, {t}, calls)
  /\ UNCHANGED <<bootVars, state, bridgeVars, attachedTabs, historyVars, starts,
                 toggles, reconnects>>

\* The debug targets are known: attached already, or attach now.
AttachQueried(s) ==
  LET k == tasks[s]
  IN /\ k.at = "query"
     /\ \/ /\ k.tabs \subseteq attached
           /\ attachedTabs' = attachedTabs \cup k.tabs
           /\ UNCHANGED attached
           /\ \/ k.calls = <<>> /\ Become(s, Idle) /\ UNCHANGED <<stored, offEffects>>
              \/ k.calls # <<>> /\ SendCommand(s, k.tabs, k.calls, k.left, k.begunOn)
        \/ /\ ~ (k.tabs \subseteq attached)
           /\ \A t \in k.tabs : tabState[t] = "open"
           /\ attached' = attached \cup k.tabs
           /\ tasks' = [tasks EXCEPT ![s].at = "attaching"]
           /\ UNCHANGED <<stored, attachedTabs, offEffects>>
        \/ /\ ~ (k.tabs \subseteq attached)
           /\ UNCHANGED <<attached, attachedTabs, offEffects>>
           /\ \/ k.calls = <<>> /\ Become(s, Idle) /\ UNCHANGED stored
              \/ k.calls # <<>> /\ Fail(s, k.tabs, k.calls)
     /\ UNCHANGED <<tabState, bootVars, state, bridgeVars, historyVars, countVars>>

\* attach has succeeded; the first command follows.
AttachDone(s) ==
  LET k == tasks[s]
  IN /\ k.at = "attaching"
     /\ attachedTabs' = attachedTabs \cup k.tabs
     /\ \/ k.calls = <<>> /\ Become(s, Idle) /\ UNCHANGED <<stored, offEffects>>
        \/ k.calls # <<>> /\ SendCommand(s, k.tabs, k.calls, k.left, k.begunOn)
     /\ UNCHANGED <<browserVars, bootVars, state, bridgeVars, historyVars,
                    countVars>>

\* The offscreen document has answered the ping and writes the clipboard.
ClipboardWritten(s) ==
  LET k == tasks[s]
  IN /\ k.at = "offscreen"
     /\ Effect("clipboard", k.begunOn)
     /\ Become(s, Activation("sent", k.tabs, k.calls, 0, k.begunOn))
     /\ UNCHANGED <<stored, browserVars, bootVars, state, bridgeVars,
                    attachedTabs, historyVars, countVars>>

\* The browser has answered: tabs.close forgets the tab; the next command,
\* the next call of the batch, or the reply follows.
Answered(s) ==
  LET k == tasks[s]
  IN /\ k.at = "sent"
     /\ attachedTabs' = IF Head(k.calls) = "tabs.close"
                        THEN attachedTabs \ k.tabs ELSE attachedTabs
     /\ \/ /\ k.left > 0
           /\ SendCommand(s, k.tabs, k.calls, k.left, k.begunOn)
        \/ /\ k.left = 0
           /\ Become(s, IF Len(k.calls) = 1 THEN Idle
                        ELSE Activation("next", k.tabs, k.calls, 0, FALSE))
           /\ UNCHANGED <<stored, offEffects>>
     /\ UNCHANGED <<browserVars, bootVars, state, bridgeVars, historyVars,
                    countVars>>

\* rpc.batch goes on with its next call.
NextCall(s) ==
  /\ tasks[s].at = "next"
  /\ Dispatch(s, tasks[s].tabs, Tail(tasks[s].calls))
  /\ UNCHANGED <<bootVars, state, bridgeVars, attachedTabs, historyVars,
                 countVars>>

\* The browser ends a debugger session: the user closes the tab or cancels.
Detached(t) ==
  /\ t \in attached
  /\ attached' = attached \ {t}
  /\ attachedTabs' = attachedTabs \ {t}
  /\ tabState' \in {tabState, [tabState EXCEPT ![t] = "gone"]}
  /\ UNCHANGED <<stored, bootVars, state, bridgeVars, tasks, historyVars,
                 offEffects, countVars>>
-----------------------------------------------------------------------------
LifeNext ==
  \/ WorkerStarts \/ WorkerStops \/ OnStartup \/ BootSaves
  \/ \E l \in loads : Loaded(l)
  \/ \E t \in Tabs : Detached(t)

BridgeNext ==
  \/ ConnectHello \/ ConnectDone \/ ConnectFails \/ PortLost
  \/ TimerFires \/ KeepAliveAlarm \/ UiReconnect

SwitchNext ==
  \E s \in Slots :
    \/ \E on \in BOOLEAN : SetEnabled(s, on) \/ SetFollowActive(s, on)
    \/ OffDisconnects(s) \/ OffTargets(s) \/ OffDetaches(s) \/ Follow(s)
    \/ \E t \in Tabs : ActiveTab(s, t)
    \/ NoActiveTab(s) \/ AttachActive(s)

RequestNext ==
  \E s \in Slots :
    \/ \E t \in Tabs, calls \in Batches : Rpc(s, t, calls)
    \/ AttachQueried(s) \/ AttachDone(s) \/ ClipboardWritten(s)
    \/ Answered(s) \/ NextCall(s)

Next == LifeNext \/ BridgeNext \/ SwitchNext \/ RequestNext

Spec == Init /\ [][Next]_vars

\* Storage, tabs and debugger answer, timers and the alarm go off, and of
\* ever new attempts to reach a host one succeeds. Nothing makes the worker
\* start or stop, the user click, or a port close.
Fairness ==
  /\ WF_vars(\E l \in loads : Loaded(l)) /\ WF_vars(BootSaves)
  /\ WF_vars(ConnectHello) /\ WF_vars(ConnectDone \/ ConnectFails)
  /\ SF_vars(ConnectDone)
  /\ WF_vars(TimerFires) /\ WF_vars(KeepAliveAlarm)
  /\ \A s \in Slots :
       /\ WF_vars(OffDisconnects(s)) /\ WF_vars(OffTargets(s))
       /\ WF_vars(OffDetaches(s)) /\ WF_vars(Follow(s)) /\ WF_vars(AttachActive(s))
       /\ WF_vars(NoActiveTab(s) \/ \E t \in Tabs : ActiveTab(s, t))
       /\ WF_vars(AttachQueried(s)) /\ WF_vars(AttachDone(s))
       /\ WF_vars(ClipboardWritten(s)) /\ WF_vars(Answered(s)) /\ WF_vars(NextCall(s))

FairSpec == Spec /\ Fairness

-----------------------------------------------------------------------------
(* Properties.                                                             *)

Stages ==
  {"idle", "on.save", "off.save", "off.close", "off.detach", "follow.save", "tab",
   "follow", "activated", "query", "attaching", "offscreen", "sent", "next"}

TaskRecord == [at : Stages, tabs : SUBSET Tabs, calls : Seq(Calls), left : 0..2,
               begunOn : BOOLEAN]

\* A call is being made where one is awaited, and commands remain to be sent
\* where a command will be.
WellFormed(k) ==
  /\ k.at = "next" => Len(k.calls) > 1
  /\ k.at \in {"sent", "offscreen"} => k.calls # <<>>
  /\ k.at \in {"query", "attaching"} /\ k.calls # <<>> => k.left > 0

\* Every variable stays in the set its comment describes.
TypeOK ==
  /\ stored \in State /\ state \in State
  /\ tabState \in [Tabs -> {"new", "open", "gone"}]
  /\ attached \subseteq Tabs /\ attachedTabs \subseteq Tabs
  /\ awake \in BOOLEAN /\ bootTab \in BOOLEAN
  /\ loads \subseteq [by : {"boot", "startup"}, read : State]
  /\ connecting \in {"none", "profile", "hello"}
  /\ nativePort \in {"none", "open", "dead"} /\ reconnectTimer \in BOOLEAN
  /\ tasks \in [Slots -> TaskRecord]
  /\ \A s \in Slots : WellFormed(tasks[s])
  /\ wanted \in BOOLEAN /\ early \in BOOLEAN /\ crossed \in BOOLEAN
  /\ offEffects \subseteq [call : Calls, begunOn : BOOLEAN]
  /\ starts \in Nat /\ toggles \in Nat /\ requests \in Nat /\ reconnects \in Nat

\* One worker has one native host: none is started while another is the
\* bridge or is being greeted (connectInFlight and nativePort in connect).
OneHost == connecting # "none" => nativePort = "none"

\* The switch stays where the user put it, in the worker and in storage,
\* through any stops and starts, as long as no event is handled before the
\* stored state has been loaded (setEnabled, loadState, saveState).
SwitchHolds ==
  ~early => /\ stored.enabled = wanted
            /\ awake /\ loads = {} => state.enabled = wanted

\* When off and all is done, there is no bridge, none is being made or
\* waited for, and no tab has a debugger.
Shut ==
  /\ nativePort = "none" /\ connecting = "none" /\ ~reconnectTimer
  /\ attached = {}

OffAndDone ==
  awake /\ loads = {} /\ ~state.enabled /\ \A s \in Slots : tasks[s] = Idle

\* Switching off shuts everything, unless it crossed an attach or a connect
\* that had looked at the switch before, or the worker was stopped half way,
\* or acted before it had loaded its state: these are the only ways around
\* (setEnabled, connect, ensureDebuggerAttached).
FailClosed == OffAndDone /\ ~early /\ ~crossed => Shut

\* The bridge is closed when off, without the exceptions
\* (vendor/browser_extension/README.md:39: when off, the extension
\* "disconnects the native bridge (fail-closed)").
BridgeClosedWhenOff == OffAndDone => nativePort = "none"

\* A debugger or clipboard call that begins when the switch is off, whatever
\* batch it is part of, changes nothing.
GatedCallsRefused ==
  \A e \in offEffects : e.call \in CdpCalls \cup {"clipboard"} => e.begunOn

\* While the worker runs and the switch is on, a lost or missing bridge is
\* made again, again and again (scheduleReconnect, the keep-alive alarm).
Reconnects == <>[](awake /\ state.enabled) => []<>(nativePort = "open")
=============================================================================
