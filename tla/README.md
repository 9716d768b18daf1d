# Browser MCP: verification project

TLA+ models of the Browser MCP server (`mcp_servers/browser`) and of its Chrome
extension (`vendor/browser_extension`), the instances on which TLC checks them,
and theorems about them that TLAPS proves. Paths of Python files below are
relative to `src/mcp_servers/browser/`; `sw.js` is
`src/vendor/browser_extension/service_worker.js`. Models follow the code; where
a document says something else, see *Findings*.

## 1. The system

An MCP client talks JSON-RPC over stdin/stdout to a *server process* (`main.py`).
In extension mode the server drives the user's own Chrome:

```
 MCP client --stdio--> server process        server process ...
                        NativeExtensionGatewayPeer   (thread + asyncio loop)
                              |  unix socket, found through registry files
                        NativeBroker         (native host, child of the browser)
                              |  native messaging (stdin/stdout frames)
                        service_worker.js    (extension; one JS thread)
                              |  chrome.debugger / chrome.tabs
                            tabs
```

Several server processes share one extension. The browser starts a native host
when the worker opens a port and kills it some seconds after the port is gone,
and stops and restarts the worker as it likes. So every part can vanish under
the others and come back with empty memory.

### Components, state, operations, what is hard, what makes them correct

**Native broker** (`native_broker.py`). State: `_peers` (peer id -> record with
writer and tab subscriptions), `_pending` (global id -> peer id and local id),
`_next_global_id`; the socket's path and the registry entry on disk. Operations:
start (hello/helloAck, bind, register), accept a peer, forward a call under a
global id, answer `gateway.*` calls itself, route results and events, clean up
after a peer, end. Interacts with server processes over a socket and with the
worker over pipes; all its tasks share one event loop. Hard: tasks of an old and
a new connection of one peer id; a peer that goes away while results are written
to it; a host that ends while its successor is starting. Correct when: a result
reaches the call it belongs to and no other; tables match the connections; a
host in use can be found.

**NativeExtensionGatewayPeer** (`extension_gateway_native_peer.py`). State: the
current connection, `_next_id`, `_pending` futures, per-tab event queues, stop
flag, leader lock. Operations: the connect loop (discover, dial, hello, ack, read,
back off), `rpc_call` from any thread, timeouts, `wait_for_event`, `stop`. Hard:
a call that captured a connection that is then replaced; a timeout racing the
answer; a dial that fails between any two awaits. Correct when: a call returns
its own result or raises, once; it ends; the process gets a connection again.

**Broker registry and discovery** (`native_broker_paths.py`,
`native_broker_discovery.py`). State: files. Operations: write, remove, scan and
probe. Hard: files of killed hosts, two hosts of one profile, hosts that change
during a scan. Correct when: a scan picks the newest broker that answers.

**Extension service worker** (`sw.js`). State: the switches `enabled` and
`followActive` (in memory and in `storage.local`), the native port, the reconnect
timer, the cache of attached tabs; the browser holds debugger sessions. Operations:
boot and load, connect with retries, the popup's switches and Reconnect,
tab events, the requests `cdp.*`, `tabs.*`, `clipboard.*`, `rpc.batch`. Hard: every
`await` lets another handler run; the worker may be stopped at any of them.
Correct when: off means off (the README and contract call it a kill switch and
fail-closed), the switch survives restarts, there is one host at a time, and the
bridge comes back.

**Legacy gateway** (`extension_gateway.py`, `extension_gateway_peer.py`,
`extension_gateway_discovery.py`, `extension_gateway_shared.py`,
`extension_leader_lock.py`). WebSocket predecessor of the broker, which only tests
start now (`main.py:101` uses the native peer): one process leads and listens, others
are its peers, file locks decide, a rescue leader may come up. Hard: connection
handlers that end after their connection was replaced; role changes; calls of threads that
another thread's loop sends, over connections that come and go. Correct when: a gateway
belongs to a holder of a lock; a live connection is not cleared by a dead one; a call gets
its own answer or none.

**Session manager and sessions** (`session_manager.py`, `session.py`,
`session_helpers.py`, `session_cdp.py`, `browser_session.py`, `session_tier0.py`,
`telemetry.py`). State: the session tab, a shared session with a reference count,
Tier-0 event buses (a thread per tab), the flag of an open dialog and the threads that
close dialogs, navigation graph, affordances, agent memory, telemetry buffers. Hard:
emergency reset inside a bracket that holds the session; replies and events
interleaved on one socket; two readers of the same events at different speeds; bounded
buffers under readers that keep cursors. Correct when: the shared connection is open
exactly while it is counted; no reply and no event is lost; the flag does not stay set;
the stores keep their bounds and what they should not evict; an action goes to the page
it was found in.

**Flow and run** (`server/flow/`, `server/run/`, `server/reliability/`,
`run/macros.py`). A flow runs steps of tool calls, with retries, waits, dialogs and
recovery between them, over a list that it changes itself. Hard: what is repeated after
which failure; indices kept across expansions; a watchdog stopped too late. Correct
when: a step that may have had an effect is not silently repeated; a run stops where it
should, and its `ok` is earned.

**Tools** (`tools/`, `smart_tools.py`, `server/handlers/unified.py`, `diagnostics.py`,
`net_trace.py`). A tool retries its commands, falls back from one way to another, waits
for what the page does, and reads scripts it has put into the page. Hard: a command that
timed out and is carried out all the same; a page that navigates between two reads; two
directories of downloads; scripts of several releases in one page. Correct when: what a
tool reports is what happened, and it happened once.

**Apps** (`apps/`): insertion by paste, drop and import, judged by screenshots. Correct
when: one copy, unless a strategy could not see its success.

**Launcher, dispatch, recovery** (`launcher.py`, `server/dispatch.py`): Chromes on a
port that something else may hold, slow or hung ones. Correct when: a Chrome that answers
is not left behind, and a recovery ends in the browser it recovered.

**Set-up** (`native_host_installer.py`, `extension_health.py`, `extension_auto_heal.py`,
`main.py`): files written in place by every server that starts. Correct when: what is
left behind works.

**Files** (`agent_memory_persist.py`, `server/artifacts.py`, `runbook.py`): shared by all
servers, which crash when they like. Correct when: the memory file is whole, and an
artifact stays what it was put as.

**Redaction, permissions, configuration, HTTP client**: functions without state.

`PROJECT.json` lists every component with its files and status, and under `hazards`
what can go wrong and a test would hardly reach, each at its line.

## 2. The modules

| Module | Part | Composed in | Proofs |
|--------|------|-------------|--------|
| `NativeBridge`, `RpcService` | broker, server processes, relay to the extension; the promise they keep | `MCNativeBridge` | `NativeBridgeProofs` |
| `ExtensionWorker` | service worker | `MCExtensionWorker` | `ExtensionWorkerProofs` |
| `BrokerRegistry` | files, hosts, discovery | `MCBrokerRegistry` | `StoreProofs` |
| `Flow` | flow and run handler, includes, recording | `MCFlow` | `FlowProofs` |
| `PageInput` | click, type, mouse, form, scroll and their retries | `MCPage` | `PageInputProofs` |
| `PageWait` | navigate, waits, what a tool reports of a navigation | `MCPage` | `PageProofs` |
| `TabSession` | session tab, shared connection, event buses, recovery | `MCPage` | `TabProofs` |
| `Dialogs` | dialogs, their flag, workers and tool | `MCPage` | `TabProofs` |
| `CdpChannel` | commands, replies and events on one WebSocket | `MCPage` | `TabProofs` |
| `Telemetry`, `Filters` | event ingestion, request maps, harLite and its readers; filters on lists | `MCPage` | `PageProofs` |
| `Downloads` | capture of downloads | `MCPage` | `PageProofs` |
| `Observations` | affordances and navigation graph (instance in `MCObservations`) | `MCPage` | `PageProofs` |
| `PageDiagnostics` | the script in the page, its layers and deltas | `MCPage` | `PageProofs` |
| `ResourceTimings` | the list of resources and its caches | `MCPage` | `PageProofs` |
| `AppInsert` | paste, drop, import | `MCPage` | `PageProofs` |
| `Memory` | agent memory, its file and its users | `MCServers` | `StoreProofs` |
| `Artifacts` | artifact directory and outbox | `MCServers` | `StoreProofs` |
| `LegacyGateway` | WebSocket gateway and one peer | `MCServers` | `ServerProofs` |
| `SharedGateway` | who leads, and how the others find it | `MCServers` | `ServerProofs` |
| `PeerLink` | calls by another process's gateway | `MCServers` | `ServerProofs` |
| `Launcher` | Chromes, dispatch checks, recovery | `MCServers` | `ServerProofs` |
| `ExtensionSetup` | installer, health, auto-heal | `MCServers` | `ServerProofs` |
| `BridgeEvents` | browser events on their way to tools | `MCServers` | `TabProofs` |

Each module is a specification of its own. `MCPage` and `MCServers` check several of
them in one run of TLC: their parts share no variable, and a behaviour is one of one
part, named by `focus`, while the others rest in an initial state. So the states of a
composed run are those of its parts side by side, not their product, and each property
means what it means of its part alone.

Where parts of the system interact, one side is in the model of the other as what it may
do: `NativeBridge` has the worker as something that answers on the port it holds,
`ExtensionWorker` the bridge as requests that arrive, `BrokerRegistry` both as the stages
of a host, `Flow` a tool as a call that has its effect, or not, before it returns or
fails, the tools the page as something that acts when it likes.

`PageProofs` and `ServerProofs` also prove that the compositions do what their parts do. Left
for later: the promotion of `ExtensionSetup` and the roles of `SharedGateway` over one leader
lock; auto-launch; network capture in flows.

## 3. What is modelled

### NativeBridge (broker, server processes, relay)

- Broker: `up`, `epoch` (which host), `nextGlobalId`, `pending`, `registered`
  (`_peers`), `srv` (what the task of each connection is doing).
- Process: `link` (where `_run_async` is), `dials` (its connections), `nextId`,
  and per call `unsent`, `writer` (the writer `rpc_call` captured), `outcome`.
- Pipes are *sets* of messages: calls come from any thread and are answered whenever
  their handlers end, so no order among calls is relied upon. The orders that matter
  are kept: the ack precedes results on its connection, end of file comes after what
  was written, connections are accepted in the order they were dialled.
- `running` is the pipe to the extension together with the handlers it started.
  A host that ends leaves any subset of it running: those requests were received.
- `BrokerExit` is end of file on stdin, a frame over the bound, or a kill; a write to
  a process that hung up raises out of the extension loop and also ends the broker
  (`RelayResult`), as the code does (`native_broker.py:194` is not guarded).
- `rpc_call`'s registration of the future and its capture of the writer are one step;
  `_ipc_send` runs later on the loop (`RpcSend`, `RpcSendFails`).
- Left out: events and subscriptions (`BridgeEvents`), ping, log. The last connection a model allows
  does not time out waiting for its ack, so that running out of connections does not
  look like a failure to connect.

`RpcService` is what callers may rely on: a call begins once and then returns its own
result or raises, and nothing happens afterwards.

### ExtensionWorker

One JavaScript thread: a step is what runs between two awaits. `tasks` holds the
activations of asynchronous functions (`Slots` at a time), each with what it awaits.
Storage answers in order, so a save takes effect when issued and a load returns what
was stored when it was issued. `nativeConnected` and `nativeHandshakeOk` are assigned
with `nativePort` everywhere and are merged with it; the `"dead"` port is one that is
held but disconnected by the worker itself. Debugger sessions and storage survive a
stop of the worker; variables, timers, activations and the port do not. `detachAll`
takes its snapshot and detaches it in one step. Left out: forwarding of events, logs
and pings, the focused tab and badge, a restart of the browser.

History variables, which the code does not have: `wanted` (the switch as the user set
it), `early` (an event was handled before the stored state was loaded), `crossed`
(switching off crossed an attach, a connect, or a stop), `offEffects` (calls that
changed the browser while off).

### BrokerRegistry

Hosts are numbered in the order they start, which is what `brokerStartedAtMs` orders.
A host goes through `started`, `bound`, `registered`, `serving`, `closing`,
`unregistered`, `done`, and may be killed at any point, leaving its files. Hosts of a
profile share two paths: `sock` and `info` say who wrote them last. `extPort` is the
host the extension has a port to; a host whose port is gone goes on until it reads
end of file. A server process scans (`ScanStart`, one `ScanEntry` per entry with its
probe, `ScanDone`), dials, and starts over when its connection ends. Unlinking the
stale path and binding are one step. Left out: the overrides
`MCP_NATIVE_BROKER_SOCKET` and `MCP_NATIVE_BROKER_ID`, profile ids that sanitise to
one file name, a registry entry read while half written (it fails to parse and counts
as absent). Killing is external: the browser and the operating system do it.

The models are of the code under Python 3.10 to 3.12.0. From 3.12.1 on,
`Server.wait_closed()` waits for open connections, so a host that is ending lingers
longer in `closing`; every behaviour of the model remains possible.

### BridgeEvents

The events of one tab: sent by the worker, broadcast by the host to the records that have
the tab in their subscriptions, read by each process into its queue, popped by its tools.
A call about the tab subscribes the record of the connection by which it came. Dials, ends
of hosts and of connections are as in `NativeBridge`, with a record that the late end of
an older connection takes away (`HostSeesEnd`). After a reconnect a process gets nothing
until it names the tab again; a tab's queue is never cleared. A wait is a repeated
`pop_event`.

### Flow

`program` and `opts` are what `run()` was called with; `list` is the one list object that
`run()`, `flow()` and the expansions share, `cursor` the index in it. The loop's places
(`phase`) are: take a step, expand or refuse it, guard, attempt (with `dog`, the watchdog,
on or off), examine the result, second attempt, report. Dialogs open at any time; the
watchdog may abort the step, or, stopped too late, the next (`stray`). `when`, `repeat`,
`macro` put steps behind the cursor; `includes` is the stack of memory keys with their end
markers. A recovery lets `run()` call `flow()` again at the next index. History: `sent`,
`again` (dispatches), `hit`, `hitAgain` (effects), failures.

The model keeps some behaviour that may surprise. Irreversible `js` steps may be dispatched
twice with `auto_dialog` on: the guard of repetition is about clicks and typing. The
irreversible guard of `run()` looks at top-level steps only (`run/handler.py:75`; the
definition at `definitions_unified.py:1324` says otherwise), and what is recorded is the
expanded list (`run/handler.py:252`, against `:1361`). A click that opens a dialog is
clicked again (`flow/handler.py:2038`, against the comment at 1924). Missing values and
refused guards ignore `optional`. The `ok` of a run that recovered speaks of its last
segment. Internal conditions run without watchdog, and in extension mode aborting the
connection does nothing. Left out: payloads, network capture, step proofs, automatic
switching of tabs (that is in `TabSession`).

### PageInput

`call` is served by a ladder of tools (`tool`), each with attempts, each attempt with
batches of commands (`todo`); `wire` are commands handed over and not yet carried out, of
which those with `mine` are still waited for: a command that timed out stays on the wire
and may be carried out later. `doubts` counts failed attempts that had handed over the
command the call is for; the properties about "once" are about calls without doubts. That
excludes the fallback of `unified.py:257` ("only if not clicked") after a click that timed
out, a submit repeated by the retry of a form, text typed twice after a late `insertText`,
and a button left down by a late press in direct mode. Scoring and scripts are left out.

### PageWait

The page commits documents, changes its URL, loads, opens dialogs; events travel to the
connection and stay in its queue. `handle_click` and `handle_navigate` read the URL, act,
poll or wait. `stale` notes that signs of an earlier navigation were still there when the
tool acted: a stale load event satisfies `wait(load)`, and a navigation of the last ten
seconds in the telemetry makes `page_changed` true. Known and excluded by the properties'
premises: a fresh connection per tool can miss a commit; `page_changed` is false at once if
the URL could not be read; reloading the same URL is no change.

### TabSession

`tabs` come and go; `opening` is the `get_session` at work, `plan` what a tab call or a
recovery has still to do. `frames` are the nested `shared_session` blocks, `lines` the
connection opened at each depth. `strayed` (history) are tabs whose bus may be left behind:
a session tab that was given up by a lookup, or the old tab of a run after a switch. A
failed list of tabs reads as "tab closed"; an activation that fails in direct mode fails
the call after the session has moved. Within a run tools stay on the tab the run began
with, although `docs/RUN_GUIDE.md:7` says that it switches to a new tab
(`ActsOnSessionTab` states it, and no run checks it). Not in the model:
`_maybe_shared_session` yields twice when its body raises (`tools/page/triage.py:15`), which
masks the error.

### Dialogs

Events of dialogs are numbered; bus and run each read all of them at their own speed and
write one flag. Workers close dialogs out of band, at most one per 500 ms; the run drains
its queue; the dialog tool reads the flag, acts and notes. `lost` (history): the bus missed
events while it enabled its domains. `Settled`: everybody has read everything. Until then a
late `note_dialog_closed` may clear the flag of a newer dialog, and a dialog within 500 ms
of a handled one gets no worker.

### CdpChannel

One socket, ids, a bounded queue, a sink; methods are steps of `doing`: send, receive until
the reply, wait for an event, drain, pop. `abort` may come from another thread at any
step. `ChannelDelivers` is the conjunction of `RepliesMatch` (a command returns its own
reply) and `EventsOnce` (each event is given to the sink once and in order, and to callers
or the queue, except for those cut from a full queue).

### Telemetry

Requests go through stages with redirects; `_req` and `_req_done` are bounded maps in
insertion order; `harLite` a bounded buffer with millisecond times. One reader takes deltas
with a cursor and may clear; another lists records and looks them up. Exceptions that the
property names: entries pushed in the very millisecond of a cursor are never reported, and
those between snapshot and clear are lost. Left out: the other buffers, which are alike.
Filters on lists are those of `Filters`: `SelectSeq` by the indices of what passes, so that
facts about them can be proved.

### Downloads

Two directories, `.crdownload` files that are renamed, a baseline, a wait with polls.
`CapturedIsNew` is about what is reported. Not excluded, and seen while modelling: a file
that vanishes between the listing and its `stat` aborts the capture (`PollTrips`); at the
deadline a candidate is returned though it is not stable; a download of another tab in the
default directory may be reported; a `.crdownload` hides complete files.

### Observations

`look` is an observation that takes several requests, `act` an act step; documents and
addresses are different things (`Address`), so that a reload shows. The graph has nodes and
edges with times. `Orderly` says that the page stands still during the act step and that what is known was
stored under the URL it was found at: the URL of the affordances is read after the
locators, and a page without locators leaves the old mapping. `act(ref)` found stale is refreshed and not tried again. Labels are those of
`LabelOf`. Pages, addresses and links are parameters.

### PageDiagnostics and ResourceTimings

The script of each release is a layer over the one before; only the lowest has buffers.
Servers attach, check, install, register for new documents, read deltas with cursors.
`ErrorsRecordedOnce` is about the buffers. That a delta has all new errors does not hold,
whatever `docs/AGENT_PLAYBOOK.md:150` says (`DeltaHasNewErrors` states it, no run checks
it): a failed request is recorded with the time of its beginning, and errors of the old
document are lost with it. A limit of 0 means 50. `ResourceTimings` has the one-second
cache of the list with a sorted copy per order. Vitals, insights and long tasks are left
out.

### AppInsert

A call goes through strategies, each judged by a screenshot before and after; copies appear
at once, later (`due`), or never. `unseen` (history): calls one of whose attempts worked and
was given up. With `strategy: auto` and `verify: false` an SVG is pasted and also dropped.
In extension mode an old chooser event may be taken for a new one.

### Memory and Artifacts

`Memory`: each server's store, its limits and evictions, import and export, and the save of
the entries (sensitive ones only if allowed): open the temporary file, write, replace,
with a crash between any two; one temporary file for all servers. Two servers saving at once can
write a broken file, and a save overwrites another server's keys, though the file's
docstring says atomic; `tangled` names that. The load at start ignores the limits.
`Artifacts`: put writes the content, then the description, both in place; get, list, delete
and export as the code has them. An id is kind, millisecond and process: `reused` names two
puts in one. A crash leaves files that nobody lists, or an entry without content; the check
for an existing export and the copy are two steps, so that two servers may overwrite one
another's.

### LegacyGateway, SharedGateway and PeerLink

`LegacyGateway`: handlers of connections, hello and ack, calls of the own process and of a
peer, events with subscriptions and bounded queues. `lateEnd` and `lateLink` (history) name
the late ends after which the gateway has lost the newer connection
(`extension_gateway.py:594`, 628, 646, 733). `SharedGateway`: roles are decided at every
call; leader and rescue locks; waits for the extension; the peer client and its connection.
A rescue leader is demoted by the next call (`extension_gateway_shared.py:52`) and keeps the
rescue lock; a peer keeps `_ws` when its connection ends without an exception
(`extension_gateway_peer.py:333`). Discovery asks the gateways' pages and, if none was read,
says hello over WebSockets; what was said then of the extension counts until the first poll.
`PeerLink` is the client: its task from dialling to the end of a connection, the threads'
calls with the moment at which each takes `_ws`, what the loop has still to send, futures
under their ids, and the gateway's handler as far as a client can tell: it greets, serves one
request after the other, and ends. A call that took `_ws` before the hello was sent does not
get ahead of it, for the loop runs what threads hand to it only when its task waits; `strangers`
(history) would say otherwise.

### Launcher

Ports, Chromes with states, the handle of the last one started; `launchStep` is where a
call is, a probe after the other. `answerless` (history): Chromes that ran and did not
answer when the launch looked. `ensure_running` overwrites the handle of a launch that
timed out or of a hung Chrome: it is never stopped. Extension mode only waits for its
connection in these paths and is not modelled; a recovery's tabs are one number.

### ExtensionSetup

The wrapper and a manifest per browser, written in place by each server that starts, and by
the healer. Two targets stand for seven browsers. One good manifest hides the missing one of
the browser in use from the health check (`docs/TROUBLESHOOTING.md:134` promises
drift healing); a truncated wrapper is never healed, since health only looks whether it
exists; an older install can overwrite a newer one's ids (`overlapped`). Auto-launch and the
Windows variant are left out.

## 4. Runs

| Run | Question | Instance | States |
|-----|----------|----------|--------|
| `bridge_service` | Is the bridge `RpcService`, and is every answer the call's own? | 2 processes (symmetric), 1 call and 3 connections each, 1 host | 1.05 M |
| `bridge_liveness` | Do calls end and processes reconnect? | 1 process, 2 calls, 3 connections, 2 hosts | 95 k |
| `worker_requests` | Do requests and batches respect the switch, and does off shut everything? | 1 request of those in `SomeBatches`, 2 activations, 2 clicks, 1 Reconnect, 1 life | 5.5 M |
| `worker_reconnect` | Does the switch survive restarts, and does the bridge come back? | 2 lives, 2 clicks, no Reconnect | 83 k |
| `registry` | Can the host in use be found, and is it? | 3 hosts, 2 profiles, 1 process | 681 k |
| `flow` | What is dispatched, how often, and does a run end? | 9 programs, 9 sets of options, 1 recovery, 1 dialog | 478 k |
| `page` | The eleven parts of `MCPage` | see below | 2.9 M |
| `servers` | The eight parts of `MCServers` | see below | 3.5 M |
| `registry_lost`, `flow_stop`, `download_missed`, `act_elsewhere` | *Findings*, section 6 | smallest that shows it | 0.5 k to 34 k |

Bounds. Every bound is a constant that guards the actions which would exceed it; the
`.cfg` files give their values.

- *Bridge, worker, registry.* An answer can go to the wrong call between processes (two,
  with equal local ids), between calls of a process (two over one counter), and between
  connections and lives of a host. A process that has to reconnect after a reconnect needs
  three connections. The switch needs off and on beside one other activation, and a stop
  between its steps two lives. Three hosts give one that was killed, one that is ending and
  one that starts; two profiles a choice for discovery.
- *Flow.* Programs of two and three steps, with a branch, a loop that runs twice, an include
  that includes itself, a required download, an internal dialog step, a nested flow, a
  check, an irreversible click: each kind of step before and after another kind. The list
  may grow to five (`MaxTotalSteps`).
- *Page.* Each part has two of what can get into the other's way, and a history that is
  longer by one than what it takes to be mixed up: two navigations and two waits; three
  tabs and blocks three deep; two dialogs and two workers; two commands and three events
  over a queue of two; two requests with a redirect over buffers of one; two files and two
  steps; two documents and two moves, a graph of two nodes; two servers of
  different releases and two documents; two calls of an app. States of the parts: input
  15 k, wait 636 k, tab 331 k, dialog 175 k, channel 27 k, telemetry 189 k, download 214 k,
  observation 358 k, diagnostics 521 k, resources 21 k, app 300 k.
- *Servers.* Two servers, one crash (memory: two keys, limits 1 and 2; artifacts: two puts
  in two milliseconds); two connections and two links of a gateway; three processes over two
  gateways; two Chromes and three calls; two set-ups, two targets, one mishap; two
  processes, two events, two dials and one end of the host; one call and one poll over two
  connections and two starts of a client (with a second call, 9.3 M states of this part alone,
  the property holds too). States: memory 258 k, gateway 560 k, shared 265 k, launcher 32 k,
  set-up 98 k, events 1.1 M, artifacts 1.1 M, link 171 k.

For what section 5 proves the bounds do not matter. Deadlock is not checked: a run ends,
and systems come to rest when the bounds are used up.

### Properties

Each is stated in words above its definition and has a mutant in `PROJECT.json`: a
plausible slip in a modelled definition that the same run then reports.

| Part | Properties |
|------|------------|
| bridge | `AnswersMatch`, `ImplementsService`, `EveryCallEnds`, `Reconnects` |
| worker | `SwitchHolds`, `FailClosed`, `GatedCallsRefused`, `Reconnects` |
| registry | `FoundUnlessOverlapped`, `NewestIsChosen`, `PeersConnect` |
| flow | `IrreversibleOnce`, `OkMeansAllSent`, `PastIsFixed`, `FlowEnds` |
| input | `OnceUnlessInDoubt`, `OkMeansDone` (the submit too comes after the whole text) |
| wait | `NavigationNotMissed`, `ChangedUnlessStale` |
| tab, dialog, channel | `NothingLeaks` (`SharedBalanced`, `BusesFollowSession`); `NoLastingAlarm`; `ChannelDelivers` |
| telemetry, download | `DeltasAreComplete`, `RecordsOneRequest`; `CapturedIsNew` |
| observation | `GraphIsClosed`, `ActsOnWhatIsShown` |
| diagnostics, resources, app | `ErrorsRecordedOnce`; `ListIsCurrent`; `OneCopyUnlessUnseen` |
| memory, artifacts | `FileIsLastSave`; `ArtifactsStay` |
| gateway, shared, link | `HeldUnlessLateEnd`; `GatewaysLocked`; `AnswersReachCallers` |
| launcher, set-up, events | `StraysDidNotAnswer`; `SetupIsWhole`; `EventsReachSubscribers` |

`PageTypeOK` and `ServersTypeOK` are the types of the part in focus. Properties that are stated
and proved but that no run repeats: the type invariants of bridge, worker, registry and flow,
`IdTranslation`, `PendingIsOwned`, `NewestIsRegistered`, `OneHost`, `IncludesEnd`,
`ChecksStop`.

Many properties have a proviso (`tangled`, `lateEnd`, `strayed`, `doubts`, `unseen`, ...):
a history variable set at the step of the code that breaks the plain statement. The
provisos are the findings of the models; what they exclude is described in section 3.

### Fairness

*Bridge*: tasks that are ready run (broker tasks, connect loop, `_ipc_send`), and an
extension handler ends: asyncio and the browser schedule them. None on timeouts, on
starts and ends of hosts, on stops, on calls being made.
*Worker*: promises of the browser's API settle; the timer and the keep-alive alarm
fire; and, strongly, an attempt to connect that is made again and again succeeds at
some time (a host that never answers can never be connected to). None on events, on
requests, on losing ports, on stops.
*Registry*: hosts go on with their start and, when their port is gone, with their end;
processes go on scanning and dialling. None on starting or killing hosts or on
dropping ports.
*Flow*: the loop goes on; a tool that hangs is ended by its watchdog, and one that does
not returns. None on dialogs, on the page, on failures. The other parts state safety only:
their callers decide whether anything goes on.

## 5. Proofs

Eight modules hold theorems, for every set of processes, tabs, servers, profiles, programs
and every bound, from the assumptions beside the constants: bounds are numbers, `Batches`
are non-empty sequences of calls, `Owners` are functions from hosts to profiles, a value
that stands for "none" is not one of the others. `PROJECT.json` lists them with the
properties they state.

- *Bridge.* `TypeCorrect`. `TranslationCorrect`: the invariant is the conjunction of
  `IdsAllocated` (ids in use are below the counter), `EntriesMatch` (an entry and a
  request with its id are about one call), `DeliveriesMatch` (a result on its way to a
  process carries its own call's local id) and `DownIsEmpty`; `AnswersMatch` alone says
  nothing about what is still on its way and is not inductive. `PendingOwned` and
  `NewestRegistered` rest on one invariant with `ServedInOrder`: connections of a
  process begin to be served in the order in which they were dialled.
- *Refinement.* `ServiceImplemented`: with `MaxBrokers = 1`, `Spec => Service!Spec`.
  It needs that everything in flight has the port of the one host (`HostNumbers`) and
  that calls that were not made have left no trace (`NotBegun`). With two hosts it is
  false: a handler that outlives its port answers on the next (section 6).
- *Worker.* `TypeCorrect`, with the shape of activations; `OneHostAtATime`, inductive
  by itself given the types. `SwitchKept`: while no event was handled early, what a
  pending load will return is what the user wanted. `GateHolds`: an activation that is
  about to send a guarded command began its call while on. `FailsClosed`: while off,
  whatever is still open is on the list of an activation of `setEnabled` that has not
  finished, or the history has a `crossed`.
- *Registry.* `TypeCorrect`. `InUseIsFound`: the extension's port goes to the host that
  started last, and a listening host that did not overlap is alone in its profile and
  owns what it has written. `DiscoveryIsRight`: during a scan without changes, the best
  so far is the newest of the entries already visited.
- *Flow.* `FlowTypeCorrect`; `IrreversibleDispatchedOnce`, `EveryIncludeEnds`,
  `FailedCheckStops`, `PastNeverChanges`. The invariant adds to those properties `Untried`
  (the step at the cursor has not been dispatched before its first attempt, and is tried
  again only if it may be), `DispatchedWhileCalled` (a step that is called has been noted)
  and `StoppedByCheck` (a failed check has ended the loop). Expansion is the hard part: it moves what is ahead of
  the cursor and nothing else. `OkCorrect`: as long as there was no error, every tool step
  before the cursor has been sent, and no more entries are reported than steps of the plan
  were reached (`Counted`), so that a report with as many entries as steps comes at the end
  of the list. A refused optional macro is reported without its steps, hence the proviso.
- *Memory.* `FileIsWhole`: as long as no two servers have been writing together, the
  temporary file is that of the one server that saves, and whole once written (`OneWriter`).
- *Artifacts.* `ArtifactsAreKept`. An id is stamped with a time and a process (`Stamped`),
  so that unless two puts share one, a half-put artifact belongs to one call that nobody
  else sees (`WritersAlone`, `WritersHalf`); what can be found is complete (`FoundIsWhole`),
  and what a call in progress has opened was found (`ReadersFound`).
- *Gateways.* `GatewaysAreLocked`, with types and `WaitersRun`. `HeldCorrect`: as long as no
  handler ended late, `_ws` and the record are those of the newest connection
  (`LastHelloHeld`, `LastLinkHeld`).
- *Calls of a peer.* `AnswersCorrect`: ids are given once (`IdsOnce`), what is on a wire was
  asked under its id (`WiresInv`), and a future is found under its call's (`FuturesFound`);
  connections are open one after the other (`OneOpen`) and begin with the greeting
  (`GreetFirst`, `Begun`). `AnswersReachCallers` says nothing about the wires and is not
  inductive.
- *Input.* `OnceCorrect`: a call without doubts is `Straight` (the command it is for has been
  sent once, or is still among the batches at one place, at the beginning of one) or types by
  characters (`InChars(k)`: k batches of them are left). `DoneCorrect`: what a call is for is
  still to be sent, awaited or done, whatever became of earlier attempts (`Due`); who presses
  has the release behind it, in a batch or on the wire (`Settled`); a text that is awaited is
  awaited alone, so that a failure loses nothing else (`WireFits`). Both start from what each
  tool sends (`Shapes`), and the length of it is what one handing over does to batches and wire
  (`HandFacts`).
- *Launcher.* `StraysCorrect`: who is not owned, or is about to be replaced, was asked
  (`OthersAsked`, `OwnedAsked`); a recovery forgets the session before it opens another
  (`RecoverForgets`).
- *Tab session.* `SharedCorrect`: connections are opened at the depth of their block
  (`OwnersOpen`), only while none is open (`OpeningAlone`), and the count is the number of
  blocks from the owner's on (`Balanced`). `BusesCorrect`: inductive by itself.
  `SessionCorrect`: both.
- *Set-up.* `SetupCorrect`: as long as nothing was disturbed, what is not as it should be
  somebody will still write (`WrapperCared`, `ManifestsCared`), and without an overlap only
  one server writes, the ids that were found last (`NewestWrites`).
- *Channel.* `ChannelCorrect`: what the sink has seen and what the socket still holds are the
  events in the order they were emitted (`SocketInOrder`), and the queue rises, above what
  was cut from it (`QueueInOrder`), so that each event is in one place. What makes it long is
  the queue: one event taken from its midst, or the older half cut, and the rest moved up.
- *Dialogs.* `AlarmsEnd`: a flag without a dialog has something ahead that ends it
  (`AlarmIsPending`), because the closing of an opening that is still queued is queued behind
  it (`ClosingsFollow`); a drain takes an opening before a closing, so that what it takes second
  closes nothing that is left (`ClosingFirst`).
- *Browser events.* `EventsDelivered`: what has come, is coming and is being broadcast rises
  in this order (`InOrder`), so nothing comes twice; whoever has subscribed has been sent what
  has left the pipe since, or the last of it is still to be sent (`Covered`); what is left of
  a name in the queue is newer than what a tool has taken of it (`Takes`).
- *Downloads.* `CapturesCorrect`: what was complete stays so (`OldAreComplete`) and is among
  what the wait does not look at (`OldAreKnown`), so that no candidate is an old file; what
  earlier steps captured is old (`CapturedAreOld`).
- *Observations.* `ActsCorrect`: a step dispatches what is stored (`ActsOnKnown`), and what
  is stored was stored under the address in the tab unless it was found stale (`FreshIsShown`).
  `GraphCorrect`: needs that nodes were seen before the observation that is on (`LookTyped`),
  for only then the newest ones that are kept have the page itself among them.
- *Waits.* `NoNavigationMissed`: until the tool takes it, a navigation since the click has an
  event queued or coming, and in a round in which none came for the top frame it is a change
  of URL in the queue or is seen in the frame (`SignsAreLeft`, `BaseIsOld`). `ChangesAreReal`:
  while the page stands still there is no sign that it does not (`NoFalseSigns`). Both rest on
  lemmas about the first event of a kind in a queue, from the least element of a set of
  numbers (`LeastOf`).

- *Insertions.* `OneCopyCorrect`: as long as a call tries, it has brought about nothing that
  was seen (`NothingYet`).
- *Resource timings.* `ListCorrect`: what is kept is the beginning of what the page has
  (`CacheIsPrefix`), and a sorted copy is one of what is kept (`CopiesOf`).
- *Telemetry.* `DeltasCorrect`: entries rise with their times (`HarOrdered`), and those later
  than the reader's cursor are newer than all it was given (`NewAreUngiven`).
  `RecordsCorrect`: what the first map has of a request is of its last hop (`HopNow`), and a
  request ends once, so that the second has one record of it and what a trace has seen of it
  stays (`FinishedOnce`, `TracedStays`). An event of a request the maps no longer know is
  recorded without a hop.
- *Diagnostics.* `ErrorsCorrect`: the bottom layer alone has buffers (`BottomKeeps`), with the
  newest of what was raised since there has been a layer (`BottomHasAll`); the rest is
  arithmetic: a buffer cut to its last entries, and one more, is the last of a list with one
  more (`LastGrows`), and a filter of a list with one more entry has it last or not at all
  (`FilteredGrows`).
- *Types and bounds.* A theorem for each part (`TabTypeCorrect`, `TelemetryTypeCorrect`, ...).
  The invariants above have only what they need of the types; these have the rest: each
  counter, queue and buffer stays within its bound, and each sequence consists of what it
  should. Bounds on what is pushed need why there is so little of it: an entry of harLite is
  of one request that is over (`HarBounds`), a broadcast has one receiver per dial
  (`LinkBounds`), handlers and noters of dialogs share their number (`DialogBounds`).
- *Composition.* The parts that `MCPage` and `MCServers` put side by side share no variable,
  and a step of the composition is one of the part in focus and stutters for the others. So
  each behaviour of the composition is one of every part (`PageOfParts`, `ServersOfParts`), and
  what is proved of a part is proved of the specification that the run checks: the types
  (`PageTypesCorrect`, `ServersTypesCorrect`) and all safety properties (`PageIsSafe`,
  `ServersAreSafe`).

What the types need of the constants: `MaxEventQueue` is positive (2000 in the code; with 0
the event that comes last is cut at once), there is a browser to install for (`Targets # {}`;
the installer's list has some on every platform), and the bounds of the models on time and
documents let the initial states in, which have one document and the time 1.

Only model-checked: the liveness properties (fairness and ENABLED are out of the prover's
reach), and that the mutants are caught. Every safety property that a passing run checks is a
theorem. No module uses a recursive operator.

## 6. Findings

Statements of the documents and comments that the code does not keep; each has a run whose
counterexample shows it.

1. `registry_lost` (`native_broker.py:381`): a host that ends removes the files of its
   successor. Reproduced with two real brokers: closing the first one's stdin leaves the
   second running with neither socket nor registry entry.
2. `flow_stop` (`flow/handler.py:2265`): with `stop_on_error` a tool that fails does not
   stop the flow.
3. `download_missed` (`tools/downloads.py:370`): an empty baseline is taken for none, so that
   a download that is complete before the wait is not found.
4. `act_elsewhere` (`flow/handler.py:647`): the URL that an act step compares with is what
   `navigate` was asked for, and a stale action is dispatched on another page.

Met in the models of bridge and worker, where the properties name them: a handler that
outlives its port answers on the next one, where its id belongs to another call (`sw.js:452`;
`AnswersMatch` is about answers on the port of the request); the end of a replaced connection
removes the record of the one that replaced it (`native_broker.py:273`; the premise of
`EveryCallEnds`); Reconnect disconnects a port whose listener the browser does not call then,
and the bridge stays down (`sw.js:831`; `worker_reconnect` is without it); a connect under
way when the switch goes off brings the bridge up while off (`sw.js:400`; `crossed`); a click
that wakes the worker may be lost when the load returns (`sw.js:228`; `early`); `tabs.*`
requests are not guarded by the switch (`sw.js:607`).

Stated in a module without a run: `ActsOnSessionTab` (`TabSession`), `DeltaHasNewErrors`
(`PageDiagnostics`); the other behaviour that a reader of the documents would not expect
is listed under its module in section 3.

## 7. Not modelled

- *Extension pages*: they send the messages that `ExtensionWorker` takes as inputs.
- *Redaction, permissions, configuration, HTTP client*: pure rules on strings and pure I/O.
- *Vendored websocket client, bundled extension binaries*: third-party code.
- *Within modelled components*: auto-launch (off by default), Windows variants, logging and
  pings, the expansion of macros other than includes, the payloads of steps and reports,
  network capture and the insights of traces, vitals and audits, single-command tools
  (cookies, storage, screenshots, frames), the scoring of elements and the JavaScript that
  extracts contents. They compute without keeping state; unit tests reach them. This is why
  every component with state is "partly" modelled.

## 8. Running

In this directory: `tlc -config page.cfg MCPage` (and so on; the runs name their modules in
`PROJECT.json`), `tlapm StoreProofs.tla`. The long runs take some three minutes each with two
workers.
