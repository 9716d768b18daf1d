---------------------------- MODULE NativeBridge ----------------------------
(***************************************************************************)
(* The portless bridge: MCP server processes (NativeExtensionGatewayPeer)  *)
(* share one browser extension through the native host (NativeBroker).     *)
(*                                                                         *)
(* A server process numbers its calls with a counter of its own; the       *)
(* broker gives every forwarded call a global id, remembers which peer id  *)
(* and local id it stands for, and routes the extension's rpcResult back.  *)
(* Broker, server processes and extension each lose and regain the others: *)
(* the broker is a child process of the browser and starts from scratch,   *)
(* a server process dials again under the same peer id, and the extension  *)
(* answers on whatever port it holds when a handler finishes.              *)
(*                                                                         *)
(* A message's content is abstracted to the call it was made for. A pipe   *)
(* is the set of the messages in it: a call is sent by any of a process's  *)
(* threads and answered whenever its handler finishes, so no order between *)
(* calls is relied upon.  What is ordered is kept: the acknowledgement     *)
(* precedes the results, and end of file follows what was written before.  *)
(***************************************************************************)
EXTENDS Naturals

CONSTANTS
  Peers,        \* server processes, each with its peer id
  MaxConns,     \* bound: connections one process opens
  MaxCalls,     \* bound: calls one process makes
  MaxBrokers    \* bound: native hosts the browser starts

ASSUME BoundsAssumption ==
  /\ MaxConns \in Nat \ {0}
  /\ MaxCalls \in Nat \ {0}
  /\ MaxBrokers \in Nat \ {0}

Conn == Peers \X (1..MaxConns)     \* <<p, k>>: the k-th connection of p
Call == Peers \X (1..MaxCalls)     \* <<p, n>>: the call p numbered n
Method == {"forward", "local"}     \* "local": the gateway.* methods

VARIABLES
  \* NativeBroker
  up,            \* a native host is running
  epoch,         \* how many have been started
  nextGlobalId,  \* _next_global_id
  pending,       \* _pending, as the set of its entries [gid, call]
  registered,    \* _peers: peer id -> connection of its record, 0 if absent
  srv,           \* what the broker's task of a connection is doing
  \* pipes
  toBroker,      \* connection -> local ids of the calls in it
  acked,         \* connections whose peerHelloAck was written
  toPeer,        \* connection -> rpcResult messages in it
  hungUp,        \* connections the server process has closed
  running,       \* requests sent to the extension and not yet answered
  replies,       \* rpcResult messages between extension and broker
  \* NativeExtensionGatewayPeer
  link,          \* where _run_async is
  dials,         \* connections opened so far; the last one is current
  nextId,        \* _next_id
  unsent,        \* calls whose _ipc_send has not run yet
  writer,        \* call -> the connection rpc_call captured
  method,        \* call -> its method
  outcome,       \* call -> what rpc_call did; "open" is "in _pending"
  answers        \* history: the results that resolved a call

brokerVars == <<up, epoch, nextGlobalId, pending, registered, srv>>
pipeVars   == <<toBroker, acked, toPeer, hungUp, running, replies>>
callVars   == <<nextId, unsent, writer, method, outcome, answers>>
peerVars   == <<link, dials, callVars>>
vars       == <<brokerVars, pipeVars, peerVars>>

Current(p) == <<p, dials[p]>>
Alive(c)   == c \notin hungUp /\ srv[c] # "closed"

-----------------------------------------------------------------------------
(* Initially the browser runs no native host and nobody has called.        *)

Init ==
  /\ up = FALSE /\ epoch = 0 /\ nextGlobalId = 1 /\ pending = {}
  /\ registered = [p \in Peers |-> 0]
  /\ srv = [c \in Conn |-> "none"]
  /\ toBroker = [c \in Conn |-> {}] /\ toPeer = [c \in Conn |-> {}]
  /\ acked = {} /\ hungUp = {} /\ running = {} /\ replies = {}
  /\ link = [p \in Peers |-> "idle"] /\ dials = [p \in Peers |-> 0]
  /\ nextId = [p \in Peers |-> 1]
  /\ unsent = {} /\ answers = {}
  /\ writer = [a \in Call |-> 0]
  /\ method = [a \in Call |-> "forward"]
  /\ outcome = [a \in Call |-> "none"]

-----------------------------------------------------------------------------
(* The broker process.                                                     *)

\* Mutant: the first global id is 0.
BrokerStartFromZero ==
  /\ ~up /\ epoch < MaxBrokers
  /\ up' = TRUE /\ epoch' = epoch + 1 /\ nextGlobalId' = 0
  /\ UNCHANGED <<pending, registered, srv, pipeVars, peerVars>>

\* run(): a new native host takes the extension's hello and starts with
\* empty tables and global id 1.
BrokerStart ==
  /\ ~up /\ epoch < MaxBrokers
  /\ up' = TRUE /\ epoch' = epoch + 1 /\ nextGlobalId' = 1
  /\ UNCHANGED <<pending, registered, srv, pipeVars, peerVars>>

\* The process ends: its tables go, its tasks are cancelled and close their
\* connections, and the pipes to and from the extension break. The extension
\* has received some of the requests in the pipe and keeps running those.
Terminate ==
  /\ up' = FALSE
  /\ pending' = {} /\ replies' = {}
  /\ registered' = [p \in Peers |-> 0]
  /\ srv' = [c \in Conn |-> IF srv[c] = "none" THEN "none" ELSE "closed"]
  /\ toBroker' = [c \in Conn |-> {}]
  /\ running' \in SUBSET running
  /\ UNCHANGED <<epoch, nextGlobalId>>

\* The extension's port closes (end of file, or a frame over 8 MB on stdin),
\* or the host process is killed.
BrokerExit ==
  /\ up
  /\ Terminate
  /\ UNCHANGED <<acked, toPeer, hungUp, peerVars>>

Register(c) ==
  registered' = [registered EXCEPT ![c[1]] = c[2]]

\* _handle_peer_connection: the record of the new connection replaces any the
\* peer id had; writing the acknowledgement to a peer that has hung up
\* raises, and then the record stays while the connection is closed.
\* Connections are accepted, and their hellos read, in the order they came.
BrokerHello(c) ==
  /\ srv[c] = "accepted"
  /\ \A k \in 1..(c[2] - 1) : srv[<<c[1], k>>] # "accepted"
  /\ Register(c)
  /\ \/ /\ c \notin hungUp
        /\ srv' = [srv EXCEPT ![c] = "serving"]
        /\ acked' = acked \cup {c}
     \/ /\ c \in hungUp
        /\ srv' = [srv EXCEPT ![c] = "closed"]
        /\ UNCHANGED acked
  /\ UNCHANGED <<up, epoch, nextGlobalId, pending, toBroker, toPeer, hungUp,
                 running, replies, peerVars>>

\* Mutant: the outstanding mappings are not dropped.
CleanupKeepsPending(c) ==
  /\ registered' = [registered EXCEPT ![c[1]] = 0]
  /\ srv' = [srv EXCEPT ![c] = "closed"]
  /\ UNCHANGED pending

\* The finally block of _peer_loop: both tables are cleaned by peer id.
Cleanup(c) ==
  /\ registered' = [registered EXCEPT ![c[1]] = 0]
  /\ pending' = {r \in pending : r.call[1] # c[1]}
  /\ srv' = [srv EXCEPT ![c] = "closed"]

\* Mutant: the number is handed out again.
AllocateAgain == nextGlobalId' = nextGlobalId

AllocateGlobalId == nextGlobalId' = nextGlobalId + 1

\* _peer_dispatch of a call for the extension: allocate, remember, forward.
BrokerForward(c, n) ==
  /\ srv[c] = "serving" /\ n \in toBroker[c]
  /\ method[<<c[1], n>>] = "forward"
  /\ toBroker' = [toBroker EXCEPT ![c] = @ \ {n}]
  /\ AllocateGlobalId
  /\ pending' = pending \cup {[gid |-> nextGlobalId, call |-> <<c[1], n>>]}
  /\ running' = running \cup
                  {[gid |-> nextGlobalId, of |-> <<c[1], n>>, port |-> epoch]}
  /\ UNCHANGED <<up, epoch, registered, srv, acked, toPeer, hungUp, replies,
                 peerVars>>

\* _peer_dispatch of a gateway.* call: answered on this connection without
\* the extension. Writing to a peer that has hung up ends the peer loop.
BrokerLocal(c, n) ==
  /\ srv[c] = "serving" /\ n \in toBroker[c]
  /\ method[<<c[1], n>>] = "local"
  /\ \/ /\ c \notin hungUp
        /\ toBroker' = [toBroker EXCEPT ![c] = @ \ {n}]
        /\ toPeer' = [toPeer EXCEPT ![c] = @ \cup
             {[id |-> n, of |-> <<c[1], n>>, port |-> epoch, via |-> epoch]}]
        /\ UNCHANGED <<pending, registered, srv>>
     \/ /\ c \in hungUp
        /\ Cleanup(c)
        /\ toBroker' = [toBroker EXCEPT ![c] = {}]
        /\ UNCHANGED toPeer
  /\ UNCHANGED <<up, epoch, nextGlobalId, acked, hungUp, running, replies,
                 peerVars>>

\* _peer_loop reads end of file once it has dispatched what came before it.
BrokerSeesHangUp(c) ==
  /\ srv[c] = "serving" /\ c \in hungUp /\ toBroker[c] = {}
  /\ Cleanup(c)
  /\ UNCHANGED <<up, epoch, nextGlobalId, pipeVars, peerVars>>

\* _handle_extension_message, rpcResult of no known global id, or of a peer
\* that has no record: dropped.
RelayDrop(m) ==
  /\ m \in replies
  /\ \A r \in pending : r.gid = m.gid => registered[r.call[1]] = 0
  /\ replies' = replies \ {m}
  /\ pending' = {r \in pending : r.gid # m.gid}
  /\ UNCHANGED <<up, epoch, nextGlobalId, registered, srv, toBroker, acked,
                 toPeer, hungUp, running, peerVars>>

\* The same with a record: the result goes to the connection registered for
\* the peer id now. Writing to a dead one raises through _extension_loop and
\* run(), and the host exits.
RelayResult(m) ==
  /\ m \in replies
  /\ \E r \in pending :
       LET p == r.call[1]
           c == <<p, registered[p]>>
       IN /\ r.gid = m.gid
          /\ registered[p] # 0
          /\ \/ /\ Alive(c)
                /\ replies' = replies \ {m}
                /\ pending' = {s \in pending : s.gid # m.gid}
                /\ toPeer' = [toPeer EXCEPT ![c] = @ \cup
                     {[id |-> r.call[2], of |-> m.of, port |-> m.port,
                       via |-> epoch]}]
                /\ UNCHANGED <<up, epoch, nextGlobalId, registered, srv,
                               toBroker, running>>
             \/ /\ ~Alive(c)
                /\ Terminate
                /\ UNCHANGED toPeer
  /\ UNCHANGED <<acked, hungUp, peerVars>>

-----------------------------------------------------------------------------
(* The extension (service_worker.js): handlers run concurrently; rpcReply  *)
(* posts to the port of the moment, and drops the reply when there is none.*)

ExtReply(x) ==
  /\ x \in running
  /\ running' = running \ {x}
  /\ replies' = IF up THEN replies \cup {x} ELSE replies
  /\ UNCHANGED <<brokerVars, toBroker, acked, toPeer, hungUp, peerVars>>

-----------------------------------------------------------------------------
(* The connection loop of a server process (_run_async).                   *)

\* discover_best_broker finds the host; _connect_once opens a connection and
\* writes peerHello under the process's one peer id.
PeerDial(p) ==
  /\ link[p] = "idle" /\ up /\ dials[p] < MaxConns
  /\ dials' = [dials EXCEPT ![p] = @ + 1]
  /\ link' = [link EXCEPT ![p] = "dialing"]
  /\ srv' = [srv EXCEPT ![<<p, dials[p] + 1>>] = "accepted"]
  /\ UNCHANGED <<up, epoch, nextGlobalId, pending, registered, pipeVars,
                 callVars>>

PeerAck(p) ==
  /\ link[p] = "dialing" /\ Current(p) \in acked
  /\ link' = [link EXCEPT ![p] = "up"]
  /\ UNCHANGED <<brokerVars, pipeVars, dials, callVars>>

\* No acknowledgement within a second: close and go round again. A process
\* on its last connection of the model waits for the acknowledgement.
PeerAckTimeout(p) ==
  /\ link[p] = "dialing"
  /\ dials[p] < MaxConns
  /\ link' = [link EXCEPT ![p] = "idle"]
  /\ hungUp' = hungUp \cup {Current(p)}
  /\ UNCHANGED <<brokerVars, toBroker, acked, toPeer, running, replies,
                 dials, callVars>>

\* End of file before the acknowledgement.
PeerDialFails(p) ==
  /\ link[p] = "dialing" /\ Current(p) \notin acked
  /\ srv[Current(p)] = "closed"
  /\ link' = [link EXCEPT ![p] = "idle"]
  /\ hungUp' = hungUp \cup {Current(p)}
  /\ UNCHANGED <<brokerVars, toBroker, acked, toPeer, running, replies,
                 dials, callVars>>

\* _on_message, rpcResult: resolves the future of its id if there is one.
PeerReceive(c, m) ==
  LET a == <<c[1], m.id>>
  IN /\ link[c[1]] = "up" /\ c = Current(c[1]) /\ m \in toPeer[c]
     /\ toPeer' = [toPeer EXCEPT ![c] = @ \ {m}]
     /\ \/ /\ outcome[a] = "open"
           /\ outcome' = [outcome EXCEPT ![a] = "answered"]
           /\ answers' = answers \cup
                {[call |-> a, of |-> m.of, port |-> m.port, via |-> m.via]}
        \/ /\ outcome[a] # "open"
           /\ UNCHANGED <<outcome, answers>>
     /\ UNCHANGED <<brokerVars, toBroker, acked, hungUp, running, replies, link,
                    dials, nextId, unsent, writer, method>>

\* Mutant: the futures are left to their timeouts.
FailPendingNever(p) == UNCHANGED outcome

FailPending(p) ==
  outcome' = [a \in Call |-> IF a[1] = p /\ outcome[a] = "open"
                             THEN "failed" ELSE outcome[a]]

\* _shutdown_async: close the socket and fail every future in _pending.
Shutdown(p, next) ==
  /\ link' = [link EXCEPT ![p] = next]
  /\ hungUp' = IF dials[p] = 0 THEN hungUp ELSE hungUp \cup {Current(p)}
  /\ FailPending(p)
  /\ UNCHANGED <<brokerVars, toBroker, acked, toPeer, running, replies, dials,
                 nextId, unsent, writer, method, answers>>

\* Mutant: end of file ends the receive loop but nothing is torn down.
PeerSeesEofStays(p) ==
  /\ link[p] = "up"
  /\ srv[Current(p)] = "closed" /\ toPeer[Current(p)] = {}
  /\ UNCHANGED vars

\* The broker closed the connection, and everything it wrote has been read.
PeerSeesEof(p) ==
  /\ link[p] = "up"
  /\ srv[Current(p)] = "closed" /\ toPeer[Current(p)] = {}
  /\ Shutdown(p, "idle")

\* _read_ipc_message gives None for a frame over _MAX_FRAME_BYTES, which the
\* receive loop takes for end of file.
PeerRejectsFrame(p) ==
  /\ link[p] = "up" /\ toPeer[Current(p)] # {}
  /\ Shutdown(p, "idle")

\* stop(), or the process ends.
PeerStop(p) ==
  /\ link[p] # "stopped"
  /\ Shutdown(p, "stopped")

-----------------------------------------------------------------------------
(* rpc_call, on the caller's thread.                                       *)

\* With a socket: take the writer, the next local id, and a future.
RpcCall(p, m) ==
  /\ link[p] = "up" /\ nextId[p] <= MaxCalls
  /\ LET a == <<p, nextId[p]>>
     IN /\ outcome' = [outcome EXCEPT ![a] = "open"]
        /\ method' = [method EXCEPT ![a] = m]
        /\ writer' = [writer EXCEPT ![a] = dials[p]]
        /\ unsent' = unsent \cup {a}
  /\ nextId' = [nextId EXCEPT ![p] = @ + 1]
  /\ UNCHANGED <<brokerVars, pipeVars, link, dials, answers>>

\* _ipc_send on the loop's thread, even when the caller has given up since.
RpcSend(a) ==
  LET c == <<a[1], writer[a]>>
  IN /\ a \in unsent /\ Alive(c) /\ link[a[1]] # "stopped"
     /\ unsent' = unsent \ {a}
     /\ toBroker' = [toBroker EXCEPT ![c] = @ \cup {a[2]}]
     /\ UNCHANGED <<brokerVars, acked, toPeer, hungUp, running, replies, link,
                    dials, nextId, writer, method, outcome, answers>>

\* Writing to a connection that is gone raises in rpc_call.
RpcSendFails(a) ==
  /\ a \in unsent /\ ~Alive(<<a[1], writer[a]>>)
  /\ unsent' = unsent \ {a}
  /\ outcome' = [outcome EXCEPT ![a] = IF @ = "open" THEN "failed" ELSE @]
  /\ UNCHANGED <<brokerVars, pipeVars, link, dials, nextId, writer, method,
                 answers>>

\* The caller's timeout: rpc_call raises and its finally block forgets the id.
RpcTimeout(a) ==
  /\ outcome[a] = "open"
  /\ outcome' = [outcome EXCEPT ![a] = "failed"]
  /\ UNCHANGED <<brokerVars, pipeVars, link, dials, nextId, unsent, writer,
                 method, answers>>

-----------------------------------------------------------------------------
BrokerNext ==
  \/ BrokerStart \/ BrokerExit
  \/ \E c \in Conn : BrokerHello(c) \/ BrokerSeesHangUp(c)
  \/ \E c \in Conn : \E n \in toBroker[c] :
       BrokerForward(c, n) \/ BrokerLocal(c, n)
  \/ \E m \in replies : RelayDrop(m) \/ RelayResult(m)

ExtNext == \E x \in running : ExtReply(x)

PeerNext ==
  \/ \E p \in Peers :
       \/ PeerDial(p) \/ PeerAck(p) \/ PeerAckTimeout(p) \/ PeerDialFails(p)
       \/ PeerSeesEof(p) \/ PeerRejectsFrame(p) \/ PeerStop(p)
  \/ \E c \in Conn : \E m \in toPeer[c] : PeerReceive(c, m)

RpcNext ==
  \/ \E p \in Peers, m \in Method : RpcCall(p, m)
  \/ \E a \in Call : RpcSend(a) \/ RpcSendFails(a) \/ RpcTimeout(a)

Next == BrokerNext \/ ExtNext \/ PeerNext \/ RpcNext

Spec == Init /\ [][Next]_vars

\* Tasks and threads that are ready run, and extension handlers finish.
\* Nothing makes a host start or exit, a process stop, an acknowledgement
\* come late, a caller time out or a frame be too long.
Fairness ==
  /\ \A c \in Conn :
       /\ WF_vars(BrokerHello(c)) /\ WF_vars(BrokerSeesHangUp(c))
       /\ \A n \in 1..MaxCalls :
            WF_vars(BrokerForward(c, n)) /\ WF_vars(BrokerLocal(c, n))
       /\ WF_vars(\E m \in toPeer[c] : PeerReceive(c, m))
  /\ WF_vars(\E m \in replies : RelayDrop(m) \/ RelayResult(m))
  /\ WF_vars(ExtNext)
  /\ \A p \in Peers :
       /\ WF_vars(PeerDial(p)) /\ WF_vars(PeerAck(p))
       /\ WF_vars(PeerDialFails(p)) /\ WF_vars(PeerSeesEof(p))
  /\ \A a \in Call : WF_vars(RpcSend(a) \/ RpcSendFails(a))

FairSpec == Spec /\ Fairness

-----------------------------------------------------------------------------
(* Properties.                                                             *)

Request == [gid : Nat, of : Call, port : Nat]
Result  == [id : 1..MaxCalls, of : Call, port : Nat, via : Nat]

\* Every variable stays in the set its comment describes.
TypeOK ==
  /\ up \in BOOLEAN /\ epoch \in Nat /\ nextGlobalId \in Nat \ {0}
  /\ pending \subseteq [gid : Nat, call : Call]
  /\ registered \in [Peers -> 0..MaxConns]
  /\ srv \in [Conn -> {"none", "accepted", "serving", "closed"}]
  /\ toBroker \in [Conn -> SUBSET (1..MaxCalls)]
  /\ toPeer \in [Conn -> SUBSET Result]
  /\ acked \subseteq Conn /\ hungUp \subseteq Conn
  /\ running \subseteq Request /\ replies \subseteq Request
  /\ link \in [Peers -> {"idle", "dialing", "up", "stopped"}]
  /\ dials \in [Peers -> 0..MaxConns]
  /\ \A p \in Peers : link[p] \in {"dialing", "up"} => dials[p] # 0
  /\ nextId \in [Peers -> 1..(MaxCalls + 1)]
  /\ unsent \subseteq Call
  /\ writer \in [Call -> 0..MaxConns]
  /\ method \in [Call -> Method]
  /\ outcome \in [Call -> {"none", "open", "answered", "failed"}]
  /\ answers \subseteq [call : Call, of : Call, port : Nat, via : Nat]

\* What a call returns is the result of that call and of no other, through
\* reconnections, retirements of tables and late replies, as long as the
\* extension answered on the port it was asked on (NativeBroker's id
\* translation, rpc_call's futures).
AnswersMatch == \A a \in answers : a.port = a.via => a.of = a.call

\* Every request and reply belongs to a host that has been started, and a
\* global id of the present host has been allocated by it.
IdsAllocated ==
  /\ \A r \in pending : r.gid < nextGlobalId
  /\ \A x \in running \cup replies :
       x.port <= epoch /\ (x.port = epoch => x.gid < nextGlobalId)

\* A request or reply of the present host and the entry with its global id
\* are about the same call.
EntriesMatch ==
  \A r \in pending : \A x \in running \cup replies :
    x.port = epoch /\ x.gid = r.gid => x.of = r.call

\* A result on its way to a process has the local id of its own call.
DeliveriesMatch ==
  \A c \in Conn : \A m \in toPeer[c] :
    m.port = m.via => m.of = <<c[1], m.id>>

\* Without a host nothing is outstanding and no connection is attended to.
DownIsEmpty ==
  ~up => pending = {} /\ \A c \in Conn : srv[c] \in {"none", "closed"}

\* Why AnswersMatch holds: global ids are not reused within one host
\* (NativeBroker's id translation).
IdTranslation ==
  IdsAllocated /\ EntriesMatch /\ DeliveriesMatch /\ DownIsEmpty /\ AnswersMatch

\* The same without the proviso (native_broker.py: "multiplexes many peers
\* into a single extension connection with id translation").
AnswersMatchAcrossPorts == \A a \in answers : a.of = a.call

\* A peer id with outstanding entries in _pending has a connection whose
\* loop will remove them when it ends: nothing is kept for a process that
\* has gone.
PendingIsOwned ==
  \A r \in pending : \E k \in 1..MaxConns : srv[<<r.call[1], k>>] = "serving"

\* Results and events of a peer id never go to a connection older than one
\* of the same peer id that is being served.
NewestIsRegistered ==
  \A p \in Peers : \A k \in 1..MaxConns :
    registered[p] # 0 /\ srv[<<p, k>>] = "serving" => k <= registered[p]

\* A process whose connection was acknowledged and is being served can be
\* reached (contracts/extension_bridge.md: peerHelloAck "confirms peer
\* connection").
ServedIsRegistered ==
  \A p \in Peers :
    link[p] = "up" /\ srv[Current(p)] = "serving" => registered[p] = dials[p]

\* Every rpc_call ends without its timeout, unless a connection that is being
\* served is unregistered: when the answer cannot come any more, the
\* connection it was asked on is seen to be gone.
EveryCallEnds ==
  []ServedIsRegistered =>
    \A a \in Call : outcome[a] = "open" ~> outcome[a] # "open"

\* While a native host keeps running, every process gets and keeps a
\* connection, unless it stops (or uses up the connections of the model).
Reconnects ==
  \A p \in Peers :
    <>[](up /\ dials[p] < MaxConns) =>
      <>[](\/ link[p] = "stopped"
           \/ link[p] = "up" /\ srv[Current(p)] = "serving")

-----------------------------------------------------------------------------
\* What callers see, as the service that RpcService describes.
Service == INSTANCE RpcService WITH
  answers <- {[call |-> a.call, of |-> a.of] : a \in answers}

\* With one native host, the bridge is that service: a call is answered at
\* most once, with its own result, or fails.
ImplementsService == Service!Spec
=============================================================================
