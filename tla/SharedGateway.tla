--------------------------- MODULE SharedGateway ---------------------------
(***************************************************************************)
(* Which server process runs the gateway (extension_gateway_shared.py,     *)
(* extension_leader_lock.py), and the link of the others to it             *)
(* (extension_gateway_peer.py, extension_gateway_discovery.py).            *)
(*                                                                         *)
(* A lock of the file system has at most one holder and is free again when *)
(* its process ends.  A process decides its role again at every call, and  *)
(* a process that waits for the extension in vain tries to take over.      *)
(***************************************************************************)
EXTENDS Naturals, FiniteSets

CONSTANTS
  Processes,  \* server processes
  NoProcess,
  MaxRoles    \* bound: gateways started

ASSUME SharedAssumption == NoProcess \notin Processes /\ MaxRoles \in Nat

Locks == {"leader", "rescue"}

Gateways == 1..MaxRoles

VARIABLES
  alive,      \* processes that run
  holder,     \* lock -> process that holds it, or NoProcess
  gateway,    \* process -> number of its gateway (_leader), 0 for none
  bound,      \* gateways that have found a port to listen on
  proxy,      \* is_proxy
  waiting,    \* process -> "no", "own", "promote", "rescue" or "taken": its wait_for_connection
  extension,  \* the gateway the extension is connected to, in a set, or none
  peer,       \* process -> "off", "discover", "probe", "hello" or "serve": its client (_peer)
  peerWs,     \* process -> gateway the client's _ws leads to, 0 for none
  sees,       \* _extension_connected
  gateways    \* gateways started so far

roleVars == <<holder, gateway, bound, proxy, gateways>>
clientVars == <<peer, peerWs, sees>>
sharedVars == <<alive, roleVars, waiting, extension, clientVars>>

SharedInit ==
  /\ alive = Processes /\ holder = [k \in Locks |-> NoProcess]
  /\ gateway = [p \in Processes |-> 0] /\ bound = {} /\ proxy = {}
  /\ waiting = [p \in Processes |-> "no"] /\ extension = {} /\ gateways = 0
  /\ peer = [p \in Processes |-> "off"] /\ peerWs = [p \in Processes |-> 0] /\ sees = {}

-----------------------------------------------------------------------------
(* Roles                                                                   *)

\* try_acquire succeeds: the lock is free, or the process has it already.
Acquirable(p, k) == holder[k] \in {NoProcess, p}

\* stop of the peer client and of a gateway; what was connected to it finds out by itself.
StopPeer(p) ==
  /\ peer' = [peer EXCEPT ![p] = "off"] /\ peerWs' = [peerWs EXCEPT ![p] = 0]
  /\ sees' = sees \ {p}
StopGateway(p) ==
  /\ gateway' = [gateway EXCEPT ![p] = 0]
  /\ bound' = bound \ {gateway[p]} /\ extension' = extension \ {gateway[p]}

\* The process takes the lock, ends its peer client, and has a gateway from now on.
Promote(p, k) ==
  /\ holder' = [holder EXCEPT ![k] = p] /\ proxy' = proxy \ {p}
  /\ StopPeer(p)
  /\ IF gateway[p] # 0 THEN UNCHANGED <<gateway, bound, gateways>>
     ELSE /\ gateways < MaxRoles /\ gateways' = gateways + 1
          /\ gateway' = [gateway EXCEPT ![p] = gateways'] /\ UNCHANGED bound
  /\ UNCHANGED extension

\* Mutant: the gateway of a process that was the rescue leader runs on.
DemoteOnly(p) ==
  /\ proxy' = proxy \cup {p}
  /\ peer' = [peer EXCEPT ![p] = IF @ = "off" THEN "discover" ELSE @]
  /\ UNCHANGED <<holder, gateway, bound, extension, gateways, peerWs, sees>>

\* Another process leads: a gateway of this one (a rescue leader's) is stopped, and the
\* peer client runs.  The rescue lock is kept.
Demote(p) ==
  /\ proxy' = proxy \cup {p}
  /\ IF gateway[p] # 0 THEN StopGateway(p) ELSE UNCHANGED <<gateway, bound, extension>>
  /\ peer' = [peer EXCEPT ![p] = IF @ = "off" THEN "discover" ELSE @]
  /\ UNCHANGED <<holder, gateways, peerWs, sees>>

\* _ensure_backend, before every call.
EnsureBackend(p) == IF Acquirable(p, "leader") THEN Promote(p, "leader") ELSE Demote(p)

\* A call: status, rpc_call, cdp_send, pop_event ... of the role's object.
BackendCall(p) ==
  /\ p \in alive /\ waiting[p] = "no" /\ EnsureBackend(p) /\ UNCHANGED <<alive, waiting>>

\* wait_for_connection begins on the object of the role.
WaitBegins(p) ==
  /\ p \in alive /\ waiting[p] = "no" /\ EnsureBackend(p)
  /\ waiting' = [waiting EXCEPT ![p] = "own"] /\ UNCHANGED alive

\* The wait of the object ends: a gateway's with or without the extension, a proxy's
\* when the leader has it, or is said to.  A proxy that waits in vain goes on.
WaitEnds(p) ==
  /\ waiting[p] \in {"own", "taken"}
  /\ p \in proxy => p \in sees \/ peerWs[p] \in extension
  /\ waiting' = [waiting EXCEPT ![p] = "no"]
  /\ UNCHANGED <<alive, roleVars, extension, clientVars>>

ProxyWaitsInVain(p) ==
  /\ waiting[p] = "own" /\ p \in proxy
  /\ waiting' = [waiting EXCEPT ![p] = "promote"]
  /\ UNCHANGED <<alive, roleVars, extension, clientVars>>

\* The leader may be gone by now; if not, a rescue leader is tried.
TryPromotion(p) ==
  /\ waiting[p] = "promote"
  /\ IF Acquirable(p, "leader")
     THEN Promote(p, "leader") /\ waiting' = [waiting EXCEPT ![p] = "taken"]
     ELSE waiting' = [waiting EXCEPT ![p] = "rescue"] /\ UNCHANGED <<roleVars, extension, clientVars>>
  /\ UNCHANGED alive

TryRescue(p) ==
  /\ waiting[p] = "rescue"
  /\ IF Acquirable(p, "rescue")
     THEN Promote(p, "rescue") /\ waiting' = [waiting EXCEPT ![p] = "taken"]
     ELSE waiting' = [waiting EXCEPT ![p] = "no"] /\ UNCHANGED <<roleVars, extension, clientVars>>
  /\ UNCHANGED alive

Released(p) == [k \in Locks |-> IF holder[k] = p THEN NoProcess ELSE holder[k]]

\* stop: both objects and both locks.
StopShared(p) ==
  /\ p \in alive /\ waiting[p] = "no"
  /\ StopPeer(p) /\ StopGateway(p) /\ proxy' = proxy \ {p} /\ holder' = Released(p)
  /\ UNCHANGED <<alive, waiting, gateways>>

\* The process is killed: the system frees its locks.
Killed(p) ==
  /\ p \in alive /\ alive' = alive \ {p}
  /\ StopPeer(p) /\ StopGateway(p) /\ proxy' = proxy \ {p} /\ holder' = Released(p)
  /\ waiting' = [waiting EXCEPT ![p] = "no"] /\ UNCHANGED gateways

-----------------------------------------------------------------------------
(* The gateways and the extension                                          *)

BindPort(p) ==
  /\ gateway[p] \notin bound \cup {0} /\ bound' = bound \cup {gateway[p]}
  /\ UNCHANGED <<alive, holder, gateway, proxy, gateways, waiting, extension, clientVars>>

\* The extension connects to a gateway that listens, or loses its connection.
ExtensionConnects(g) ==
  /\ g \in bound /\ extension = {} /\ extension' = {g}
  /\ UNCHANGED <<alive, roleVars, waiting, clientVars>>
ExtensionLeaves ==
  /\ extension # {} /\ extension' = {}
  /\ UNCHANGED <<alive, roleVars, waiting, clientVars>>

-----------------------------------------------------------------------------
(* The peer client                                                         *)

\* connected, in the status of a gateway and on the page it shows of itself.
StatusOf(g) == g \in extension
WellKnownPage(g) == [gateway |-> g, connected |-> StatusOf(g)]

\* Every port of the range is asked at once; any of the gateways may answer too late.
Answering == SUBSET bound

\* _probe_one reads the page.  _probe_one_ws says hello as a peer and asks for the status;
\* of a gateway that is silent then, the extension is not said to be connected.
HttpClaims(answering) == {WellKnownPage(g) : g \in answering}
WsClaims(answering, silent) ==
  {[gateway |-> g, connected |-> StatusOf(g) /\ g \notin silent] : g \in answering}

\* discover_best_gateway: one that has the extension, and otherwise the newest.
Best(claims) ==
  LET preferred == IF \E c \in claims : c.connected THEN {c \in claims : c.connected} ELSE claims
  IN  {c \in preferred : \A d \in preferred : d.gateway <= c.gateway}

\* What was said of the extension counts until the first poll.
ConnectTo(p, claim) ==
  /\ peer' = [peer EXCEPT ![p] = "hello"] /\ peerWs' = [peerWs EXCEPT ![p] = claim.gateway]
  /\ sees' = IF claim.connected THEN sees \cup {p} ELSE sees \ {p}

\* Only if no page was read,
Discover(p) ==
  /\ peer[p] = "discover"
  /\ \/ /\ peer' = [peer EXCEPT ![p] = "probe"] /\ UNCHANGED <<peerWs, sees>>
     \/ \E answering \in Answering : \E c \in Best(HttpClaims(answering)) : ConnectTo(p, c)
  /\ UNCHANGED <<alive, roleVars, waiting, extension>>

\* the first ports are asked over WebSockets.
DiscoverByWs(p) ==
  /\ peer[p] = "probe"
  /\ \/ /\ peer' = [peer EXCEPT ![p] = "discover"] /\ UNCHANGED <<peerWs, sees>>
     \/ \E answering \in Answering : \E silent \in SUBSET answering :
          \E c \in Best(WsClaims(answering, silent)) : ConnectTo(p, c)
  /\ UNCHANGED <<alive, roleVars, waiting, extension>>

PeerAck(p) ==
  /\ peer[p] = "hello" /\ peerWs[p] \in bound
  /\ peer' = [peer EXCEPT ![p] = "serve"]
  /\ UNCHANGED <<alive, roleVars, waiting, extension, peerWs, sees>>

\* _poll_status, once a second.
PollStatus(p) ==
  /\ peer[p] = "serve" /\ peerWs[p] \in bound
  /\ sees' = IF StatusOf(peerWs[p]) THEN sees \cup {p} ELSE sees \ {p}
  /\ UNCHANGED <<alive, roleVars, waiting, extension, peer, peerWs>>

\* The connection ends with an error: everything is forgotten.
PeerErrs(p) ==
  /\ peer[p] \in {"hello", "serve"}
  /\ peer' = [peer EXCEPT ![p] = "discover"] /\ peerWs' = [peerWs EXCEPT ![p] = 0]
  /\ sees' = sees \ {p}
  /\ UNCHANGED <<alive, roleVars, waiting, extension>>

\* A gateway that stops closes in good order: the loop ends without an error, and _ws
\* and what it said of the extension stay until the next connection.
PeerCloses(p) ==
  /\ peer[p] = "serve" /\ peerWs[p] \notin bound
  /\ peer' = [peer EXCEPT ![p] = "discover"]
  /\ UNCHANGED <<alive, roleVars, waiting, extension, peerWs, sees>>

SharedNext ==
  \/ \E p \in Processes :
       \/ BackendCall(p) \/ WaitBegins(p) \/ WaitEnds(p) \/ ProxyWaitsInVain(p)
       \/ TryPromotion(p) \/ TryRescue(p) \/ StopShared(p) \/ Killed(p) \/ BindPort(p)
       \/ PeerAck(p) \/ PollStatus(p) \/ PeerErrs(p) \/ PeerCloses(p)
       \/ Discover(p) \/ DiscoverByWs(p)
  \/ \E g \in Gateways : ExtensionConnects(g)
  \/ ExtensionLeaves

SharedSpec == SharedInit /\ [][SharedNext]_sharedVars

-----------------------------------------------------------------------------
SharedTypeOK ==
  /\ {alive, proxy, sees} \subseteq SUBSET Processes /\ {bound, extension} \subseteq SUBSET Gateways
  /\ holder \in [Locks -> Processes \cup {NoProcess}]
  /\ gateway \in [Processes -> 0..MaxRoles] /\ gateways \in 0..MaxRoles
  /\ waiting \in [Processes -> {"no", "own", "promote", "rescue", "taken"}]
  /\ peer \in [Processes -> {"off", "discover", "probe", "hello", "serve"}]
  /\ peerWs \in [Processes -> 0..MaxRoles]

\* "Exactly one process becomes the leader" (:17), and one more may be a rescue leader:
\* every gateway belongs to a holder of one of the two locks, so that two run at most;
\* the process with the leader lock has a gateway, also when it got the lock after a
\* rescue; and no process is a proxy besides its own gateway.
GatewaysLocked ==
  /\ \A p \in Processes : gateway[p] # 0 => p \in alive /\ \E k \in Locks : holder[k] = p
  /\ holder["leader"] # NoProcess => gateway[holder["leader"]] # 0
  /\ \A p \in proxy : gateway[p] = 0
=============================================================================
