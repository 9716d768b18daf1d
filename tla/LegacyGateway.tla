--------------------------- MODULE LegacyGateway ---------------------------
(***************************************************************************)
(* The WebSocket gateway of extension_gateway.py: one listener, the        *)
(* extension that connects to it (and connects again before the end of its *)
(* former connection is noticed), calls of the server's own process, and a *)
(* peer process whose calls go through the gateway.                        *)
(*                                                                         *)
(* A handler coroutine serves one connection; between its awaits the other *)
(* handlers run.  A message of the extension is the reply to a call        *)
(* ([reply |-> id]) or an event of a tab ([event |-> tab]).  Logs, pings   *)
(* and the HTTP discovery page keep no state.                              *)
(***************************************************************************)
EXTENDS Naturals, Sequences, FiniteSets

CONSTANTS
  GatewayTabs,      \* tab ids
  MaxConnections,   \* bound: connections of the extension
  MaxLinks,         \* bound: connections of the peer
  MaxGatewayCalls,  \* bound: calls
  MaxGatewayEvents, \* bound: events sent by the extension
  MaxGatewayQueue   \* _max_events_per_tab

ASSUME GatewayAssumption ==
  {MaxConnections, MaxLinks, MaxGatewayCalls, MaxGatewayEvents, MaxGatewayQueue} \subseteq Nat \ {0}

Connections == 1..MaxConnections
Links == 1..MaxLinks
CallIds == 1..MaxGatewayCalls

VARIABLES
  listening,  \* "no" (bind is being retried), "yes" or "stopped"
  ws,         \* _ws: the connection calls are sent on, 0 for none
  connected,  \* the event _connected
  handler,    \* connection -> "unused", "open" (waits for hello), "ack", "serving" or "over"
  wsOpen,     \* connection -> open at the extension's side
  inbox,      \* connection -> messages of the extension not yet received
  calls,      \* id -> connection it goes by (0: no such call yet), link of the peer it is
              \* for (0: the server's own), sent, outcome
  pending,    \* _pending: ids of calls without outcome
  peerLink,   \* peer's connection -> "unused", "serving", "busy" or "over"
  linkOpen,   \* peer's connection -> open at the peer's side
  record,     \* _peers[peer_id]: the connection events are forwarded on, 0 for none
  subscribed, \* tabs of that record
  queues,     \* _event_queues: number of events of a tab
  forwarded,  \* events sent to the peer, as [link, tab]
  eventsSent, \* events sent by the extension
  \* history
  newest,     \* connection that said hello last
  newestLink, \* and of the peer's
  lateEnd,    \* since then, another handler of the extension ended or failed
  lateLink    \* and of the peer

extensionSide == <<handler, wsOpen, inbox, newest, lateEnd>>
gateState == <<listening, ws, connected>>
gatewayCalls == <<calls, pending>>
peerSide == <<peerLink, linkOpen, record, subscribed, newestLink, lateLink>>
eventVars == <<queues, forwarded, eventsSent>>
gatewayVars ==
  <<gateState, extensionSide, gatewayCalls, peerSide, eventVars>>

NoGatewayCall == [on |-> 0, for |-> 0, sent |-> FALSE, outcome |-> "none"]

GatewayInit ==
  /\ listening = "no" /\ ws = 0 /\ connected = FALSE
  /\ handler = [i \in Connections |-> "unused"] /\ wsOpen = [i \in Connections |-> FALSE]
  /\ inbox = [i \in Connections |-> <<>>]
  /\ calls = [c \in CallIds |-> NoGatewayCall] /\ pending = {}
  /\ peerLink = [j \in Links |-> "unused"] /\ linkOpen = [j \in Links |-> FALSE]
  /\ record = 0 /\ subscribed = {}
  /\ queues = [t \in GatewayTabs |-> 0] /\ forwarded = {} /\ eventsSent = 0
  /\ newest = 0 /\ newestLink = 0 /\ lateEnd = FALSE /\ lateLink = FALSE

-----------------------------------------------------------------------------
(* The listener                                                            *)

\* A port of the range is free.  If none is, the bind is tried again later.
Bind ==
  /\ listening = "no" /\ listening' = "yes"
  /\ UNCHANGED <<ws, connected, extensionSide, gatewayCalls, peerSide, eventVars>>

\* Calls without outcome fail when the gateway forgets its connection.
GatewayDisconnect ==
  /\ ws' = 0 /\ connected' = FALSE /\ pending' = {}
  /\ calls' = [c \in CallIds |->
                 IF c \in pending THEN [calls[c] EXCEPT !.outcome = "error"] ELSE calls[c]]

\* stop: no new connections, every socket is closed, and the handlers find that out.
Shutdown ==
  /\ listening # "stopped" /\ listening' = "stopped"
  /\ GatewayDisconnect
  /\ wsOpen' = [i \in Connections |-> FALSE] /\ linkOpen' = [j \in Links |-> FALSE]
  /\ lateEnd' = TRUE
  /\ UNCHANGED <<handler, inbox, newest, peerLink, record, subscribed, newestLink, lateLink,
                 eventVars>>

-----------------------------------------------------------------------------
(* Connections of the extension                                            *)

Connect(i) ==
  /\ listening = "yes" /\ handler[i] = "unused" /\ \A k \in 1..(i - 1) : handler[k] # "unused"
  /\ handler' = [handler EXCEPT ![i] = "open"] /\ wsOpen' = [wsOpen EXCEPT ![i] = TRUE]
  /\ UNCHANGED <<gateState, inbox, newest, lateEnd, gatewayCalls, peerSide, eventVars>>

\* The extension's side closes, or the worker is gone; what it sent still arrives.
SocketCloses(i) ==
  /\ wsOpen[i] /\ wsOpen' = [wsOpen EXCEPT ![i] = FALSE]
  /\ UNCHANGED <<gateState, handler, inbox, newest, lateEnd, gatewayCalls, peerSide,
                 eventVars>>

\* No hello within its time, or a first message that is none.
HelloRefused(i) ==
  /\ handler[i] = "open" /\ handler' = [handler EXCEPT ![i] = "over"]
  /\ wsOpen' = [wsOpen EXCEPT ![i] = FALSE]
  /\ UNCHANGED <<gateState, inbox, newest, lateEnd, gatewayCalls, peerSide, eventVars>>

\* Mutant: a connection that is already there is kept.
KeepsFormer(i) == ws' = IF ws = 0 THEN i ELSE ws

\* Replace active client.  The former connection is not closed.
ReplacesFormer(i) == ws' = i

Hello(i) ==
  /\ handler[i] = "open" /\ listening = "yes"
  /\ handler' = [handler EXCEPT ![i] = "ack"]
  /\ ReplacesFormer(i) /\ connected' = FALSE
  /\ newest' = i /\ lateEnd' = FALSE
  /\ UNCHANGED <<listening, wsOpen, inbox, gatewayCalls, peerSide, eventVars>>

AckSent(i) ==
  /\ handler[i] = "ack" /\ handler' = [handler EXCEPT ![i] = "serving"]
  /\ connected' = TRUE
  /\ UNCHANGED <<listening, ws, wsOpen, inbox, newest, lateEnd, gatewayCalls, peerSide, eventVars>>

\* helloAck could not be sent: _ws is cleared, whichever connection it is by now.
AckFails(i) ==
  /\ handler[i] = "ack" /\ ~wsOpen[i]
  /\ handler' = [handler EXCEPT ![i] = "over"]
  /\ ws' = 0 /\ connected' = FALSE
  /\ lateEnd' = TRUE
  /\ UNCHANGED <<listening, wsOpen, inbox, newest, gatewayCalls, peerSide, eventVars>>

\* The receive loop ends; its finally disconnects the gateway, whichever connection it has.
LoopEnds(i) ==
  /\ handler[i] = "serving" /\ ~wsOpen[i] /\ inbox[i] = <<>>
  /\ handler' = [handler EXCEPT ![i] = "over"]
  /\ GatewayDisconnect
  /\ lateEnd' = TRUE
  /\ UNCHANGED <<listening, wsOpen, inbox, newest, peerSide, eventVars>>

-----------------------------------------------------------------------------
(* Calls                                                                   *)

\* A call takes the connection and an id that was never used.
TakesCall(c, j) ==
  /\ calls[c] = NoGatewayCall /\ \A k \in 1..(c - 1) : calls[k] # NoGatewayCall
  /\ ws # 0
  /\ calls' = [calls EXCEPT ![c] = [NoGatewayCall EXCEPT !.on = ws, !.for = j]]
  /\ pending' = pending \cup {c}

\* rpc_call of the gateway's own process; without a connection it is refused at once.
ServerCall(c) ==
  /\ TakesCall(c, 0)
  /\ UNCHANGED <<gateState, extensionSide, peerSide, eventVars>>

CallEnds(c, outcome) ==
  /\ calls' = [calls EXCEPT ![c].outcome = outcome, ![c].sent = TRUE]
  /\ pending' = pending \ {c}

\* The message leaves on the connection taken, also when the call has failed since.
SendCall(c) ==
  /\ calls[c].on # 0 /\ ~calls[c].sent
  /\ \/ calls' = [calls EXCEPT ![c].sent = TRUE] /\ UNCHANGED pending
     \/ ~wsOpen[calls[c].on] /\ CallEnds(c, "error")
  /\ UNCHANGED <<gateState, extensionSide, peerSide, eventVars>>

CallTimesOut(c) ==
  /\ c \in pending /\ calls[c].sent /\ CallEnds(c, "error")
  /\ UNCHANGED <<gateState, extensionSide, peerSide, eventVars>>

\* The extension replies on the connection the call came by, once.
ExtensionReplies(c) ==
  LET i == calls[c].on
  IN  /\ calls[c].sent /\ wsOpen[i] /\ [reply |-> c] \notin {inbox[i][n] : n \in 1..Len(inbox[i])}
      /\ calls[c].outcome = "none"
      /\ inbox' = [inbox EXCEPT ![i] = Append(@, [reply |-> c])]
      /\ UNCHANGED <<gateState, handler, wsOpen, newest, lateEnd, gatewayCalls, peerSide,
                     eventVars>>

ExtensionEmits(i, t) ==
  /\ wsOpen[i] /\ handler[i] = "serving" /\ eventsSent < MaxGatewayEvents
  /\ eventsSent' = eventsSent + 1
  /\ inbox' = [inbox EXCEPT ![i] = Append(@, [event |-> t])]
  /\ UNCHANGED <<gateState, handler, wsOpen, newest, lateEnd, gatewayCalls, peerSide,
                 queues, forwarded>>

IsReply(m) == "reply" \in DOMAIN m

\* _on_message, rpcResult: a reply nobody waits for is dropped.
ReceiveReply(i) ==
  /\ handler[i] = "serving" /\ inbox[i] # <<>> /\ IsReply(Head(inbox[i]))
  /\ inbox' = [inbox EXCEPT ![i] = Tail(@)]
  /\ LET c == Head(inbox[i]).reply
     IN  IF c \in pending THEN \E o \in {"ok", "error"} : CallEnds(c, o) ELSE UNCHANGED gatewayCalls
  /\ UNCHANGED <<gateState, handler, wsOpen, newest, lateEnd, peerSide, eventVars>>

\* _on_message, cdpEvent: to the bounded queue of the tab, and to the subscribed peer.
ReceiveEvent(i) ==
  /\ handler[i] = "serving" /\ inbox[i] # <<>> /\ ~IsReply(Head(inbox[i]))
  /\ inbox' = [inbox EXCEPT ![i] = Tail(@)]
  /\ LET t == Head(inbox[i]).event
     IN  /\ queues' = [queues EXCEPT ![t] = IF @ = MaxGatewayQueue THEN @ ELSE @ + 1]
         /\ forwarded' = IF record # 0 /\ t \in subscribed
                         THEN forwarded \cup {[link |-> record, tab |-> t]} ELSE forwarded
  /\ UNCHANGED <<gateState, handler, wsOpen, newest, lateEnd, gatewayCalls, peerSide,
                 eventsSent>>

\* pop_event and wait_for_event, of the server or of the peer.
PopQueued(t) ==
  /\ queues[t] > 0 /\ queues' = [queues EXCEPT ![t] = @ - 1]
  /\ UNCHANGED <<gateState, extensionSide, gatewayCalls, peerSide, forwarded, eventsSent>>

-----------------------------------------------------------------------------
(* The peer                                                                *)

\* The peer connects, again under the same id once its side has lost the former link.
PeerHello(j) ==
  /\ listening = "yes" /\ peerLink[j] = "unused"
  /\ \A k \in 1..(j - 1) : peerLink[k] # "unused" /\ ~linkOpen[k]
  /\ peerLink' = [peerLink EXCEPT ![j] = "serving"] /\ linkOpen' = [linkOpen EXCEPT ![j] = TRUE]
  /\ record' = j /\ subscribed' = {}
  /\ newestLink' = j /\ lateLink' = FALSE
  /\ UNCHANGED <<gateState, extensionSide, gatewayCalls, eventVars>>

LinkCloses(j) ==
  /\ linkOpen[j] /\ linkOpen' = [linkOpen EXCEPT ![j] = FALSE]
  /\ UNCHANGED <<gateState, extensionSide, gatewayCalls, peerLink, record, subscribed,
                 newestLink, lateLink, eventVars>>

\* A request that names a tab subscribes the record to it.
Subscribes(tabs) == subscribed' = IF record # 0 THEN subscribed \cup tabs ELSE subscribed

\* A request of the peer: requests of one link are served one after the other.
PeerCall(j, c, tabs) ==
  /\ peerLink[j] = "serving" /\ linkOpen[j] /\ Subscribes(tabs)
  /\ TakesCall(c, j)
  /\ peerLink' = [peerLink EXCEPT ![j] = "busy"]
  /\ UNCHANGED <<gateState, extensionSide, linkOpen, record, newestLink, lateLink, eventVars>>

\* Without a connection the request fails.
PeerRefused(j, tabs) ==
  /\ peerLink[j] = "serving" /\ linkOpen[j] /\ ws = 0 /\ Subscribes(tabs)
  /\ UNCHANGED <<gateState, extensionSide, gatewayCalls, peerLink, linkOpen, record,
                 newestLink, lateLink, eventVars>>

\* gateway.waitForConnection and gateway.waitForEvent hold the link up.
PeerWaits(j) ==
  /\ peerLink[j] = "serving" /\ linkOpen[j] /\ peerLink' = [peerLink EXCEPT ![j] = "busy"]
  /\ UNCHANGED <<gateState, extensionSide, gatewayCalls, linkOpen, record, subscribed,
                 newestLink, lateLink, eventVars>>

\* The reply goes back, if the peer is still there.
PeerServed(j) ==
  /\ peerLink[j] = "busy" /\ \A c \in CallIds : calls[c].for = j => calls[c].outcome # "none"
  /\ peerLink' = [peerLink EXCEPT ![j] = "serving"]
  /\ UNCHANGED <<gateState, extensionSide, gatewayCalls, linkOpen, record, subscribed,
                 newestLink, lateLink, eventVars>>

\* The loop of a link ends, and takes the record of the peer with it.
LinkEnds(j) ==
  /\ peerLink[j] = "serving" /\ ~linkOpen[j]
  /\ peerLink' = [peerLink EXCEPT ![j] = "over"]
  /\ record' = 0 /\ subscribed' = {} /\ lateLink' = TRUE
  /\ UNCHANGED <<gateState, extensionSide, gatewayCalls, linkOpen, newestLink, eventVars>>

GatewayNext ==
  \/ Bind \/ Shutdown
  \/ \E i \in Connections :
       \/ Connect(i) \/ SocketCloses(i) \/ HelloRefused(i) \/ Hello(i) \/ AckSent(i) \/ AckFails(i)
       \/ LoopEnds(i) \/ ReceiveReply(i) \/ ReceiveEvent(i)
       \/ \E t \in GatewayTabs : ExtensionEmits(i, t)
  \/ \E c \in CallIds : ServerCall(c) \/ SendCall(c) \/ CallTimesOut(c) \/ ExtensionReplies(c)
  \/ \E t \in GatewayTabs : PopQueued(t)
  \/ \E j \in Links :
       \/ PeerHello(j) \/ LinkCloses(j) \/ PeerWaits(j) \/ PeerServed(j) \/ LinkEnds(j)
       \/ \E tabs \in {{}} \cup {{t} : t \in GatewayTabs} :
            PeerRefused(j, tabs) \/ \E c \in CallIds : PeerCall(j, c, tabs)

GatewaySpec == GatewayInit /\ [][GatewayNext]_gatewayVars

-----------------------------------------------------------------------------
GatewayMessages == [reply : CallIds] \cup [event : GatewayTabs]

GatewayTypeOK ==
  /\ listening \in {"no", "yes", "stopped"} /\ {ws, newest} \subseteq 0..MaxConnections
  /\ {connected, lateEnd, lateLink} \subseteq BOOLEAN
  /\ handler \in [Connections -> {"unused", "open", "ack", "serving", "over"}]
  /\ wsOpen \in [Connections -> BOOLEAN]
  /\ \A i \in Connections : \A n \in 1..Len(inbox[i]) : inbox[i][n] \in GatewayMessages
  /\ calls \in [CallIds -> [on : 0..MaxConnections, for : 0..MaxLinks, sent : BOOLEAN,
                            outcome : {"none", "ok", "error"}]]
  /\ pending \subseteq CallIds
  /\ peerLink \in [Links -> {"unused", "serving", "busy", "over"}]
  /\ linkOpen \in [Links -> BOOLEAN] /\ {record, newestLink} \subseteq 0..MaxLinks
  /\ subscribed \subseteq GatewayTabs /\ queues \in [GatewayTabs -> 0..MaxGatewayQueue]
  /\ forwarded \subseteq [link : Links, tab : GatewayTabs] /\ eventsSent \in 0..MaxGatewayEvents

\* The gateway talks to the extension on the connection acknowledged last, and to the
\* peer on its last link, unless a handler has ended since: a handler of a replaced
\* connection that ends late, or cannot send its acknowledgement, disconnects the
\* gateway from the new one.  (Reconnects "often" replace a client, :594.)
HeldUnlessLateEnd ==
  /\ newest # 0 /\ handler[newest] = "serving" /\ ~lateEnd => ws = newest /\ connected
  /\ newestLink # 0 /\ ~lateLink => record = newestLink
=============================================================================
