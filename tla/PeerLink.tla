------------------------------ MODULE PeerLink -------------------------------
(***************************************************************************)
(* The client that a process without a gateway of its own has of another   *)
(* process's gateway (extension_gateway_peer.py): the calls of its threads *)
(* and the polls of its task, over one connection after the other.         *)
(*                                                                         *)
(* The task runs on a loop of its own; a thread hands what it sends to     *)
(* that loop, and waits for a future that the task fills.  The gateway     *)
(* serves the requests of a connection one after the other.                *)
(***************************************************************************)
EXTENDS Naturals, Sequences, FiniteSets

CONSTANTS
  PeerCalls,  \* calls of threads: rpc_call
  Polls,      \* calls of _poll_status
  NoCaller,
  MaxIds,     \* bound: ids given to calls
  MaxSockets, \* bound: connections
  MaxClients  \* bound: starts of the client

ASSUME PeerLinkAssumption ==
  /\ PeerCalls \cap Polls = {} /\ NoCaller \notin PeerCalls \cup Polls
  /\ {MaxIds, MaxSockets, MaxClients} \subseteq Nat

Callers == PeerCalls \cup Polls
Sockets == 1..MaxSockets

VARIABLES
  task,       \* "off", "dialing", "dialed" (_ws is set), "hello" (is sent) or "serving"
  socketNow,  \* _ws: connection that calls go by, 0 for none
  ready,      \* _connected
  lastSocket, \* connections made so far
  loopSince,  \* and those of them made on loops that have ended
  clients,    \* starts so far
  nextId,     \* _next_id
  futures,    \* _pending: id -> caller, or NoCaller
  asked,      \* caller -> how far its call is, its connection, its id and its future
  unsent,     \* callers whose message the loop has still to send
  gatewayEnd, \* connection -> "unused", "hello" (is awaited), "serving" or "over"
  clientEnd,  \* connection -> "unused", "open", "closed" (in good order) or "broken"
  toGateway,  \* connection -> messages to the gateway
  toClient,   \* connection -> messages to the client
  strangers   \* history: connections that began with another message than they should

linkTask == <<task, socketNow, ready, lastSocket, loopSince, clients>>
callState == <<nextId, futures, asked, unsent>>
sockets == <<gatewayEnd, clientEnd, toGateway, toClient, strangers>>
peerLinkVars == <<linkTask, callState, sockets>>

\* A message: a call and its id, in the answer the call it answers; or the hello, and
\* its acknowledgement.
Greeting == [id |-> 0, for |-> NoCaller]
Message == [id : 0..MaxIds, for : Callers \cup {NoCaller}]

NotAsked == [at |-> "none", on |-> 0, id |-> 0, future |-> "none", from |-> NoCaller]

PeerLinkInit ==
  /\ task = "off" /\ socketNow = 0 /\ ready = FALSE /\ lastSocket = 0 /\ loopSince = 0
  /\ clients = 0 /\ nextId = 1 /\ futures = [i \in 1..MaxIds |-> NoCaller]
  /\ asked = [c \in Callers |-> NotAsked] /\ unsent = {}
  /\ gatewayEnd = [s \in Sockets |-> "unused"] /\ clientEnd = [s \in Sockets |-> "unused"]
  /\ toGateway = [s \in Sockets |-> <<>>] /\ toClient = [s \in Sockets |-> <<>>]
  /\ strangers = {}

-----------------------------------------------------------------------------
(* Calls                                                                   *)

Moves(c, at) == asked' = [asked EXCEPT ![c].at = at]
Fails(c) == asked' = [asked EXCEPT ![c].at = "over", ![c].future = "error"]
Popped(ids) == [i \in 1..MaxIds |-> IF i \in ids THEN NoCaller ELSE futures[i]]

\* rpc_call takes the connection of the moment, or waits a while for one
CallBegins(c) ==
  /\ asked[c].at = "none"
  /\ IF socketNow # 0 THEN asked' = [asked EXCEPT ![c].at = "chosen", ![c].on = socketNow]
     ELSE Moves(c, "looking")
  /\ UNCHANGED <<linkTask, nextId, futures, unsent, sockets>>

\* that has been acknowledged (_wait_for_peer_socket),
SocketFound(c) ==
  /\ asked[c].at = "looking" /\ socketNow # 0 /\ ready
  /\ asked' = [asked EXCEPT ![c].at = "chosen", ![c].on = socketNow]
  /\ UNCHANGED <<linkTask, nextId, futures, unsent, sockets>>

NotConnected(c) ==
  /\ asked[c].at = "looking" /\ Fails(c)
  /\ UNCHANGED <<linkTask, nextId, futures, unsent, sockets>>

\* Of a call: its id and its future.
Registers(c) ==
  /\ nextId <= MaxIds /\ nextId' = nextId + 1
  /\ futures' = [futures EXCEPT ![nextId] = c]

\* and hands its message to the loop, which may have ended since.
Register(c) ==
  /\ asked[c].at = "chosen" /\ Registers(c)
  /\ asked' = [asked EXCEPT ![c].at = "sending", ![c].id = nextId]
  /\ unsent' = IF asked[c].on > loopSince THEN unsent \cup {c} ELSE unsent
  /\ UNCHANGED <<linkTask, sockets>>

Reaches(s, m) ==
  toGateway' = IF gatewayEnd[s] = "over" THEN toGateway ELSE [toGateway EXCEPT ![s] = Append(@, m)]

\* The loop runs what threads have handed to it when its task waits.  A thread that has
\* given up does not take its message back.
LoopSends(c) ==
  /\ c \in unsent /\ task # "dialed" /\ unsent' = unsent \ {c}
  /\ LET s == asked[c].on
     IN  IF clientEnd[s] = "open"
         THEN /\ Reaches(s, [id |-> asked[c].id, for |-> c]) /\ UNCHANGED futures
              /\ IF asked[c].at = "sending" THEN Moves(c, "waiting") ELSE UNCHANGED asked
         ELSE /\ UNCHANGED toGateway
              /\ IF asked[c].at = "sending" THEN Fails(c) /\ futures' = Popped({asked[c].id})
                 ELSE UNCHANGED <<asked, futures>>
  /\ UNCHANGED <<linkTask, nextId, gatewayEnd, clientEnd, toClient, strangers>>

\* The future has been filled.
TakeResult(c) ==
  /\ asked[c].at = "waiting" /\ asked[c].future # "none"
  /\ Moves(c, "over") /\ futures' = Popped({asked[c].id})
  /\ UNCHANGED <<linkTask, nextId, unsent, sockets>>

\* The message is not sent, or not answered, in time.
CallerGivesUp(c) ==
  /\ asked[c].at \in {"sending", "waiting"} /\ Fails(c) /\ futures' = Popped({asked[c].id})
  /\ UNCHANGED <<linkTask, nextId, unsent, sockets>>

\* _peer_rpc.  When the message cannot be sent, the future stays in _pending.
PollStatusOnce(c) ==
  /\ task = "serving" /\ asked[c].at = "none" /\ \A d \in Polls : asked[d].at # "waiting"
  /\ Registers(c)
  /\ IF clientEnd[lastSocket] = "open"
     THEN /\ asked' = [asked EXCEPT ![c].at = "waiting", ![c].on = lastSocket,
                                     ![c].id = nextId]
          /\ Reaches(lastSocket, [id |-> nextId, for |-> c])
     ELSE /\ asked' = [asked EXCEPT ![c].at = "over", ![c].id = nextId, ![c].future = "error"]
          /\ UNCHANGED toGateway
  /\ UNCHANGED <<linkTask, unsent, gatewayEnd, clientEnd, toClient, strangers>>

-----------------------------------------------------------------------------
(* The task                                                                *)

StartClient ==
  /\ task = "off" /\ clients < MaxClients /\ clients' = clients + 1
  /\ task' = "dialing" /\ ready' = FALSE
  /\ UNCHANGED <<socketNow, lastSocket, loopSince, callState, sockets>>

\* _ws is set at once; the hello is the first that the loop sends by it.
Dialed ==
  /\ task = "dialing" /\ lastSocket < MaxSockets /\ lastSocket' = lastSocket + 1
  /\ task' = "dialed" /\ socketNow' = lastSocket'
  /\ gatewayEnd' = [gatewayEnd EXCEPT ![lastSocket'] = "hello"]
  /\ clientEnd' = [clientEnd EXCEPT ![lastSocket'] = "open"]
  /\ UNCHANGED <<ready, loopSince, clients, callState, toGateway, toClient, strangers>>

HelloSent ==
  /\ task = "dialed" /\ clientEnd[lastSocket] = "open" /\ task' = "hello"
  /\ Reaches(lastSocket, Greeting)
  /\ UNCHANGED <<socketNow, ready, lastSocket, loopSince, clients, callState, gatewayEnd,
                 clientEnd, toClient, strangers>>

Received == toClient' = [toClient EXCEPT ![lastSocket] = Tail(@)]

AckReceived ==
  /\ task = "hello" /\ toClient[lastSocket] # <<>> /\ Head(toClient[lastSocket]) = Greeting
  /\ task' = "serving" /\ ready' = TRUE /\ Received
  /\ UNCHANGED <<socketNow, lastSocket, loopSince, clients, callState, gatewayEnd, clientEnd,
                 toGateway, strangers>>

\* _on_message: the future of the id, if there is one and nothing is in it.
AnswerReceived ==
  /\ task = "serving" /\ toClient[lastSocket] # <<>> /\ Received
  /\ LET m == Head(toClient[lastSocket])
         c == futures[m.id]
     IN  IF c # NoCaller /\ asked[c].future = "none"
         THEN asked' = [asked EXCEPT ![c].future = "result", ![c].from = m.for]
         ELSE UNCHANGED asked
  /\ UNCHANGED <<linkTask, nextId, futures, unsent, gatewayEnd, clientEnd, toGateway, strangers>>

\* The poll of a connection ends with it.
PollIds == {asked[c].id : c \in {d \in Polls : asked[d].at = "waiting"}}
WithoutPolls ==
  [c \in Callers |->
     IF c \in Polls /\ asked[c].at = "waiting"
     THEN [asked[c] EXCEPT !.at = "over", !.future = "error"] ELSE asked[c]]

ClientCloses ==
  clientEnd' = [clientEnd EXCEPT ![lastSocket] = IF @ = "open" THEN "closed" ELSE @]

\* The gateway closed in good order: the loop over its messages ends, and _ws, _connected
\* and the futures stay as they are.
EndInOrder ==
  /\ task = "serving" /\ clientEnd[lastSocket] = "closed" /\ toClient[lastSocket] = <<>>
  /\ task' = "dialing" /\ asked' = WithoutPolls /\ futures' = Popped(PollIds)
  /\ UNCHANGED <<socketNow, ready, lastSocket, loopSince, clients, nextId, unsent, sockets>>

\* Mutant: the ids begin again with the next connection.
DisconnectRenumbers ==
  /\ socketNow' = 0 /\ ready' = FALSE
  /\ asked' = [c \in Callers |->
                 IF c \in {futures[i] : i \in 1..MaxIds} /\ asked[c].future = "none"
                 THEN [WithoutPolls[c] EXCEPT !.future = "error"] ELSE WithoutPolls[c]]
  /\ futures' = Popped(1..MaxIds) /\ nextId' = 1

\* _disconnect: every call that waits fails.
Disconnect ==
  /\ socketNow' = 0 /\ ready' = FALSE
  /\ asked' = [c \in Callers |->
                 IF c \in {futures[i] : i \in 1..MaxIds} /\ asked[c].future = "none"
                 THEN [WithoutPolls[c] EXCEPT !.future = "error"] ELSE WithoutPolls[c]]
  /\ futures' = Popped(1..MaxIds) /\ UNCHANGED nextId

\* An exception: no acknowledgement in time, or the connection broke.
EndInError ==
  /\ \/ task = "dialed" /\ clientEnd[lastSocket] # "open"
     \/ task = "hello"
     \/ task = "serving" /\ clientEnd[lastSocket] = "broken" /\ toClient[lastSocket] = <<>>
  /\ task' = "dialing" /\ Disconnect /\ ClientCloses
  /\ strangers' = IF task = "hello" /\ toClient[lastSocket] # <<>>
                     /\ Head(toClient[lastSocket]) # Greeting
                  THEN strangers \cup {lastSocket} ELSE strangers
  /\ UNCHANGED <<lastSocket, loopSince, clients, unsent, gatewayEnd, toGateway, toClient>>

\* stop, when the process gets a gateway of its own; its loop ends.
StopClient ==
  /\ task # "off" /\ task' = "off" /\ Disconnect
  /\ clientEnd' = [s \in Sockets |-> IF clientEnd[s] = "open" THEN "closed" ELSE clientEnd[s]]
  /\ unsent' = {} /\ loopSince' = lastSocket
  /\ UNCHANGED <<lastSocket, clients, gatewayEnd, toGateway, toClient, strangers>>

-----------------------------------------------------------------------------
(* The gateway and the network                                             *)

ReplyTo(s, m) ==
  toClient' = IF clientEnd[s] = "open" THEN [toClient EXCEPT ![s] = Append(@, m)] ELSE toClient

\* The first message of a connection decides what it is.
GatewayGreets(s) ==
  /\ gatewayEnd[s] = "hello" /\ toGateway[s] # <<>>
  /\ IF Head(toGateway[s]) = Greeting
     THEN /\ gatewayEnd' = [gatewayEnd EXCEPT ![s] = "serving"] /\ ReplyTo(s, Greeting)
          /\ toGateway' = [toGateway EXCEPT ![s] = Tail(@)] /\ UNCHANGED strangers
     ELSE /\ gatewayEnd' = [gatewayEnd EXCEPT ![s] = "over"] /\ UNCHANGED toClient
          /\ toGateway' = [toGateway EXCEPT ![s] = <<>>] /\ strangers' = strangers \cup {s}
  /\ UNCHANGED <<linkTask, callState, clientEnd>>

\* The answer, or the error, has the id of the request.
GatewayServes(s) ==
  /\ gatewayEnd[s] = "serving" /\ toGateway[s] # <<>> /\ Head(toGateway[s]) # Greeting
  /\ toGateway' = [toGateway EXCEPT ![s] = Tail(@)] /\ ReplyTo(s, Head(toGateway[s]))
  /\ UNCHANGED <<linkTask, callState, gatewayEnd, clientEnd, strangers>>

\* It stops, or finds the connection ended.
GatewayEnds(s) ==
  /\ gatewayEnd[s] \in {"hello", "serving"}
  /\ gatewayEnd' = [gatewayEnd EXCEPT ![s] = "over"] /\ toGateway' = [toGateway EXCEPT ![s] = <<>>]
  /\ UNCHANGED <<linkTask, callState, clientEnd, toClient, strangers>>

CloseArrives(s) ==
  /\ clientEnd[s] = "open" /\ gatewayEnd[s] = "over"
  /\ clientEnd' = [clientEnd EXCEPT ![s] = "closed"]
  /\ UNCHANGED <<linkTask, callState, gatewayEnd, toGateway, toClient, strangers>>

\* The connection breaks; answers on their way may be lost.
SocketBreaks(s) ==
  /\ clientEnd[s] = "open" /\ clientEnd' = [clientEnd EXCEPT ![s] = "broken"]
  /\ \E n \in 0..Len(toClient[s]) : toClient' = [toClient EXCEPT ![s] = SubSeq(@, 1, n)]
  /\ UNCHANGED <<linkTask, callState, gatewayEnd, toGateway, strangers>>

PeerLinkNext ==
  \/ \E c \in PeerCalls : CallBegins(c) \/ SocketFound(c) \/ NotConnected(c) \/ Register(c)
  \/ \E c \in Callers : LoopSends(c) \/ TakeResult(c) \/ CallerGivesUp(c)
  \/ \E c \in Polls : PollStatusOnce(c)
  \/ StartClient \/ Dialed \/ HelloSent \/ AckReceived \/ AnswerReceived
  \/ EndInOrder \/ EndInError \/ StopClient
  \/ \E s \in Sockets :
       GatewayGreets(s) \/ GatewayServes(s) \/ GatewayEnds(s) \/ CloseArrives(s) \/ SocketBreaks(s)

PeerLinkSpec == PeerLinkInit /\ [][PeerLinkNext]_peerLinkVars

-----------------------------------------------------------------------------
PeerLinkTypeOK ==
  /\ task \in {"off", "dialing", "dialed", "hello", "serving"} /\ ready \in BOOLEAN
  /\ {socketNow, lastSocket, loopSince} \subseteq 0..MaxSockets /\ clients \in 0..MaxClients
  /\ nextId \in 1..(MaxIds + 1) /\ futures \in [1..MaxIds -> Callers \cup {NoCaller}]
  /\ asked \in [Callers -> [at : {"none", "looking", "chosen", "sending", "waiting", "over"},
                            on : 0..MaxSockets, id : 0..MaxIds,
                            future : {"none", "result", "error"},
                            from : Callers \cup {NoCaller}]]
  /\ unsent \subseteq PeerCalls
  /\ gatewayEnd \in [Sockets -> {"unused", "hello", "serving", "over"}]
  /\ clientEnd \in [Sockets -> {"unused", "open", "closed", "broken"}]
  /\ toGateway \in [Sockets -> Seq(Message)] /\ toClient \in [Sockets -> Seq(Message)]
  /\ strangers \subseteq Sockets

\* However connections end and others follow, and although the connection that _ws leads
\* to, and the futures, outlive one that was closed in good order (:367): a call gets the
\* gateway's answer to that very call or none; while it waits without an answer, its future
\* is in _pending under its id, where the answer is looked for; and every connection begins
\* with the hello and its acknowledgement, whatever calls were made since _ws was set.
AnswersReachCallers ==
  /\ \A c \in Callers :
       /\ asked[c].future = "result" => asked[c].from = c
       /\ asked[c].at \in {"sending", "waiting"} /\ asked[c].future = "none" =>
            futures[asked[c].id] = c
  /\ strangers = {}
=============================================================================
