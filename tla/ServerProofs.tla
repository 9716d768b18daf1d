---------------------------- MODULE ServerProofs ----------------------------
(* Proofs about the server processes of a machine: the gateway of their    *)
(* profile (SharedGateway), the connection of the extension                *)
(* (LegacyGateway), the calls by another process's gateway (PeerLink), the *)
(* browsers they launch (Launcher) and the native host they install        *)
(* (ExtensionSetup), for all values of the constants.  Then their types    *)
(* and bounds, and at the end that the composition MCServers does what its *)
(* parts do.                                                               *)
EXTENDS MCServers, StoreProofs, TabProofs, WellFoundedInduction, TLAPS

-----------------------------------------------------------------------------
(* Who leads.                                                              *)

\* Only a process that runs waits for the extension.
WaitersRun == \A p \in Processes : waiting[p] # "no" => p \in alive

SharedInv == SharedTypeOK /\ WaitersRun /\ GatewaysLocked

LEMMA SharedInitInv == SharedInit => SharedInv
BY SharedAssumption
DEF SharedInit, SharedInv, SharedTypeOK, WaitersRun, GatewaysLocked, Locks, Gateways

-----------------------------------------------------------------------------
(* Changes of role.                                                        *)

\* What the roles are about, and what a change of role leaves alone.
RolesTyped ==
  /\ proxy \subseteq Processes /\ sees \subseteq Processes
  /\ bound \subseteq Gateways /\ extension \subseteq Gateways
  /\ holder \in [Locks -> Processes \cup {NoProcess}]
  /\ gateway \in [Processes -> 0..MaxRoles] /\ gateways \in 0..MaxRoles
  /\ peer \in [Processes -> {"off", "discover", "probe", "hello", "serve"}]
  /\ peerWs \in [Processes -> 0..MaxRoles]

LEMMA SharedTypes ==
  SharedTypeOK <=>
    /\ RolesTyped /\ alive \subseteq Processes
    /\ waiting \in [Processes -> {"no", "own", "promote", "rescue", "taken"}]
BY DEF SharedTypeOK, RolesTyped

LEMMA PromoteInv ==
  ASSUME SharedInv, NEW p \in alive, NEW k \in Locks, Acquirable(p, k), Promote(p, k),
         UNCHANGED alive
  PROVE  RolesTyped' /\ GatewaysLocked'
<1> USE SharedAssumption DEF SharedInv
<1>1. RolesTyped /\ p \in Processes
  BY SharedTypes DEF SharedTypeOK
<1>2. RolesTyped'
  <2>1. /\ proxy' \subseteq Processes /\ sees' \subseteq Processes
        /\ bound' \subseteq Gateways /\ extension' \subseteq Gateways
    BY <1>1 DEF Promote, StopPeer, RolesTyped
  <2>2. holder' \in [Locks -> Processes \cup {NoProcess}]
    BY <1>1 DEF Promote, RolesTyped
  <2>3. gateway' \in [Processes -> 0..MaxRoles] /\ gateways' \in 0..MaxRoles
    BY <1>1 DEF Promote, RolesTyped
  <2>4. /\ peer' \in [Processes -> {"off", "discover", "probe", "hello", "serve"}]
        /\ peerWs' \in [Processes -> 0..MaxRoles]
    BY <1>1 DEF Promote, StopPeer, RolesTyped
  <2> QED BY <2>1, <2>2, <2>3, <2>4 DEF RolesTyped
<1>3. gateway'[p] # 0 /\ \A q \in Processes : q # p => gateway'[q] = gateway[q]
  BY <1>1 DEF Promote, RolesTyped
<1>4. /\ holder'[k] = p /\ \A l \in Locks : l # k => holder'[l] = holder[l]
      /\ holder[k] \in {NoProcess, p} /\ proxy' = proxy \ {p}
  BY <1>1 DEF Promote, Acquirable, RolesTyped
<1>5. GatewaysLocked'
  BY <1>1, <1>2, <1>3, <1>4 DEF GatewaysLocked, RolesTyped, Locks
<1> QED BY <1>2, <1>5

LEMMA DemoteInv ==
  ASSUME SharedInv, NEW p \in alive, ~Acquirable(p, "leader"), Demote(p), UNCHANGED alive
  PROVE  RolesTyped' /\ GatewaysLocked'
<1> USE SharedAssumption DEF SharedInv
<1>1. RolesTyped /\ p \in Processes
  BY SharedTypes DEF SharedTypeOK
<1>2. RolesTyped'
  <2>1. /\ proxy' \subseteq Processes /\ sees' \subseteq Processes
        /\ bound' \subseteq Gateways /\ extension' \subseteq Gateways
    BY <1>1 DEF Demote, StopGateway, RolesTyped
  <2>2. gateway' \in [Processes -> 0..MaxRoles]
    BY <1>1 DEF Demote, StopGateway, RolesTyped
  <2>3. peer' \in [Processes -> {"off", "discover", "probe", "hello", "serve"}]
    BY <1>1 DEF Demote, RolesTyped
  <2> QED BY <1>1, <2>1, <2>2, <2>3 DEF Demote, RolesTyped
<1>3. /\ gateway'[p] = 0 /\ \A q \in Processes : q # p => gateway'[q] = gateway[q]
      /\ holder' = holder /\ holder["leader"] # p /\ proxy' = proxy \cup {p}
  BY <1>1 DEF Demote, StopGateway, RolesTyped, Acquirable
<1>4. GatewaysLocked'
  BY <1>1, <1>2, <1>3 DEF GatewaysLocked, RolesTyped, Locks
<1> QED BY <1>2, <1>4

\* A process that ends, or stops its gateway, has neither lock any more.
LEMMA ReleaseInv ==
  ASSUME SharedInv, NEW p \in alive, StopPeer(p), StopGateway(p), proxy' = proxy \ {p},
         holder' = Released(p), UNCHANGED gateways, alive' \in {alive, alive \ {p}}
  PROVE  RolesTyped' /\ GatewaysLocked'
<1> USE SharedAssumption DEF SharedInv
<1>1. RolesTyped /\ p \in Processes
  BY SharedTypes DEF SharedTypeOK
<1>2. RolesTyped'
  <2>1. /\ proxy' \subseteq Processes /\ sees' \subseteq Processes
        /\ bound' \subseteq Gateways /\ extension' \subseteq Gateways
    BY <1>1 DEF StopPeer, StopGateway, RolesTyped
  <2>2. holder' \in [Locks -> Processes \cup {NoProcess}]
    BY <1>1 DEF Released, RolesTyped
  <2>3. gateway' \in [Processes -> 0..MaxRoles]
    BY <1>1 DEF StopGateway, RolesTyped
  <2>4. /\ peer' \in [Processes -> {"off", "discover", "probe", "hello", "serve"}]
        /\ peerWs' \in [Processes -> 0..MaxRoles]
    BY <1>1 DEF StopPeer, RolesTyped
  <2> QED BY <1>1, <2>1, <2>2, <2>3, <2>4 DEF RolesTyped
<1>3. /\ gateway'[p] = 0 /\ \A q \in Processes : q # p => gateway'[q] = gateway[q]
      /\ \A l \in Locks : holder'[l] = IF holder[l] = p THEN NoProcess ELSE holder[l]
  BY <1>1 DEF StopGateway, Released, RolesTyped
<1>4. GatewaysLocked'
  BY <1>1, <1>2, <1>3 DEF GatewaysLocked, RolesTyped, Locks
<1> QED BY <1>2, <1>4

LEMMA EnsureBackendInv ==
  ASSUME SharedInv, NEW p \in alive, EnsureBackend(p), UNCHANGED alive
  PROVE  RolesTyped' /\ GatewaysLocked'
BY PromoteInv, DemoteInv DEF EnsureBackend, Locks

-----------------------------------------------------------------------------
LEMMA SharedNextInv ==
  ASSUME SharedInv, [SharedNext]_sharedVars
  PROVE  SharedInv'
<1> USE DEF SharedInv
<1>0. /\ RolesTyped /\ alive \subseteq Processes
      /\ waiting \in [Processes -> {"no", "own", "promote", "rescue", "taken"}]
  BY SharedTypes
<1>a. ASSUME RolesTyped', GatewaysLocked', UNCHANGED alive, NEW p \in alive,
             NEW w \in {"no", "own", "promote", "rescue", "taken"},
             waiting' = [waiting EXCEPT ![p] = w] \/ UNCHANGED waiting
      PROVE  SharedInv'
  <2>1. alive' \subseteq Processes /\ WaitersRun'
        /\ waiting' \in [Processes -> {"no", "own", "promote", "rescue", "taken"}]
    BY <1>0, <1>a DEF WaitersRun
  <2> QED BY <1>a, <2>1 DEF SharedTypeOK, RolesTyped
<1>1. ASSUME NEW p \in Processes, BackendCall(p) \/ WaitBegins(p) PROVE SharedInv'
  <2>1. p \in alive /\ RolesTyped' /\ GatewaysLocked' /\ UNCHANGED alive
    BY <1>1, EnsureBackendInv DEF BackendCall, WaitBegins
  <2> QED BY <1>1, <1>a, <2>1 DEF BackendCall, WaitBegins
<1>2. ASSUME NEW p \in Processes, TryPromotion(p) \/ TryRescue(p) PROVE SharedInv'
  <2>1. p \in alive
    BY <1>2 DEF TryPromotion, TryRescue, WaitersRun
  <2>2. CASE \E k \in Locks : Acquirable(p, k) /\ Promote(p, k) /\ UNCHANGED alive
             /\ waiting' = [waiting EXCEPT ![p] = "taken"]
    <3>1. RolesTyped' /\ GatewaysLocked'
      BY <2>1, <2>2, PromoteInv
    <3> QED BY <1>a, <2>1, <2>2, <3>1
  <2>3. CASE /\ UNCHANGED <<alive, roleVars, extension, clientVars>>
             /\ \E w \in {"rescue", "no"} : waiting' = [waiting EXCEPT ![p] = w]
    <3>1. RolesTyped' /\ GatewaysLocked'
      BY <1>0, <2>3 DEF roleVars, clientVars, RolesTyped, GatewaysLocked
    <3> QED BY <1>a, <2>1, <2>3, <3>1
  <2> QED BY <1>2, <2>2, <2>3 DEF TryPromotion, TryRescue, Locks
<1>3. ASSUME NEW p \in Processes, StopShared(p) \/ Killed(p) PROVE SharedInv'
  <2>1. p \in alive /\ RolesTyped' /\ GatewaysLocked'
    BY <1>3, ReleaseInv DEF StopShared, Killed
  <2>2. alive' \subseteq Processes /\ WaitersRun'
        /\ waiting' \in [Processes -> {"no", "own", "promote", "rescue", "taken"}]
    BY <1>0, <1>3 DEF StopShared, Killed, WaitersRun
  <2> QED BY <2>1, <2>2 DEF SharedTypeOK, RolesTyped
<1>4. ASSUME NEW p \in Processes, WaitEnds(p) \/ ProxyWaitsInVain(p) PROVE SharedInv'
  <2>1. RolesTyped' /\ GatewaysLocked' /\ UNCHANGED alive
    BY <1>0, <1>4 DEF WaitEnds, ProxyWaitsInVain, roleVars, clientVars, RolesTyped, GatewaysLocked
  <2>2. p \in alive
    BY <1>4 DEF WaitEnds, ProxyWaitsInVain, WaitersRun
  <2> QED BY <1>4, <1>a, <2>1, <2>2 DEF WaitEnds, ProxyWaitsInVain
\* The rest changes no role.
<1>5. ASSUME UNCHANGED <<alive, holder, gateway, proxy, gateways, waiting>>,
             bound' \subseteq Gateways, extension' \subseteq Gateways, sees' \subseteq Processes,
             peer' \in [Processes -> {"off", "discover", "probe", "hello", "serve"}],
             peerWs' \in [Processes -> 0..MaxRoles]
      PROVE  SharedInv'
  BY <1>0, <1>5 DEF SharedTypeOK, RolesTyped, WaitersRun, GatewaysLocked
<1>6. ASSUME NEW p \in Processes, BindPort(p) PROVE SharedInv'
  <2>1. gateway[p] \in Gateways
    BY <1>0, <1>6, SharedAssumption DEF BindPort, RolesTyped, Gateways
  <2>2. bound' \subseteq Gateways
    BY <1>0, <1>6, <2>1 DEF BindPort, RolesTyped
  <2> QED BY <1>0, <1>5, <1>6, <2>2 DEF BindPort, clientVars, RolesTyped
<1>7. ASSUME NEW p \in Processes, Discover(p) \/ DiscoverByWs(p) PROVE SharedInv'
  <2>1. ASSUME NEW c, c.gateway \in Gateways, ConnectTo(p, c),
               UNCHANGED <<alive, roleVars, waiting, extension>>
        PROVE  SharedInv'
    BY <1>0, <1>5, <2>1, SharedAssumption DEF ConnectTo, roleVars, RolesTyped, Gateways
  <2>2. ASSUME NEW answering \in Answering
        PROVE  /\ \A c \in Best(HttpClaims(answering)) : c.gateway \in Gateways
               /\ \A silent \in SUBSET answering :
                    \A c \in Best(WsClaims(answering, silent)) : c.gateway \in Gateways
    <3>1. answering \subseteq Gateways
      BY <1>0, <2>2 DEF Answering, RolesTyped
    <3>2. /\ \A c \in HttpClaims(answering) : c.gateway \in Gateways
          /\ \A silent \in SUBSET answering :
               \A c \in WsClaims(answering, silent) : c.gateway \in Gateways
      BY <3>1 DEF HttpClaims, WsClaims, WellKnownPage
    <3>3. \A claims : Best(claims) \subseteq claims
      BY DEF Best
    <3> QED BY <3>2, <3>3
  <2>3. UNCHANGED <<alive, roleVars, waiting, extension>>
    BY <1>7 DEF Discover, DiscoverByWs
  <2>4. CASE \E to \in {"discover", "probe"} :
               peer' = [peer EXCEPT ![p] = to] /\ UNCHANGED <<peerWs, sees>>
    BY <1>0, <1>5, <2>3, <2>4, SharedAssumption DEF roleVars, RolesTyped
  <2>5. CASE \E answering \in Answering :
               \/ \E c \in Best(HttpClaims(answering)) : ConnectTo(p, c)
               \/ \E silent \in SUBSET answering :
                    \E c \in Best(WsClaims(answering, silent)) : ConnectTo(p, c)
    BY <2>1, <2>2, <2>3, <2>5
  <2> QED BY <1>7, <2>4, <2>5 DEF Discover, DiscoverByWs
<1>8. ASSUME NEW p \in Processes, PeerAck(p) \/ PollStatus(p) \/ PeerErrs(p) \/ PeerCloses(p)
      PROVE  SharedInv'
  BY <1>0, <1>5, <1>8, SharedAssumption
  DEF PeerAck, PollStatus, PeerErrs, PeerCloses, roleVars, RolesTyped
<1>9. CASE ExtensionLeaves \/ \E g \in Gateways : ExtensionConnects(g)
  BY <1>0, <1>5, <1>9 DEF ExtensionLeaves, ExtensionConnects, roleVars, clientVars, RolesTyped
<1>10. CASE UNCHANGED sharedVars
  BY <1>0, <1>5, <1>10 DEF sharedVars, roleVars, clientVars, RolesTyped
<1> QED
  BY <1>1, <1>2, <1>3, <1>4, <1>6, <1>7, <1>8, <1>9, <1>10 DEF SharedNext

THEOREM SharedInvariant == SharedSpec => []SharedInv
BY SharedInitInv, SharedNextInv, PTL DEF SharedSpec

\* The roles, locks and links keep their types.
THEOREM SharedTypeCorrect == SharedSpec => []SharedTypeOK
BY SharedInvariant, PTL DEF SharedInv

\* Of any number of server processes at most two run a gateway, one for each lock, and the
\* one with the leader lock does (extension_gateway_shared.py).
THEOREM GatewaysAreLocked == SharedSpec => []GatewaysLocked
BY SharedInvariant, PTL DEF SharedInv

-----------------------------------------------------------------------------
(* The connections of a gateway.                                           *)

HandlersTyped ==
  /\ handler \in [Connections -> {"unused", "open", "ack", "serving", "over"}]
  /\ newest \in 0..MaxConnections

\* As long as no handler has ended late, the gateway has the connection that said hello
\* last, and knows when it has been acknowledged.
LastHelloHeld ==
  newest # 0 /\ ~lateEnd => ws = newest /\ (handler[newest] = "serving" => connected)

LastLinkHeld == newestLink # 0 /\ ~lateLink => record = newestLink

GatewayInv == HandlersTyped /\ LastHelloHeld /\ LastLinkHeld

LEMMA GatewayInitInv == GatewayInit => GatewayInv
BY GatewayAssumption DEF GatewayInit, GatewayInv, HandlersTyped, LastHelloHeld, LastLinkHeld

\* What happens to calls and events leaves the connections alone.
LEMMA GatewayStateKept ==
  ASSUME GatewayInv, UNCHANGED <<gateState, handler, newest, lateEnd, record, newestLink, lateLink>>
  PROVE  GatewayInv'
BY DEF GatewayInv, HandlersTyped, LastHelloHeld, LastLinkHeld, gateState

\* Of the extension's connections, the handler of one goes on.
LEMMA HandlersInv ==
  ASSUME GatewayInv, NEW i \in Connections, UNCHANGED <<record, newestLink, lateLink>>,
         Connect(i) \/ HelloRefused(i) \/ Hello(i) \/ AckSent(i) \/ AckFails(i) \/ LoopEnds(i)
  PROVE  GatewayInv'
<1> USE GatewayAssumption DEF GatewayInv
<1>1. HandlersTyped'
  BY DEF HandlersTyped, Connect, HelloRefused, Hello, AckSent, AckFails, LoopEnds, Connections
<1>2. LastHelloHeld'
  BY DEF LastHelloHeld, HandlersTyped, Connect, HelloRefused, Hello, ReplacesFormer, AckSent,
         AckFails, LoopEnds, gateState, Connections
<1>3. LastLinkHeld'
  BY DEF LastLinkHeld
<1> QED BY <1>1, <1>2, <1>3

LEMMA GatewayNextInv ==
  ASSUME GatewayInv, [GatewayNext]_gatewayVars
  PROVE  GatewayInv'
<1>1. CASE Bind
  BY <1>1 DEF Bind, GatewayInv, HandlersTyped, LastHelloHeld, LastLinkHeld, extensionSide, peerSide
<1>2. CASE Shutdown
  BY <1>2 DEF Shutdown, GatewayInv, HandlersTyped, LastHelloHeld, LastLinkHeld
<1>3. ASSUME NEW i \in Connections,
             \/ Connect(i) \/ HelloRefused(i) \/ Hello(i) \/ AckSent(i) \/ AckFails(i)
             \/ LoopEnds(i)
      PROVE  GatewayInv'
  <2>1. UNCHANGED <<record, newestLink, lateLink>>
    BY <1>3 DEF Connect, HelloRefused, Hello, AckSent, AckFails, LoopEnds, peerSide
  <2> QED BY <1>3, <2>1, HandlersInv
<1>4. ASSUME NEW i \in Connections,
             \/ SocketCloses(i) \/ ReceiveReply(i) \/ ReceiveEvent(i)
             \/ \E t \in GatewayTabs : ExtensionEmits(i, t)
      PROVE  GatewayInv'
  BY <1>4, GatewayStateKept
  DEF SocketCloses, ReceiveReply, ReceiveEvent, ExtensionEmits, peerSide
<1>5. ASSUME NEW c \in CallIds,
             ServerCall(c) \/ SendCall(c) \/ CallTimesOut(c) \/ ExtensionReplies(c)
      PROVE  GatewayInv'
  BY <1>5, GatewayStateKept
  DEF ServerCall, SendCall, CallTimesOut, ExtensionReplies, extensionSide, peerSide
<1>6. ASSUME NEW t \in GatewayTabs, PopQueued(t) PROVE GatewayInv'
  BY <1>6, GatewayStateKept DEF PopQueued, extensionSide, peerSide
<1>7. ASSUME NEW j \in Links, PeerHello(j) \/ LinkEnds(j) PROVE GatewayInv'
  BY <1>7
  DEF PeerHello, LinkEnds, GatewayInv, HandlersTyped, LastHelloHeld, LastLinkHeld, gateState,
      extensionSide
<1>8. ASSUME NEW j \in Links, NEW ts,
             \/ LinkCloses(j) \/ PeerWaits(j) \/ PeerServed(j) \/ PeerRefused(j, ts)
             \/ \E c \in CallIds : PeerCall(j, c, ts)
      PROVE  GatewayInv'
  BY <1>8, GatewayStateKept
  DEF LinkCloses, PeerWaits, PeerServed, PeerRefused, PeerCall, extensionSide
<1>9. CASE UNCHANGED gatewayVars
  BY <1>9, GatewayStateKept DEF gatewayVars, extensionSide, peerSide
<1> QED
  BY <1>1, <1>2, <1>3, <1>4, <1>5, <1>6, <1>7, <1>8, <1>9 DEF GatewayNext

\* Through any number of connections of the extension and of the peer, the gateway talks
\* on the newest of each, but for the ends of handlers that the property names
\* (extension_gateway.py:594, 646).
THEOREM HeldCorrect == GatewaySpec => []HeldUnlessLateEnd
<1>1. GatewayInv => HeldUnlessLateEnd
  BY DEF GatewayInv, LastHelloHeld, LastLinkHeld, HeldUnlessLateEnd
<1> QED BY <1>1, GatewayInitInv, GatewayNextInv, PTL DEF GatewaySpec

-----------------------------------------------------------------------------
(* Chromes.                                                                *)

ChromesTyped ==
  /\ chromes \in [Chromes -> [port : Ports,
                              state : {"unused", "starting", "up", "hung", "deaf", "gone"}]]
  /\ owned \in 0..MaxChromes /\ cdpPort \in Ports

\* A Chrome without handle was asked and did not answer, and so was the one with the
\* handle if it should not be on the port any more, or is about to be replaced.
OthersAsked == \A c \in Chromes : Runs(c) /\ c # owned => c \in answerless
OwnedAsked ==
  owned # 0 /\ Runs(owned) =>
    \/ owned \in answerless
    \/ chromes[owned].port = cdpPort /\ launchStep \notin {"port", "spawn"}

\* A recovery has forgotten the session until it opens a tab.
Recovering == request \in {"recover", "hard"}
RecoverForgets ==
  /\ Recovering /\ launchStep \notin {"idle", "before"} => sessionIn = 0
  /\ Recovering /\ launchStep = "idle" => sessionIn \in {0, cdpPort}
  /\ Recovering => launchStep # "ready"

LauncherInv == ChromesTyped /\ OthersAsked /\ OwnedAsked /\ RecoverForgets

LEMMA LauncherInitInv == LauncherInit => LauncherInv
BY LauncherAssumption
DEF LauncherInit, LauncherInv, ChromesTyped, OthersAsked, OwnedAsked, RecoverForgets, Recovering,
    Runs, Chromes, Ports

LEMMA MachineInv ==
  ASSUME LauncherInv, Machine
  PROVE  LauncherInv'
<1> USE LauncherAssumption DEF LauncherInv
<1>1. UNCHANGED <<owned, cdpPort, request, launchStep, sessionIn, answerless>>
  BY DEF Machine
<1>2. /\ chromes' \in [Chromes -> [port : Ports,
                            state : {"unused", "starting", "up", "hung", "deaf", "gone"}]]
      /\ \A c \in Chromes : chromes'[c].port = chromes[c].port
      /\ \A c \in Chromes : Runs(c)' => Runs(c)
  BY DEF Machine, ChromeComesUp, ChromeHangs, ChromeRecovers, ChromeExits, OutsiderChanges,
         Becomes, ChromesTyped, Runs
<1>3. ChromesTyped'
  BY <1>1, <1>2 DEF ChromesTyped
<1>4. OthersAsked' /\ OwnedAsked' /\ RecoverForgets'
  BY <1>1, <1>2
  DEF OthersAsked, OwnedAsked, RecoverForgets, Recovering, ChromesTyped, Chromes
<1> QED BY <1>3, <1>4

\* Who does not answer a probe is noted before the port is given up or taken.
LEMMA ProbeInv ==
  ASSUME LauncherInv, Probe
  PROVE  LauncherInv'
<1> USE LauncherAssumption DEF LauncherInv
<1>1. UNCHANGED <<chromes, owned, cdpPort, request, sessionIn>>
  BY DEF Probe, StepsTo, machineVars
<1>2. CASE Running
  BY <1>1, <1>2
  DEF Probe, StepsTo, Next1, ChromesTyped, OthersAsked, OwnedAsked, RecoverForgets, Recovering,
      Runs
<1>3. CASE ~Running
  <2>1. answerless' = answerless \cup {c \in Chromes : Asked(c) /\ chromes[c].state # "up"}
    BY <1>3 DEF Probe
  <2>2. owned # 0 /\ Runs(owned) => owned \in answerless'
    <3>1. HAVE owned # 0 /\ Runs(owned)
    <3>2. owned \in Chromes
      BY <3>1 DEF ChromesTyped, Chromes
    <3>3. CASE owned \in answerless
      BY <2>1, <3>3
    <3>4. CASE chromes[owned].port = cdpPort
      <4>1. chromes[owned] \in [port : Ports,
                              state : {"unused", "starting", "up", "hung", "deaf", "gone"}]
        BY <3>2 DEF ChromesTyped
      <4>2. chromes[owned].state # "up"
        BY <1>3, <3>2, <3>4, <4>1 DEF Running, Answers
      <4> QED BY <2>1, <3>1, <3>2, <3>4, <4>2 DEF Asked
    <3> QED BY <3>1, <3>3, <3>4 DEF OwnedAsked
  <2>3. launchStep = "probe" /\ launchStep' \in {"port", Next1}
    BY <1>3 DEF Probe, StepsTo
  <2> QED
    BY <1>1, <2>1, <2>2, <2>3
    DEF ChromesTyped, OthersAsked, OwnedAsked, RecoverForgets, Recovering, Runs, Next1
<1> QED BY <1>2, <1>3

LEMMA SpawnInv ==
  ASSUME LauncherInv, Spawn
  PROVE  LauncherInv'
<1> USE LauncherAssumption DEF LauncherInv
<1>1. PICK c \in Chromes :
        /\ chromes[c].state = "unused" /\ owned' = c
        /\ chromes' = [chromes EXCEPT ![c] =
                         [port |-> cdpPort,
                          state |-> IF SharesProfile(cdpPort) THEN "gone" ELSE "starting"]]
  BY DEF Spawn
<1>2. launchStep = "spawn" /\ launchStep' = "await"
      /\ UNCHANGED <<cdpPort, request, sessionIn, answerless>>
  BY DEF Spawn
<1>3. ChromesTyped' /\ chromes'[c].port = cdpPort
      /\ \A d \in Chromes : d # c => chromes'[d] = chromes[d]
  BY <1>1, <1>2 DEF ChromesTyped, Chromes
<1>4. OthersAsked' /\ OwnedAsked'
  BY <1>1, <1>2, <1>3 DEF OthersAsked, OwnedAsked, ChromesTyped, Runs, Chromes
<1> QED BY <1>2, <1>3, <1>4 DEF RecoverForgets, Recovering

LEMMA StopOwnedInv ==
  ASSUME LauncherInv, StopOwned
  PROVE  LauncherInv'
<1> USE LauncherAssumption DEF LauncherInv
<1>1. /\ launchStep = "stop" /\ launchStep' = "probe"
      /\ chromes' = [chromes EXCEPT ![owned].state = "gone"]
      /\ UNCHANGED <<owned, cdpPort, request, sessionIn, answerless>>
  BY DEF StopOwned
<1>2. ChromesTyped'
  BY <1>1 DEF ChromesTyped
<1>3. \A c \in Chromes : chromes'[c].port = chromes[c].port /\ (Runs(c)' => Runs(c))
  BY <1>1 DEF ChromesTyped, Runs
<1> QED
  BY <1>1, <1>2, <1>3
  DEF OthersAsked, OwnedAsked, RecoverForgets, Recovering, ChromesTyped, Chromes

\* The steps of a call that leave the Chromes alone.
LEMMA StepsInv ==
  ASSUME LauncherInv,
         \/ \E kind \in {"tool", "launch", "recover", "hard"} : BeginCall(kind)
         \/ CheckPort \/ SpawnFails \/ Await \/ RunTool \/ BeginRecover \/ AfterRecover
         \/ RecoverTab
  PROVE  LauncherInv'
<1> USE LauncherAssumption DEF LauncherInv
<1>1. UNCHANGED <<chromes, owned, answerless>> /\ cdpPort' \in Ports
  BY DEF BeginCall, CheckPort, SpawnFails, Await, RunTool, BeginRecover, AfterRecover, RecoverTab,
         StepsTo, machineVars, ChromesTyped
<1>2. ChromesTyped' /\ OthersAsked'
  BY <1>1 DEF ChromesTyped, OthersAsked, Runs
<1>3. OwnedAsked'
  BY <1>1
  DEF OwnedAsked, BeginCall, CheckPort, SpawnFails, Await, RunTool, BeginRecover, AfterRecover,
      RecoverTab, StepsTo, Next1, Runs
<1>4. RecoverForgets'
  BY DEF RecoverForgets, Recovering, BeginCall, CheckPort, SpawnFails, Await, RunTool,
         BeginRecover, AfterRecover, RecoverTab, StepsTo, Next1, OpensTab
<1> QED BY <1>2, <1>3, <1>4

LEMMA LauncherNextInv ==
  ASSUME LauncherInv, [LauncherNext]_launcherVars
  PROVE  LauncherInv'
<1>1. CASE UNCHANGED launcherVars
  BY <1>1
  DEF launcherVars, machineVars, LauncherInv, ChromesTyped, OthersAsked, OwnedAsked,
      RecoverForgets, Recovering, Runs
<1> QED BY <1>1, MachineInv, ProbeInv, SpawnInv, StopOwnedInv, StepsInv DEF LauncherNext

\* However slow, hung or contested Chromes are, one that the server has lost the handle of
\* did not answer before, and a recovery ends with the session in the Chrome of the port, or
\* with no tab (launcher.py).
THEOREM StraysCorrect == LauncherSpec => []StraysDidNotAnswer
<1>1. LauncherInv => StraysDidNotAnswer
  BY DEF LauncherInv, OthersAsked, RecoverForgets, Recovering, StraysDidNotAnswer
<1> QED BY <1>1, LauncherInitInv, LauncherNextInv, PTL DEF LauncherSpec

-----------------------------------------------------------------------------
(* What installs leave behind.                                             *)

BeforeManifests == {"discover", "wrapper", "half wrapper"}
AtManifests == {"manifest", "half manifest"}

\* A server that installs will still write the wrapper, and manifest t.
WillWriteWrapper(s) == serverAt[s] \in BeforeManifests
WillWrite(s, t) ==
  serverAt[s] \in BeforeManifests \/ (serverAt[s] \in AtManifests /\ nextTarget[s] <= t)

SetupTyped ==
  /\ serverAt \in [SetupServers -> BeforeManifests \cup AtManifests \cup {"off", "runs"}]
  /\ idsKnown \in [SetupServers -> {"default", "all"}] /\ newestIds \in {"default", "all"}
  /\ DOMAIN nextTarget = SetupServers /\ DOMAIN manifests = Targets
  /\ \A s \in SetupServers :
       serverAt[s] \in AtManifests /\ Targets # {} => nextTarget[s] \in Targets

\* What is not as it should be, somebody will write.
WrapperCared ==
  ~disturbed /\ starts # 0 => wrapper = "whole" \/ \E s \in SetupServers : WillWriteWrapper(s)
ManifestsCared ==
  ~disturbed /\ starts # 0 =>
    \A t \in Targets :
      \/ Accepted(t) /\ (overlapped \/ manifests[t] = newestIds)
      \/ \E s \in SetupServers : WillWrite(s, t)

\* Unless installs have overlapped one server at most writes, what the last one found.
InstallWrites(s) == serverAt[s] \notin {"off", "runs", "discover"}
NewestWrites ==
  ~overlapped => \A s \in SetupServers : InstallWrites(s) =>
                   /\ idsKnown[s] = newestIds
                   /\ \A o \in SetupServers : InstallWrites(o) => o = s

SetupInv == SetupTyped /\ WrapperCared /\ ManifestsCared /\ NewestWrites

LEMMA SetupInitInv == SetupInit => SetupInv
BY DEF SetupInit, SetupInv, SetupTyped, WrapperCared, ManifestsCared, NewestWrites, AtManifests,
       BeforeManifests, InstallWrites

LEMMA InvImpliesWhole == SetupInv => SetupIsWhole
<1> SUFFICES ASSUME SetupInv, starts > 0, Installing = {}, ~disturbed
             PROVE  /\ wrapper = "whole"
                    /\ \A t \in Targets : Accepted(t) /\ (overlapped \/ manifests[t] = newestIds)
  BY DEF SetupIsWhole
<1>1. \A s \in SetupServers : serverAt[s] \notin BeforeManifests \cup AtManifests
  BY DEF Installing, BeforeManifests, AtManifests
<1>2. starts # 0
  OBVIOUS
<1> QED BY <1>1, <1>2 DEF SetupInv, WrapperCared, ManifestsCared, WillWriteWrapper, WillWrite

LEMMA TargetFacts ==
  /\ Targets # {} => FirstTarget \in Targets /\ \A t \in Targets : FirstTarget <= t
  /\ \A s \in SetupServers :
       Remaining(s) # {} =>
         LET n == CHOOSE t \in Remaining(s) : \A u \in Remaining(s) : t <= u
         IN  n \in Targets /\ \A t \in Targets : t > nextTarget[s] => n <= t
<1>1. Targets \in SUBSET Nat
  BY SetupAssumption
<1>2. Targets # {} => \E t \in Targets : \A u \in Targets : t <= u
  BY <1>1, LeastOf
<1>3. ASSUME NEW s \in SetupServers, Remaining(s) # {}
      PROVE  \E t \in Remaining(s) : \A u \in Remaining(s) : t <= u
  <2>1. Remaining(s) \in SUBSET Nat
    BY <1>1 DEF Remaining, Later
  <2> QED BY <1>3, <2>1, LeastOf
<1>4. ASSUME NEW s \in SetupServers, Remaining(s) # {}
      PROVE  LET n == CHOOSE t \in Remaining(s) : \A u \in Remaining(s) : t <= u
             IN  n \in Targets /\ \A t \in Targets : t > nextTarget[s] => n <= t
  <2> DEFINE n == CHOOSE t \in Remaining(s) : \A u \in Remaining(s) : t <= u
  <2>1. n \in Remaining(s) /\ \A u \in Remaining(s) : n <= u
    BY <1>3, <1>4
  <2> HIDE DEF n
  <2>2. n \in Targets /\ \A t \in Targets : t > nextTarget[s] => n <= t
    BY <2>1 DEF Remaining, Later
  <2> QED BY <2>2 DEF n
<1> QED BY <1>2, <1>4 DEF FirstTarget

\* Server s makes a step of its install, and the others go on; manifests not its own stay.
LEMMA ServerSteps ==
  ASSUME SetupInv, NEW s \in SetupServers, NEW to \in BeforeManifests \cup AtManifests \cup {"runs"},
         serverAt' = [serverAt EXCEPT ![s] = to], serverAt[s] \in BeforeManifests \cup AtManifests,
         serverAt[s] # "discover", to # "discover",
         UNCHANGED <<idsKnown, newestIds, overlapped, disturbed, starts>>,
         DOMAIN nextTarget' = SetupServers, DOMAIN manifests' = Targets,
         \A o \in SetupServers \ {s} : nextTarget'[o] = nextTarget[o],
         to \in AtManifests /\ Targets # {} => nextTarget'[s] \in Targets,
         ~disturbed /\ starts # 0 => wrapper' = "whole" \/ \E o \in SetupServers : WillWriteWrapper(o)',
         \A t \in Targets :
           \/ manifests'[t] = manifests[t] /\ (WillWrite(s, t) => WillWrite(s, t)')
           \/ manifests'[t] = idsKnown[s]
           \/ WillWrite(s, t)'
  PROVE  SetupInv'
<1>1. SetupTyped /\ NewestWrites /\ ManifestsCared /\ InstallWrites(s)
  BY DEF SetupInv, InstallWrites, BeforeManifests, AtManifests
<1>2. /\ serverAt'[s] = to /\ \A o \in SetupServers \ {s} : serverAt'[o] = serverAt[o]
  BY <1>1 DEF SetupTyped
<1>3. SetupTyped'
  BY <1>1, <1>2 DEF SetupTyped
<1>4. NewestWrites'
  BY <1>1, <1>2 DEF NewestWrites, InstallWrites
<1>5. \A o \in SetupServers \ {s}, t \in Targets : WillWrite(o, t) => WillWrite(o, t)'
  BY <1>2 DEF WillWrite
<1>6. idsKnown[s] \in {"default", "all"} /\ (overlapped \/ idsKnown[s] = newestIds)
  BY <1>1 DEF SetupTyped, NewestWrites
<1>7. ManifestsCared'
  BY <1>1, <1>5, <1>6 DEF ManifestsCared, Accepted
<1>8. WrapperCared'
  BY DEF WrapperCared
<1> QED BY <1>3, <1>4, <1>7, <1>8 DEF SetupInv

\* What is found from now on need not work; nobody begins to write.
LEMMA Disturbs ==
  ASSUME SetupInv, disturbed', UNCHANGED <<idsKnown, newestIds, overlapped>>, SetupTyped',
         \A s \in SetupServers : InstallWrites(s)' => InstallWrites(s)
  PROVE  SetupInv'
BY DEF SetupInv, WrapperCared, ManifestsCared, NewestWrites

\* A server that does not write becomes another that does not.
LEMMA OthersStep ==
  ASSUME SetupInv, NEW s \in SetupServers, NEW to \in {"discover", "off"},
         serverAt[s] \in {"off", "runs"}, serverAt' = [serverAt EXCEPT ![s] = to],
         starts' # 0 => starts # 0 \/ to = "discover",
         ~disturbed' => ~disturbed,
         UNCHANGED <<idsKnown, nextTarget, setupFiles, newestIds, overlapped>>
  PROVE  SetupInv'
<1>1. SetupTyped /\ UNCHANGED <<wrapper, manifests>>
  BY DEF SetupInv, setupFiles
<1>2. serverAt'[s] = to /\ \A o \in SetupServers \ {s} : serverAt'[o] = serverAt[o]
  BY <1>1 DEF SetupTyped
<1>3. SetupTyped'
  BY <1>1, <1>2 DEF SetupTyped, BeforeManifests, AtManifests
<1>4. NewestWrites'
  BY <1>2 DEF SetupInv, NewestWrites, InstallWrites
<1>5. \A o \in SetupServers :
        /\ WillWriteWrapper(o) => WillWriteWrapper(o)'
        /\ \A t \in Targets : WillWrite(o, t) => WillWrite(o, t)'
  BY <1>2 DEF WillWriteWrapper, WillWrite, BeforeManifests, AtManifests
<1>6. to = "discover" => WillWriteWrapper(s)' /\ \A t \in Targets : WillWrite(s, t)'
  BY <1>2 DEF WillWriteWrapper, WillWrite, BeforeManifests
<1>7. WrapperCared' /\ ManifestsCared'
  <2>1. CASE to = "discover"
    BY <1>6, <2>1 DEF WrapperCared, ManifestsCared
  <2>2. CASE to # "discover"
    <3>1. starts' # 0 => starts # 0
      BY <2>2
    <3>2. WrapperCared'
      BY <1>1, <1>5, <3>1 DEF SetupInv, WrapperCared
    <3>3. ManifestsCared'
      BY <1>1, <1>5, <3>1 DEF SetupInv, ManifestsCared, Accepted
    <3> QED BY <3>2, <3>3
  <2> QED BY <2>1, <2>2
<1> QED BY <1>3, <1>4, <1>7 DEF SetupInv

LEMMA DiscoverInv ==
  ASSUME SetupInv, NEW s \in SetupServers, DiscoverIds(s)
  PROVE  SetupInv'
<1>1. /\ serverAt[s] = "discover" /\ serverAt' = [serverAt EXCEPT ![s] = "wrapper"]
      /\ idsKnown' = [idsKnown EXCEPT ![s] = IF secondCopy THEN "all" ELSE "default"]
      /\ newestIds' = idsKnown'[s] /\ UNCHANGED <<nextTarget, manifests>>
      /\ overlapped' = (\E o \in Installing \ {s} : serverAt[o] # "discover")
  BY DEF DiscoverIds, MovesTo, setupFiles
<1>2. SetupTyped
  BY DEF SetupInv
<1>3. /\ serverAt'[s] = "wrapper" /\ \A o \in SetupServers \ {s} : serverAt'[o] = serverAt[o]
      /\ idsKnown'[s] \in {"default", "all"}
  BY <1>1, <1>2 DEF SetupTyped
<1>4. SetupTyped'
  BY <1>1, <1>2, <1>3 DEF SetupTyped, BeforeManifests, AtManifests
<1>5. WrapperCared' /\ ManifestsCared'
  <2>1. WillWriteWrapper(s)' /\ \A t \in Targets : WillWrite(s, t)'
    BY <1>3 DEF WillWriteWrapper, WillWrite, BeforeManifests
  <2> QED BY <2>1 DEF WrapperCared, ManifestsCared
<1>6. ~overlapped' => \A o \in SetupServers : InstallWrites(o)' => o = s
  BY <1>1, <1>3 DEF Installing, InstallWrites
<1>7. NewestWrites'
  BY <1>1, <1>6 DEF NewestWrites
<1> QED BY <1>4, <1>5, <1>7 DEF SetupInv

LEMMA WritesInv ==
  ASSUME SetupInv, NEW s \in SetupServers,
         OpenWrapper(s) \/ WriteWrapper(s) \/ OpenManifest(s) \/ WriteManifest(s)
  PROVE  SetupInv'
<1>1. SetupTyped /\ WrapperCared /\ (Targets # {} => FirstTarget \in Targets) /\ Targets \subseteq Nat
  BY TargetFacts, SetupAssumption DEF SetupInv
<1>2. CASE OpenWrapper(s)
  <2>1. /\ serverAt[s] = "wrapper" /\ serverAt' = [serverAt EXCEPT ![s] = "half wrapper"]
        /\ UNCHANGED <<nextTarget, idsKnown, manifests, newestIds, overlapped, disturbed, starts>>
    BY <1>2 DEF OpenWrapper, MovesTo, installVars, setupHistory
  <2>2. serverAt'[s] = "half wrapper"
    BY <1>1, <2>1 DEF SetupTyped
  <2>3. WillWriteWrapper(s)' /\ \A t \in Targets : WillWrite(s, t)'
    BY <2>2 DEF WillWriteWrapper, WillWrite, BeforeManifests
  <2>4. DOMAIN nextTarget' = SetupServers /\ DOMAIN manifests' = Targets
    BY <1>1, <2>1 DEF SetupTyped
  <2> QED BY <2>1, <2>3, <2>4, ServerSteps DEF BeforeManifests, AtManifests
<1>3. CASE WriteWrapper(s)
  <2>1. /\ serverAt[s] = "half wrapper" /\ serverAt' = [serverAt EXCEPT ![s] = "manifest"]
        /\ wrapper' = "whole" /\ nextTarget' = [nextTarget EXCEPT ![s] = FirstTarget]
        /\ UNCHANGED <<idsKnown, manifests, newestIds, overlapped, disturbed, starts>>
    BY <1>3 DEF WriteWrapper, MovesTo, setupHistory
  <2>2. /\ serverAt'[s] = "manifest" /\ nextTarget'[s] = FirstTarget
        /\ \A o \in SetupServers \ {s} : nextTarget'[o] = nextTarget[o]
        /\ DOMAIN nextTarget' = SetupServers /\ DOMAIN manifests' = Targets
    BY <1>1, <2>1 DEF SetupTyped
  <2>3. \A t \in Targets : WillWrite(s, t)'
    BY <2>2, TargetFacts DEF WillWrite, AtManifests
  <2> QED BY <1>1, <2>1, <2>2, <2>3, ServerSteps DEF BeforeManifests, AtManifests
<1>4. CASE OpenManifest(s)
  <2>1. /\ serverAt[s] = "manifest" /\ serverAt' = [serverAt EXCEPT ![s] = "half manifest"]
        /\ manifests' = [manifests EXCEPT ![nextTarget[s]] = "partial"]
        /\ UNCHANGED <<idsKnown, nextTarget, wrapper, newestIds, overlapped, disturbed, starts>>
    BY <1>4 DEF OpenManifest, MovesTo, installVars, setupHistory
  <2>2. /\ serverAt'[s] = "half manifest" /\ DOMAIN nextTarget' = SetupServers
        /\ DOMAIN manifests' = Targets
        /\ \A o \in SetupServers \ {s} : serverAt'[o] = serverAt[o]
        /\ Targets # {} => nextTarget[s] \in Targets
    BY <1>1, <2>1 DEF SetupTyped, AtManifests
  <2>3. ASSUME NEW t \in Targets
        PROVE  \/ manifests'[t] = manifests[t] /\ (WillWrite(s, t) => WillWrite(s, t)')
               \/ WillWrite(s, t)'
    <3>1. CASE t = nextTarget[s]
      <4>1. t \in Nat /\ nextTarget' = nextTarget
        BY <1>1, <2>1
      <4>2. t <= t
        BY <4>1
      <4>3. nextTarget'[s] <= t
        BY <3>1, <4>1, <4>2
      <4> QED BY <2>2, <4>3 DEF WillWrite, AtManifests
    <3>2. CASE t # nextTarget[s]
      <4>1. manifests'[t] = manifests[t]
        BY <1>1, <2>1, <3>2 DEF SetupTyped
      <4>2. WillWrite(s, t) => WillWrite(s, t)'
        BY <2>1, <2>2 DEF WillWrite, AtManifests, BeforeManifests
      <4> QED BY <4>1, <4>2
    <3> QED BY <3>1, <3>2
  <2>4. \A o \in SetupServers : WillWriteWrapper(o) => WillWriteWrapper(o)'
    BY <2>1, <2>2 DEF WillWriteWrapper, BeforeManifests
  <2>5. ~disturbed /\ starts # 0 => wrapper' = "whole" \/ \E o \in SetupServers : WillWriteWrapper(o)'
    BY <1>1, <2>1, <2>4 DEF WrapperCared
  <2> QED BY <2>1, <2>2, <2>3, <2>5, ServerSteps DEF BeforeManifests, AtManifests
<1>5. CASE WriteManifest(s)
  <2> DEFINE n == CHOOSE t \in Remaining(s) : \A u \in Remaining(s) : t <= u
             to == IF Remaining(s) = {} THEN "runs" ELSE "manifest"
  <2>1. /\ serverAt[s] = "half manifest" /\ serverAt' = [serverAt EXCEPT ![s] = to]
        /\ manifests' = [manifests EXCEPT ![nextTarget[s]] = idsKnown[s]]
        /\ nextTarget' = IF Remaining(s) = {} THEN nextTarget ELSE [nextTarget EXCEPT ![s] = n]
        /\ UNCHANGED <<idsKnown, wrapper, newestIds, overlapped, disturbed, starts>>
    BY <1>5 DEF WriteManifest, NextFile, InstallEnds, MovesTo, setupHistory
  <2>2. Remaining(s) # {} => n \in Targets /\ \A t \in Targets : t > nextTarget[s] => n <= t
    BY TargetFacts
  <2>3. Remaining(s) = {} => \A t \in Targets : ~(t > nextTarget[s])
    BY DEF Remaining, Later
  <2> HIDE DEF n
  <2>4. /\ serverAt'[s] = to /\ DOMAIN nextTarget' = SetupServers /\ DOMAIN manifests' = Targets
        /\ Remaining(s) # {} => nextTarget'[s] = n
        /\ \A o \in SetupServers \ {s} : serverAt'[o] = serverAt[o] /\ nextTarget'[o] = nextTarget[o]
        /\ Targets # {} => nextTarget[s] \in Targets
    BY <1>1, <2>1 DEF SetupTyped, AtManifests
  <2>5. ASSUME NEW t \in Targets
        PROVE  \/ manifests'[t] = manifests[t] /\ (WillWrite(s, t) => WillWrite(s, t)')
               \/ manifests'[t] = idsKnown[s]
    <3>1. CASE t = nextTarget[s]
      BY <1>1, <2>1, <3>1 DEF SetupTyped
    <3>2. CASE t # nextTarget[s]
      <4>1. manifests'[t] = manifests[t] /\ nextTarget[s] \in Nat /\ t \in Nat
        BY <1>1, <2>1, <2>4, <3>2 DEF SetupTyped
      <4>2. ASSUME WillWrite(s, t) PROVE WillWrite(s, t)'
        <5>1. t > nextTarget[s]
          <6>1. serverAt[s] \notin BeforeManifests
            BY <2>1 DEF BeforeManifests
          <6>2. nextTarget[s] <= t
            BY <4>2, <6>1 DEF WillWrite
          <6> QED BY <3>2, <4>1, <6>2
        <5>2. Remaining(s) # {} /\ n <= t
          BY <2>2, <2>3, <5>1
        <5> QED BY <2>4, <5>2 DEF WillWrite, AtManifests
      <4> QED BY <4>1, <4>2
    <3> QED BY <3>1, <3>2
  <2>6. \A o \in SetupServers : WillWriteWrapper(o) => WillWriteWrapper(o)'
    BY <2>1, <2>4 DEF WillWriteWrapper, BeforeManifests
  <2>7. ~disturbed /\ starts # 0 => wrapper' = "whole" \/ \E o \in SetupServers : WillWriteWrapper(o)'
    BY <1>1, <2>1, <2>6 DEF WrapperCared
  <2>8. to \in AtManifests /\ Targets # {} => nextTarget'[s] \in Targets
    BY <2>2, <2>4 DEF AtManifests
  <2>9. to \in {"manifest", "runs"}
    OBVIOUS
  <2> HIDE DEF to
  <2> QED BY <2>1, <2>4, <2>5, <2>7, <2>8, <2>9, ServerSteps DEF BeforeManifests, AtManifests
<1> QED BY <1>2, <1>3, <1>4, <1>5

LEMMA MishapsInv ==
  ASSUME SetupInv,
         \/ FileChanges
         \/ \E s \in SetupServers : InstallError(s) \/ ServerKilled(s) \/ ServerExits(s)
  PROVE  SetupInv'
<1>1. SetupTyped /\ Targets \subseteq Nat
  BY SetupAssumption DEF SetupInv
<1>2. CASE FileChanges
  <2>1. /\ disturbed' /\ UNCHANGED <<serverAt, nextTarget, idsKnown, newestIds, overlapped>>
        /\ \/ manifests' = manifests
           \/ \E t \in Targets, to \in {"missing", "writable"} :
                manifests' = [manifests EXCEPT ![t] = to]
    BY <1>2 DEF FileChanges, Mishap, installVars
  <2>2. SetupTyped'
    BY <1>1, <2>1 DEF SetupTyped
  <2> QED BY <2>1, <2>2, Disturbs DEF InstallWrites
<1>3. ASSUME NEW s \in SetupServers, InstallError(s) PROVE SetupInv'
  <2> DEFINE n == CHOOSE t \in Remaining(s) : \A u \in Remaining(s) : t <= u
  <2>1. /\ disturbed' /\ UNCHANGED <<idsKnown, manifests, newestIds, overlapped>>
        /\ \/ serverAt' = [serverAt EXCEPT ![s] = "runs"] /\ UNCHANGED nextTarget
           \/ /\ serverAt[s] \in {"manifest", "half manifest"} /\ Remaining(s) # {}
              /\ serverAt' = [serverAt EXCEPT ![s] = "manifest"]
              /\ nextTarget' = [nextTarget EXCEPT ![s] = n]
    BY <1>3 DEF InstallError, Mishap, InstallEnds, NextFile, MovesTo, setupFiles
  <2>2. Remaining(s) # {} => n \in Targets
    BY TargetFacts
  <2> HIDE DEF n
  <2>3. SetupTyped'
    BY <1>1, <2>1, <2>2 DEF SetupTyped, BeforeManifests, AtManifests
  <2>4. \A o \in SetupServers : InstallWrites(o)' => InstallWrites(o)
    BY <1>1, <2>1 DEF InstallWrites, SetupTyped
  <2> QED BY <2>1, <2>3, <2>4, Disturbs
<1>4. ASSUME NEW s \in SetupServers, ServerKilled(s) \/ (ServerExits(s) /\ disturbed') PROVE SetupInv'
  <2>1. /\ disturbed' /\ UNCHANGED <<nextTarget, idsKnown, manifests, newestIds, overlapped>>
        /\ serverAt' = [serverAt EXCEPT ![s] = "off"]
    BY <1>4 DEF ServerKilled, ServerExits, ServerGone, Mishap, MovesTo, setupFiles
  <2>2. SetupTyped'
    BY <1>1, <2>1 DEF SetupTyped, BeforeManifests, AtManifests
  <2>3. \A o \in SetupServers : InstallWrites(o)' => InstallWrites(o)
    BY <1>1, <2>1 DEF InstallWrites, SetupTyped
  <2> QED BY <2>1, <2>2, <2>3, Disturbs
<1>5. ASSUME NEW s \in SetupServers, ServerExits(s), ~disturbed' PROVE SetupInv'
  <2>1. /\ s \notin Installing /\ ~disturbed /\ ~disturbed'
        /\ serverAt' = [serverAt EXCEPT ![s] = "off"]
        /\ UNCHANGED <<idsKnown, nextTarget, setupFiles, newestIds, overlapped, starts>>
    BY <1>5 DEF ServerExits, ServerGone, MovesTo
  <2>2. serverAt[s] \in {"off", "runs"}
    BY <2>1 DEF Installing
  <2> QED BY <2>1, <2>2, OthersStep
<1> QED BY <1>2, <1>3, <1>4, <1>5

LEMMA SetupNextInv ==
  ASSUME SetupInv, [SetupNext]_setupVars
  PROVE  SetupInv'
<1>1. ASSUME NEW s \in SetupServers, StartServer(s) \/ Heal(s) PROVE SetupInv'
  <2>1. /\ serverAt[s] \in {"off", "runs"} /\ serverAt' = [serverAt EXCEPT ![s] = "discover"]
        /\ UNCHANGED <<idsKnown, nextTarget, setupFiles, newestIds, overlapped, disturbed>>
    BY <1>1 DEF StartServer, Heal, MovesTo, installVars, setupHistory
  <2> QED BY <2>1, OthersStep
<1>2. ASSUME \/ SecondCopyAppears \/ BridgeChanges \/ UNCHANGED setupVars
             \/ \E s \in SetupServers : LinksUp(s) \/ PromoteToLeader(s) \/ HealerSeesLink(s)
      PROVE  SetupInv'
  <2>1. UNCHANGED <<serverAt, idsKnown, nextTarget, wrapper, manifests, starts, newestIds,
                    overlapped, disturbed>>
    BY <1>2 DEF SecondCopyAppears, BridgeChanges, setupVars, LinksUp, PromoteToLeader,
       HealerSeesLink, installVars, setupFiles, setupHistory
  <2> QED BY <2>1 DEF SetupInv, SetupTyped, WrapperCared, ManifestsCared, NewestWrites, Accepted,
                      WillWriteWrapper, WillWrite, InstallWrites
<1>3. ASSUME NEW s \in SetupServers, DiscoverIds(s) PROVE SetupInv'
  BY <1>3, DiscoverInv
<1>4. ASSUME NEW s \in SetupServers,
             OpenWrapper(s) \/ WriteWrapper(s) \/ OpenManifest(s) \/ WriteManifest(s)
      PROVE  SetupInv'
  BY <1>4, WritesInv
<1>5. ASSUME NEW s \in SetupServers, InstallError(s) \/ ServerKilled(s) \/ ServerExits(s)
      PROVE  SetupInv'
  BY <1>5, MishapsInv
<1>6. CASE FileChanges
  BY <1>6, MishapsInv
<1> QED BY <1>1, <1>2, <1>3, <1>4, <1>5, <1>6 DEF SetupNext

\* However servers start, install, heal, exit and are killed, once no install runs and nothing
\* went wrong after the last one began, the wrapper is whole and each manifest is accepted, and
\* it allows the ids that the last one found, unless an older one ran beside it
\* (native_host_installer.py, extension_auto_heal.py).
THEOREM SetupCorrect == SetupSpec => []SetupIsWhole
BY SetupInitInv, SetupNextInv, InvImpliesWhole, PTL DEF SetupSpec

-----------------------------------------------------------------------------
(* Calls by the gateway of another process.                                *)

Call == [at : {"none", "looking", "chosen", "sending", "waiting", "over"}, on : 0..MaxSockets,
         id : 0..MaxIds, future : {"none", "result", "error"}, from : Callers \cup {NoCaller}]
AskedTyped == asked \in [Callers -> Call]
CallsTyped ==
  /\ AskedTyped /\ nextId \in 1..(MaxIds + 1)
  /\ futures \in [1..MaxIds -> Callers \cup {NoCaller}] /\ unsent \subseteq PeerCalls
TaskTyped ==
  /\ task \in {"off", "dialing", "dialed", "hello", "serving"} /\ ready \in BOOLEAN
  /\ {socketNow, lastSocket, loopSince} \subseteq 0..MaxSockets /\ clients \in 0..MaxClients
  /\ gatewayEnd \in [Sockets -> {"unused", "hello", "serving", "over"}]
  /\ clientEnd \in [Sockets -> {"unused", "open", "closed", "broken"}]
  /\ strangers = {}
WiresTyped == toGateway \in [Sockets -> Seq(Message)] /\ toClient \in [Sockets -> Seq(Message)]

\* Ids are given once, and a call that waits is found under its own.
IdsOnce ==
  /\ \A c \in Callers :
       /\ asked[c].id < nextId
       /\ asked[c].at \in {"none", "looking", "chosen"} => asked[c].id = 0
       /\ asked[c].at \in {"sending", "waiting"} => asked[c].id # 0
  /\ \A c, d \in Callers : asked[c].id = asked[d].id => asked[c].id = 0 \/ c = d
FuturesFound ==
  /\ \A i \in 1..MaxIds : futures[i] # NoCaller => asked[futures[i]].id = i
  /\ \A c \in Callers :
       /\ asked[c].future = "result" => asked[c].from = c
       /\ asked[c].at \in {"sending", "waiting"} /\ asked[c].future = "none" =>
            futures[asked[c].id] = c
UnsentAsked ==
  \A c \in unsent : asked[c].id # 0 /\ asked[c].on \in Sockets /\ asked[c].at \in {"sending", "over"}
CallsInv == CallsTyped /\ IdsOnce /\ FuturesFound /\ UnsentAsked

\* What is on the wires has been asked.
IsAsked(m) == m.for \in Callers /\ m.id = asked[m.for].id /\ m.id # 0
AskedOnly(wire) == \A i \in 1..Len(wire) : wire[i] = Greeting \/ IsAsked(wire[i])
WiresInv == \A s \in Sockets : AskedOnly(toGateway[s]) /\ AskedOnly(toClient[s])

\* Connections begin one after the other, and with the greeting.
OneOpen ==
  /\ task \in {"dialed", "hello", "serving"} => lastSocket # 0
  /\ \A s \in Sockets :
       /\ clientEnd[s] = "open" => s = lastSocket /\ task \in {"dialed", "hello", "serving"}
       /\ s > lastSocket => toGateway[s] = <<>> /\ toClient[s] = <<>>
GreetFirst ==
  \A s \in Sockets :
    /\ gatewayEnd[s] = "hello" =>
         toClient[s] = <<>> /\ (toGateway[s] = <<>> \/ toGateway[s][1] = Greeting)
    /\ \A i \in 2..Len(toClient[s]) : toClient[s][i] # Greeting
Begun ==
  LET s == lastSocket
  IN  /\ task = "dialed" =>
           gatewayEnd[s] \in {"hello", "over"} /\ toGateway[s] = <<>> /\ toClient[s] = <<>>
      /\ task = "hello" =>
           /\ gatewayEnd[s] = "hello" => toGateway[s] # <<>>
           /\ toClient[s] # <<>> => toClient[s][1] = Greeting
           /\ gatewayEnd[s] = "serving" /\ clientEnd[s] = "open" => toClient[s] # <<>>
      /\ task = "serving" =>
           /\ gatewayEnd[s] # "hello"
           /\ \A i \in 1..Len(toClient[s]) : toClient[s][i] # Greeting
GreetingInv == OneOpen /\ GreetFirst /\ Begun

PeerLinkInv == TaskTyped /\ WiresTyped /\ CallsInv /\ WiresInv /\ GreetingInv

LEMMA PeerLinkInitInv == PeerLinkInit => PeerLinkInv
<1> SUFFICES ASSUME PeerLinkInit PROVE PeerLinkInv
  OBVIOUS
<1> USE PeerLinkAssumption DEF PeerLinkInit
<1>b. 0 \in 0..MaxSockets /\ 0 \in 0..MaxClients
  OBVIOUS
<1>1. TaskTyped
  BY <1>b DEF TaskTyped
<1>a. WiresTyped
  BY DEF WiresTyped
<1>2. CallsInv
  BY DEF CallsInv, CallsTyped, AskedTyped, Call, IdsOnce, FuturesFound, UnsentAsked, NotAsked
<1>3. WiresInv
  BY DEF WiresInv, AskedOnly
<1>4. GreetingInv
  BY DEF GreetingInv, OneOpen, GreetFirst, Begun
<1> QED BY <1>1, <1>a, <1>2, <1>3, <1>4 DEF PeerLinkInv

-----------------------------------------------------------------------------
\* A call whose id and connection stay takes its messages with it.
LEMMA WiresKept ==
  ASSUME WiresInv, UNCHANGED <<toGateway, toClient>>,
         \A c \in Callers : asked[c].id # 0 => asked'[c].id = asked[c].id
  PROVE  WiresInv'
BY DEF WiresInv, AskedOnly, IsAsked

\* What changes calls alone leaves the connections as they are.
LEMMA ConnectionsKept ==
  ASSUME PeerLinkInv, UNCHANGED <<linkTask, sockets>>
  PROVE  TaskTyped' /\ WiresTyped' /\ GreetingInv'
BY DEF PeerLinkInv, TaskTyped, WiresTyped, GreetingInv, OneOpen, GreetFirst, Begun, linkTask,
       sockets

\* A call begins, ends, or fails: its id stays, and a future that goes is its own.
LEMMA CallMoves ==
  ASSUME CallsInv, NEW c \in Callers,
         NEW r \in Call,
         asked' = [asked EXCEPT ![c] = r], r.id = asked[c].id, r.from = asked[c].from,
         r.future \in {asked[c].future, "error"},
         r.at \in {"none", "looking", "chosen"} => r.id = 0,
         r.at \in {"sending", "waiting"} => asked[c].at \in {"sending", "waiting"},
         \/ futures' = futures
         \/ futures' = Popped({asked[c].id}) /\ (r.at = "over" \/ r.future # "none"),
         nextId' = nextId, unsent' \subseteq unsent,
         c \in unsent' => r.at \in {"sending", "over"} /\ r.on = asked[c].on
  PROVE  CallsInv' /\ \A d \in Callers : asked'[d].id = asked[d].id
<1> USE DEF CallsInv, Call
<1>1. AskedTyped /\ AskedTyped' /\ \A d \in Callers : d # c => asked'[d] = asked[d]
  BY DEF CallsTyped, AskedTyped
<1>2. asked'[c] = r /\ asked[c].id \in 0..MaxIds
  BY DEF CallsTyped, AskedTyped
<1>3. \A d \in Callers : asked'[d].id = asked[d].id
  BY <1>1, <1>2
<1>4. CallsTyped'
  BY <1>1 DEF CallsTyped, Popped
<1>5. IdsOnce'
  BY <1>1, <1>2, <1>3 DEF IdsOnce
<1>6. FuturesFound'
  <2>1. \A i \in 1..MaxIds : futures'[i] # NoCaller => futures'[i] = futures[i] /\ futures[i] \in Callers
    BY DEF Popped, CallsTyped
  <2>2. \A i \in 1..MaxIds : futures'[i] # NoCaller => asked'[futures'[i]].id = i
    BY <2>1, <1>3 DEF FuturesFound
  <2>3. ASSUME NEW d \in Callers
        PROVE  /\ asked'[d].future = "result" => asked'[d].from = d
               /\ asked'[d].at \in {"sending", "waiting"} /\ asked'[d].future = "none" =>
                    futures'[asked'[d].id] = d
    <3>1. CASE d = c
      <4>1. asked'[d] = r
        BY <3>1, <1>2
      <4>2. r.future = "result" => asked[c].future = "result"
        OBVIOUS
      <4>3. r.at \in {"sending", "waiting"} /\ r.future = "none" =>
              asked[c].at \in {"sending", "waiting"} /\ asked[c].future = "none" /\ futures' = futures
        OBVIOUS
      <4>4. /\ asked[c].future = "result" => asked[c].from = c
            /\ asked[c].at \in {"sending", "waiting"} /\ asked[c].future = "none" =>
                 futures[asked[c].id] = c
        BY DEF FuturesFound
      <4>5. r.future = "result" => r.from = c
        BY <4>2, <4>4
      <4>6. r.at \in {"sending", "waiting"} /\ r.future = "none" => futures'[r.id] = c
        BY <4>3, <4>4
      <4> QED BY ONLY <3>1, <4>1, <4>5, <4>6
    <3>2. CASE d # c
      <4>1. asked'[d] = asked[d]
        BY <3>2, <1>1
      <4>2. ASSUME asked[d].at \in {"sending", "waiting"} PROVE asked[d].id \in 1..MaxIds /\ asked[d].id # asked[c].id
        BY <3>2, <4>2, <1>1 DEF IdsOnce, AskedTyped
      <4>3. \A i \in 1..MaxIds : i # asked[c].id => futures'[i] = futures[i]
        BY DEF Popped
      <4>4. /\ asked[d].future = "result" => asked[d].from = d
            /\ asked[d].at \in {"sending", "waiting"} /\ asked[d].future = "none" =>
                 futures[asked[d].id] = d
        BY DEF FuturesFound
      <4> QED BY ONLY <4>1, <4>2, <4>3, <4>4
    <3> QED BY <3>1, <3>2
  <2> QED BY <2>2, <2>3 DEF FuturesFound
<1>7. UnsentAsked'
  <2> SUFFICES ASSUME NEW d \in unsent' PROVE asked'[d].id # 0 /\ asked'[d].on \in Sockets /\ asked'[d].at \in {"sending", "over"}
    BY DEF UnsentAsked
  <2>1. d \in Callers /\ d \in unsent
    BY DEF CallsTyped, Callers
  <2> QED BY <1>1, <1>2, <1>3, <2>1 DEF UnsentAsked
<1> QED BY <1>3, <1>4, <1>5, <1>6, <1>7

\* A call gets its id.
LEMMA CallRegistered ==
  ASSUME CallsInv, NEW c \in Callers, asked[c].at \in {"none", "chosen"}, nextId <= MaxIds,
         NEW r \in Call,
         asked' = [asked EXCEPT ![c] = r], r.id = nextId, r.from = asked[c].from,
         r.future \in {asked[c].future, "error"}, r.at \in {"sending", "waiting", "over"},
         futures' = [futures EXCEPT ![nextId] = c], nextId' = nextId + 1,
         unsent' \subseteq unsent \cup {c}, unsent' \subseteq PeerCalls,
         c \in unsent' => r.at = "sending" /\ r.on \in Sockets
  PROVE  CallsInv' /\ \A d \in Callers : asked[d].id # 0 => asked'[d].id = asked[d].id
<1> USE DEF CallsInv, Call
<1>1. AskedTyped /\ AskedTyped' /\ \A d \in Callers : d # c => asked'[d] = asked[d]
  BY DEF CallsTyped, AskedTyped
<1>2. asked'[c] = r /\ asked[c].id = 0 /\ nextId \in 1..MaxIds
  BY PeerLinkAssumption DEF CallsTyped, AskedTyped, IdsOnce
<1>3. \A d \in Callers : asked[d].id # 0 => asked'[d].id = asked[d].id /\ d # c
  BY <1>1, <1>2
<1>4. CallsTyped'
  BY <1>1, <1>2, PeerLinkAssumption DEF CallsTyped
<1>a. \A d \in Callers : asked[d].id \in 0..MaxIds /\ asked[d].id < nextId
  BY <1>1 DEF AskedTyped, IdsOnce
<1>5. IdsOnce'
  <2>1. \A d \in Callers : asked'[d].id = IF d = c THEN nextId ELSE asked[d].id
    BY <1>1, <1>2
  <2>2. ASSUME NEW d \in Callers
        PROVE  /\ asked'[d].id < nextId'
               /\ asked'[d].at \in {"none", "looking", "chosen"} => asked'[d].id = 0
               /\ asked'[d].at \in {"sending", "waiting"} => asked'[d].id # 0
    <3>1. CASE d = c
      BY <1>2, <3>1
    <3>2. CASE d # c
      BY <1>1, <1>2, <1>a, <3>2 DEF IdsOnce
    <3> QED BY <3>1, <3>2
  <2>3. ASSUME NEW d \in Callers, NEW e \in Callers, asked'[d].id = asked'[e].id, asked'[d].id # 0
        PROVE  d = e
    BY <1>2, <1>a, <2>1, <2>3 DEF IdsOnce
  <2> QED BY <2>2, <2>3 DEF IdsOnce
<1>6. FuturesFound'
  <2>1. \A i \in 1..MaxIds : futures'[i] = IF i = nextId THEN c ELSE futures[i]
    BY <1>2 DEF CallsTyped
  <2>2. ASSUME NEW i \in 1..MaxIds, futures'[i] # NoCaller PROVE asked'[futures'[i]].id = i
    <3>1. CASE i = nextId
      BY <1>2, <2>1, <3>1
    <3>2. CASE i # nextId
      <4>1. futures[i] \in Callers /\ asked[futures[i]].id = i
        BY <2>1, <2>2, <3>2 DEF FuturesFound, CallsTyped
      <4> QED BY <1>3, <2>1, <3>2, <4>1
    <3> QED BY <3>1, <3>2
  <2>3. ASSUME NEW d \in Callers
        PROVE  /\ asked'[d].future = "result" => asked'[d].from = d
               /\ asked'[d].at \in {"sending", "waiting"} /\ asked'[d].future = "none" =>
                    futures'[asked'[d].id] = d
    <3>0. /\ asked[d].future = "result" => asked[d].from = d
          /\ asked[d].at \in {"sending", "waiting"} /\ asked[d].future = "none" =>
               futures[asked[d].id] = d
      BY DEF FuturesFound
    <3>1. CASE d = c
      <4>1. r.future = "result" => asked[c].future = "result"
        OBVIOUS
      <4> QED BY <1>2, <2>1, <3>0, <3>1, <4>1
    <3>2. CASE d # c
      <4>1. asked[d].at \in {"sending", "waiting"} => asked[d].id \in 1..MaxIds /\ asked[d].id # nextId
        BY <1>a, <1>2 DEF IdsOnce
      <4> QED BY <1>1, <2>1, <3>0, <3>2, <4>1
    <3> QED BY <3>1, <3>2
  <2> QED BY <2>2, <2>3 DEF FuturesFound
<1>7. UnsentAsked'
  <2> SUFFICES ASSUME NEW d \in unsent'
               PROVE  asked'[d].id # 0 /\ asked'[d].on \in Sockets /\ asked'[d].at \in {"sending", "over"}
    BY DEF UnsentAsked
  <2>1. CASE d = c
    BY <1>2, <2>1
  <2>2. CASE d # c
    <3>1. d \in Callers /\ d \in unsent
      BY <2>2 DEF Callers
    <3> QED BY <1>1, <2>2, <3>1 DEF UnsentAsked
  <2> QED BY <2>1, <2>2
<1> QED BY <1>3, <1>4, <1>5, <1>6, <1>7

\* Calls fail, or stay as they are.
LEMMA CallsFail ==
  ASSUME CallsInv, AskedTyped',
         \A c \in Callers :
           /\ asked'[c].id = asked[c].id /\ asked'[c].on = asked[c].on
           /\ asked'[c].from = asked[c].from
           /\ asked'[c].future \in {asked[c].future, "error"}
           /\ asked'[c].at = asked[c].at \/ (c \in Polls /\ asked'[c].at = "over")
           /\ asked'[c].at \in {"sending", "waiting"} /\ asked'[c].future = "none" =>
                futures'[asked[c].id] = futures[asked[c].id],
         futures' \in [1..MaxIds -> Callers \cup {NoCaller}],
         \A i \in 1..MaxIds : futures'[i] \in {futures[i], NoCaller},
         nextId' = nextId, unsent' \subseteq unsent
  PROVE  CallsInv'
<1> USE DEF CallsInv, Call
<1>1. CallsTyped'
  BY DEF CallsTyped
<1>2. IdsOnce'
  BY DEF IdsOnce
<1>3. FuturesFound'
  <2>1. ASSUME NEW i \in 1..MaxIds, futures'[i] # NoCaller PROVE asked'[futures'[i]].id = i
    <3>1. futures'[i] = futures[i] /\ futures[i] \in Callers
      BY <2>1 DEF CallsTyped
    <3>2. asked[futures[i]].id = i
      BY <2>1, <3>1 DEF FuturesFound
    <3> QED BY <3>1, <3>2
  <2>2. ASSUME NEW c \in Callers
        PROVE  /\ asked'[c].future = "result" => asked'[c].from = c
               /\ asked'[c].at \in {"sending", "waiting"} /\ asked'[c].future = "none" =>
                    futures'[asked'[c].id] = c
    <3>1. /\ asked[c].future = "result" => asked[c].from = c
          /\ asked[c].at \in {"sending", "waiting"} /\ asked[c].future = "none" =>
               futures[asked[c].id] = c
      BY DEF FuturesFound
    <3> QED BY <3>1
  <2> QED BY <2>1, <2>2 DEF FuturesFound
<1>4. UnsentAsked'
  BY DEF UnsentAsked, Callers, CallsTyped
<1> QED BY <1>1, <1>2, <1>3, <1>4

\* A message of a call goes to the gateway, on a connection that has been greeted.
LEMMA MessageReaches ==
  ASSUME PeerLinkInv, NEW s \in Sockets, clientEnd[s] = "open", task # "dialed",
         NEW m \in Message, m.for \in Callers, m.id # 0, asked'[m.for].id = m.id, Reaches(s, m),
         UNCHANGED <<linkTask, gatewayEnd, clientEnd, toClient, strangers>>,
         \A c \in Callers : asked[c].id # 0 => asked'[c].id = asked[c].id
  PROVE  TaskTyped' /\ WiresTyped' /\ WiresInv' /\ GreetingInv'
<1> USE DEF PeerLinkInv
<1>1. TaskTyped'
  BY DEF TaskTyped, linkTask
<1>2. toGateway[s] \in Seq(Message) /\ toGateway \in [Sockets -> Seq(Message)]
  BY DEF WiresTyped
<1>3. CASE gatewayEnd[s] = "over"
  <2>1. UNCHANGED toGateway
    BY <1>3 DEF Reaches
  <2>2. WiresInv'
    BY <2>1, WiresKept
  <2> QED BY <1>1, <2>1, <2>2
          DEF WiresTyped, GreetingInv, OneOpen, GreetFirst, Begun, linkTask
<1>4. CASE gatewayEnd[s] # "over"
  <2>1. toGateway' = [toGateway EXCEPT ![s] = Append(toGateway[s], m)]
    BY <1>4 DEF Reaches
  <2>2. PICK q : q = Append(toGateway[s], m)
    OBVIOUS
  <2>3. /\ q \in Seq(Message) /\ Len(q) = Len(toGateway[s]) + 1 /\ q[Len(q)] = m
        /\ \A i \in 1..Len(toGateway[s]) : q[i] = toGateway[s][i]
        /\ Len(toGateway[s]) \in Nat
    BY <1>2, <2>2
  <2>4. /\ \A t \in Sockets : toGateway'[t] = IF t = s THEN q ELSE toGateway[t]
        /\ toGateway' \in [Sockets -> Seq(Message)]
    BY <1>2, <2>1, <2>2, <2>3
  <2>5. WiresTyped'
    BY <2>4 DEF WiresTyped
  <2>6. WiresInv'
    <3>1. \A w : IsAsked(w) => IsAsked(w)'
      BY DEF IsAsked
    <3>2. IsAsked(m)'
      BY DEF IsAsked
    <3>3. \A t \in Sockets : AskedOnly(toClient[t])'
      BY <3>1 DEF WiresInv, AskedOnly
    <3>4. AskedOnly(q)'
      <4>1. \A i \in 1..Len(q) : i = Len(q) \/ i \in 1..Len(toGateway[s])
        BY <2>3
      <4>2. \A i \in 1..Len(toGateway[s]) : toGateway[s][i] = Greeting \/ IsAsked(toGateway[s][i])
        BY DEF WiresInv, AskedOnly
      <4>3. \A i \in 1..Len(q) : q[i] = Greeting \/ IsAsked(q[i])'
        BY <2>3, <3>1, <3>2, <4>1, <4>2
      <4> QED BY <4>3 DEF AskedOnly
    <3>5. \A t \in Sockets : t # s => AskedOnly(toGateway[t])'
      BY <2>4, <3>1 DEF WiresInv, AskedOnly
    <3> QED BY <2>4, <3>3, <3>4, <3>5 DEF WiresInv, AskedOnly
  <2>7. s = lastSocket /\ task \in {"hello", "serving"}
    BY DEF GreetingInv, OneOpen
  <2>8. OneOpen'
    BY <1>1, <2>4, <2>7 DEF GreetingInv, OneOpen, linkTask, TaskTyped, Sockets
  <2>9. gatewayEnd[s] = "hello" => toGateway[s] # <<>> /\ q[1] = Greeting
    <3>1. gatewayEnd[s] = "hello" => toGateway[s] # <<>> /\ toGateway[s][1] = Greeting
      BY <2>7 DEF GreetingInv, GreetFirst, Begun
    <3>2. toGateway[s] # <<>> => 1 \in 1..Len(toGateway[s])
      BY <1>2
    <3> QED BY <2>3, <3>1, <3>2
  <2>a. q # <<>>
    BY <2>3
  <2>10. GreetFirst'
    BY <2>4, <2>9 DEF GreetingInv, GreetFirst
  <2>11. Begun'
    BY <2>4, <2>7, <2>9, <2>a DEF GreetingInv, Begun, linkTask
  <2> QED BY <1>1, <2>5, <2>6, <2>8, <2>10, <2>11 DEF GreetingInv
<1> QED BY <1>3, <1>4

LEMMA CallStepInv ==
  ASSUME PeerLinkInv, NEW c \in PeerCalls,
         CallBegins(c) \/ SocketFound(c) \/ NotConnected(c) \/ Register(c)
  PROVE  PeerLinkInv'
<1> USE DEF PeerLinkInv
<1>0. /\ c \in Callers /\ c \notin Polls /\ AskedTyped
      /\ asked[c].at \notin {"sending", "over"} => c \notin unsent
  BY PeerLinkAssumption DEF Callers, CallsInv, CallsTyped, UnsentAsked
<1>1. TaskTyped' /\ WiresTyped' /\ GreetingInv' /\ UNCHANGED <<toGateway, toClient, linkTask>>
  <2>1. UNCHANGED <<linkTask, sockets>>
    BY DEF CallBegins, SocketFound, NotConnected, Register
  <2> QED BY <2>1, ConnectionsKept DEF sockets
<1>2. socketNow \in 0..MaxSockets
  BY DEF TaskTyped
<1>3. ASSUME CallBegins(c) \/ SocketFound(c) \/ NotConnected(c) PROVE CallsInv' /\ WiresInv'
  <2>1. PICK r : /\ asked' = [asked EXCEPT ![c] = r]
                 /\ r \in {[asked[c] EXCEPT !.at = "chosen", !.on = socketNow],
                          [asked[c] EXCEPT !.at = "looking"],
                          [asked[c] EXCEPT !.at = "over", !.future = "error"]}
    <3>1. CASE asked' = [asked EXCEPT ![c].at = "chosen", ![c].on = socketNow]
      BY <3>1, ZenonT(60)
    <3>2. CASE asked' = [asked EXCEPT ![c].at = "looking"]
      BY <3>2, ZenonT(60)
    <3>3. CASE asked' = [asked EXCEPT ![c].at = "over", ![c].future = "error"]
      BY <3>3, ZenonT(60)
    <3>4. CallBegins(c) \/ SocketFound(c) => asked' = [asked EXCEPT ![c].at = "chosen", ![c].on = socketNow] \/ asked' = [asked EXCEPT ![c].at = "looking"]
      BY ZenonT(60) DEF CallBegins, SocketFound, Moves
    <3>5. NotConnected(c) => asked' = [asked EXCEPT ![c].at = "over", ![c].future = "error"]
      BY DEF NotConnected, Fails
    <3> QED BY <1>3, <3>1, <3>2, <3>3, <3>4, <3>5
  <2>2. asked[c] \in Call
    BY <1>0, <1>3 DEF AskedTyped, CallsInv, CallsTyped
  <2>3. asked[c].at \in {"none", "looking"} /\ UNCHANGED <<nextId, futures, unsent>>
    BY <1>3 DEF CallBegins, SocketFound, NotConnected
  <2>4. asked[c].id = 0
    BY <1>0, <2>3 DEF CallsInv, IdsOnce
  <2>5. /\ r \in Call
        /\ r.id = asked[c].id /\ r.from = asked[c].from /\ r.future \in {asked[c].future, "error"}
        /\ r.at \in {"looking", "chosen", "over"}
    BY <1>2, <2>1, <2>2 DEF Call
  <2>6. CallsInv' /\ \A d \in Callers : asked'[d].id = asked[d].id
    BY <1>0, <2>1, <2>3, <2>4, <2>5, CallMoves DEF CallsInv, CallsTyped
  <2> QED BY <1>1, <2>6, WiresKept
<1>4. ASSUME Register(c) PROVE CallsInv' /\ WiresInv'
  <2>1. DEFINE r == [asked[c] EXCEPT !.at = "sending", !.id = nextId]
  <2>2. asked' = [asked EXCEPT ![c] = r] /\ asked[c].at = "chosen" /\ nextId <= MaxIds
        /\ futures' = [futures EXCEPT ![nextId] = c] /\ nextId' = nextId + 1
        /\ unsent' = IF asked[c].on > loopSince THEN unsent \cup {c} ELSE unsent
    BY <1>4 DEF Register, Registers
  <2>3. asked[c] \in Call
    BY <1>0, <1>4 DEF AskedTyped, CallsInv, CallsTyped
  <2>4. nextId \in 0..MaxIds /\ loopSince \in 0..MaxSockets
    BY <2>2, PeerLinkAssumption DEF CallsInv, CallsTyped, TaskTyped
  <2>5. /\ r \in Call
        /\ r.id = nextId /\ r.from = asked[c].from /\ r.future = asked[c].future
        /\ r.at = "sending" /\ r.on = asked[c].on
    BY <2>3, <2>4 DEF Call
  <2>6. c \in unsent' => r.on \in Sockets
    BY <1>0, <2>2, <2>3, <2>4, <2>5, PeerLinkAssumption DEF Sockets, CallsInv, Call
  <2>7. unsent' \subseteq unsent \cup {c} /\ unsent' \subseteq PeerCalls
    BY <2>2 DEF CallsInv, CallsTyped
  <2> HIDE DEF r
  <2>8. CallsInv' /\ \A d \in Callers : asked[d].id # 0 => asked'[d].id = asked[d].id
    BY <1>0, <2>2, <2>5, <2>6, <2>7, CallRegistered
  <2> QED BY <1>1, <2>8, WiresKept
<1> QED BY <1>1, <1>3, <1>4

LEMMA CallEndsInv ==
  ASSUME PeerLinkInv, NEW c \in Callers, TakeResult(c) \/ CallerGivesUp(c)
  PROVE  PeerLinkInv'
<1> USE DEF PeerLinkInv
<1>1. TaskTyped' /\ WiresTyped' /\ GreetingInv' /\ UNCHANGED <<toGateway, toClient, nextId, unsent>>
  <2>1. UNCHANGED <<linkTask, sockets, nextId, unsent>>
    BY DEF TakeResult, CallerGivesUp
  <2> QED BY <2>1, ConnectionsKept DEF sockets
<1>2. PICK r : /\ asked' = [asked EXCEPT ![c] = r]
               /\ \/ r = [asked[c] EXCEPT !.at = "over"]
                  \/ r = [asked[c] EXCEPT !.at = "over", !.future = "error"]
  BY DEF TakeResult, CallerGivesUp, Moves, Fails
<1>3. asked[c] \in Call /\ futures' = Popped({asked[c].id})
  BY DEF AskedTyped, CallsInv, CallsTyped, TakeResult, CallerGivesUp
<1>4. /\ r \in Call /\ r.id = asked[c].id /\ r.from = asked[c].from /\ r.at = "over"
      /\ r.future \in {asked[c].future, "error"} /\ r.on = asked[c].on
  BY <1>2, <1>3 DEF Call
<1>5. CallsInv' /\ \A d \in Callers : asked'[d].id = asked[d].id
  BY <1>1, <1>2, <1>3, <1>4, CallMoves DEF Call
<1> QED BY <1>1, <1>5, WiresKept

LEMMA LoopSendsInv ==
  ASSUME PeerLinkInv, NEW c \in Callers, LoopSends(c)
  PROVE  PeerLinkInv'
<1> USE DEF PeerLinkInv
<1>1. /\ c \in unsent /\ task # "dialed" /\ unsent' = unsent \ {c} /\ nextId' = nextId
      /\ UNCHANGED <<linkTask, gatewayEnd, clientEnd, toClient, strangers>>
  BY DEF LoopSends
<1>2. /\ asked[c] \in Call /\ asked[c].id # 0 /\ asked[c].on \in Sockets
      /\ asked[c].at \in {"sending", "over"}
  BY <1>1 DEF CallsInv, CallsTyped, AskedTyped, UnsentAsked
<1>3. PICK r : /\ asked' = [asked EXCEPT ![c] = r]
               /\ \/ r = asked[c] /\ UNCHANGED futures
                  \/ r = [asked[c] EXCEPT !.at = "waiting"] /\ asked[c].at = "sending"
                     /\ UNCHANGED futures
                  \/ r = [asked[c] EXCEPT !.at = "over", !.future = "error"]
                     /\ futures' = Popped({asked[c].id})
  <2>1. asked = [asked EXCEPT ![c] = asked[c]]
    BY DEF CallsInv, CallsTyped, AskedTyped
  <2>2. \/ UNCHANGED <<asked, futures>>
        \/ asked[c].at = "sending" /\ asked' = [asked EXCEPT ![c].at = "waiting"]
           /\ UNCHANGED futures
        \/ /\ asked' = [asked EXCEPT ![c].at = "over", ![c].future = "error"]
           /\ futures' = Popped({asked[c].id})
    BY ZenonT(60) DEF LoopSends, Moves, Fails
  <2>3. CASE UNCHANGED <<asked, futures>>
    BY <2>1, <2>3, ZenonT(60)
  <2>4. CASE asked[c].at = "sending" /\ asked' = [asked EXCEPT ![c].at = "waiting"]
             /\ UNCHANGED futures
    BY <2>4, ZenonT(60)
  <2>5. CASE /\ asked' = [asked EXCEPT ![c].at = "over", ![c].future = "error"]
             /\ futures' = Popped({asked[c].id})
    BY <2>5, ZenonT(60)
  <2> QED BY ONLY <2>2, <2>3, <2>4, <2>5
<1>4. /\ r \in Call /\ r.id = asked[c].id /\ r.from = asked[c].from
      /\ r.at \in {"sending", "waiting", "over"}
      /\ r.at \in {"sending", "waiting"} => asked[c].at \in {"sending", "waiting"}
      /\ r.future \in {asked[c].future, "error"} /\ r.on = asked[c].on
      /\ \/ futures' = futures
         \/ futures' = Popped({asked[c].id}) /\ r.at = "over"
  BY <1>2, <1>3 DEF Call
<1>5. CallsInv' /\ \A d \in Callers : asked'[d].id = asked[d].id
  BY <1>1, <1>3, <1>4, CallMoves DEF Call
<1>6. CASE clientEnd[asked[c].on] = "open"
  <2>1. PICK m : m = [id |-> asked[c].id, for |-> c]
    OBVIOUS
  <2>2. Reaches(asked[c].on, m)
    BY <1>6, <2>1 DEF LoopSends
  <2>3. m \in Message /\ m.for = c /\ m.id = asked[c].id
    BY <1>2, <2>1 DEF Message, Call
  <2> QED BY <1>1, <1>2, <1>5, <1>6, <2>2, <2>3, MessageReaches
<1>7. CASE clientEnd[asked[c].on] # "open"
  <2>1. UNCHANGED <<linkTask, sockets>>
    BY <1>1, <1>7 DEF LoopSends, sockets
  <2>2. UNCHANGED <<toGateway, toClient>>
    BY <2>1 DEF sockets
  <2> QED BY <1>5, <2>1, <2>2, ConnectionsKept, WiresKept
<1> QED BY <1>6, <1>7

LEMMA PollInv ==
  ASSUME PeerLinkInv, NEW c \in Polls, PollStatusOnce(c)
  PROVE  PeerLinkInv'
<1> USE DEF PeerLinkInv
<1>1. /\ task = "serving" /\ asked[c].at = "none" /\ nextId <= MaxIds /\ nextId' = nextId + 1
      /\ futures' = [futures EXCEPT ![nextId] = c]
      /\ UNCHANGED <<linkTask, unsent, gatewayEnd, clientEnd, toClient, strangers>>
  BY DEF PollStatusOnce, Registers
<1>2. c \in Callers /\ c \notin unsent /\ asked[c] \in Call /\ nextId \in 1..MaxIds
      /\ lastSocket \in Sockets
  BY <1>1, PeerLinkAssumption
  DEF Callers, CallsInv, CallsTyped, AskedTyped, TaskTyped, GreetingInv, OneOpen, Sockets
<1>3. PICK r : /\ asked' = [asked EXCEPT ![c] = r]
               /\ \/ r = [asked[c] EXCEPT !.at = "waiting", !.on = lastSocket, !.id = nextId]
                  \/ r = [asked[c] EXCEPT !.at = "over", !.id = nextId, !.future = "error"]
  <2>1. CASE asked' = [asked EXCEPT ![c].at = "waiting", ![c].on = lastSocket, ![c].id = nextId]
    BY <2>1, ZenonT(60)
  <2>2. CASE asked' = [asked EXCEPT ![c].at = "over", ![c].id = nextId, ![c].future = "error"]
    BY <2>2, ZenonT(60)
  <2> QED BY <2>1, <2>2 DEF PollStatusOnce
<1>4. /\ r \in Call /\ r.id = nextId /\ r.from = asked[c].from /\ r.at \in {"waiting", "over"}
      /\ r.future \in {asked[c].future, "error"}
  <2>1. lastSocket \in 0..MaxSockets /\ nextId \in 0..MaxIds
    BY <1>2, PeerLinkAssumption DEF Sockets
  <2> QED BY <1>2, <1>3, <2>1 DEF Call
<1>5. CallsInv' /\ \A d \in Callers : asked[d].id # 0 => asked'[d].id = asked[d].id
  BY <1>1, <1>2, <1>3, <1>4, CallRegistered DEF Call, CallsInv, CallsTyped
<1>6. CASE clientEnd[lastSocket] = "open"
  <2>1. PICK m : m = [id |-> nextId, for |-> c]
    OBVIOUS
  <2>2. Reaches(lastSocket, m)
    BY <1>6, <2>1 DEF PollStatusOnce
  <2>3. m \in Message /\ m.for = c /\ m.id = nextId
    BY <1>2, <2>1 DEF Message
  <2>4. asked'[c].id = nextId
    BY <1>2, <1>3, <1>4 DEF CallsInv, CallsTyped, AskedTyped
  <2> QED BY <1>1, <1>2, <1>5, <1>6, <2>2, <2>3, <2>4, MessageReaches
<1>7. CASE clientEnd[lastSocket] # "open"
  <2>1. UNCHANGED <<linkTask, sockets>>
    BY <1>1, <1>7 DEF PollStatusOnce, sockets
  <2>2. UNCHANGED <<toGateway, toClient>>
    BY <2>1 DEF sockets
  <2> QED BY <1>5, <2>1, <2>2, ConnectionsKept, WiresKept
<1> QED BY <1>6, <1>7

-----------------------------------------------------------------------------
(* Steps of the task.                                                      *)

LEMMA CallsKept ==
  ASSUME CallsInv, UNCHANGED callState
  PROVE  CallsInv' /\ \A c \in Callers : asked'[c].id = asked[c].id
BY DEF callState, CallsInv, CallsTyped, AskedTyped, IdsOnce, FuturesFound, UnsentAsked

LEMMA TailOfWire ==
  ASSUME NEW wire \in Seq(Message), wire # <<>>, AskedOnly(wire)
  PROVE  /\ Tail(wire) \in Seq(Message) /\ AskedOnly(Tail(wire))
         /\ Len(wire) \in Nat \ {0} /\ Len(Tail(wire)) = Len(wire) - 1
         /\ \A i \in 1..Len(Tail(wire)) : i + 1 \in 2..Len(wire) /\ Tail(wire)[i] = wire[i + 1]
         /\ Head(wire) = wire[1]
<1>1. /\ Tail(wire) \in Seq(Message) /\ Head(wire) = wire[1]
      /\ Len(wire) \in Nat \ {0} /\ Len(Tail(wire)) = Len(wire) - 1
  OBVIOUS
<1>2. \A i \in 1..Len(Tail(wire)) : i + 1 \in 2..Len(wire) /\ Tail(wire)[i] = wire[i + 1]
  BY <1>1
<1>3. AskedOnly(Tail(wire))
  BY <1>1, <1>2 DEF AskedOnly
<1> QED BY <1>1, <1>2, <1>3

\* The calls of a poll, or all of them, fail when a connection ends.
LEMMA CallsEnd ==
  ASSUME PeerLinkInv, unsent' \subseteq unsent,
         \/ Disconnect
         \/ asked' = WithoutPolls /\ futures' = Popped(PollIds) /\ nextId' = nextId
  PROVE  CallsInv' /\ \A c \in Callers : asked'[c].id = asked[c].id
<1> USE DEF PeerLinkInv, CallsInv, Call
<1>0. AskedTyped /\ futures \in [1..MaxIds -> Callers \cup {NoCaller}] /\ \A c \in Callers : asked[c] \in Call
  BY DEF CallsTyped, AskedTyped
<1>1. \A c \in Callers :
        \/ WithoutPolls[c] = asked[c] /\ ~(c \in Polls /\ asked[c].at = "waiting")
        \/ /\ c \in Polls /\ asked[c].at = "waiting"
           /\ WithoutPolls[c] = [asked[c] EXCEPT !.at = "over", !.future = "error"]
  BY DEF WithoutPolls
<1>2. \A c \in Callers :
        /\ WithoutPolls[c] \in Call /\ WithoutPolls[c].id = asked[c].id
        /\ WithoutPolls[c].on = asked[c].on /\ WithoutPolls[c].from = asked[c].from
        /\ WithoutPolls[c].future \in {asked[c].future, "error"}
        /\ WithoutPolls[c].at = asked[c].at \/ (c \in Polls /\ WithoutPolls[c].at = "over")
        /\ WithoutPolls[c].at \in {"sending", "waiting"} =>
             WithoutPolls[c] = asked[c] /\ ~(c \in Polls /\ asked[c].at = "waiting")
  <2> TAKE c \in Callers
  <2>1. CASE WithoutPolls[c] = asked[c] /\ ~(c \in Polls /\ asked[c].at = "waiting")
    BY <1>0, <2>1
  <2>2. CASE /\ c \in Polls /\ asked[c].at = "waiting"
             /\ WithoutPolls[c] = [asked[c] EXCEPT !.at = "over", !.future = "error"]
    <3>1. PICK r : r = asked[c] /\ r \in Call
      BY <1>0
    <3>2. PICK w : w = WithoutPolls[c] /\ w = [r EXCEPT !.at = "over", !.future = "error"]
      BY <2>2, <3>1
    <3>3. w \in Call /\ w.id = r.id /\ w.on = r.on /\ w.from = r.from /\ w.future = "error" /\ w.at = "over"
      BY <3>1, <3>2
    <3> QED BY <2>2, <3>1, <3>2, <3>3
  <2> QED BY <1>1, <2>1, <2>2
<1>3. CASE asked' = WithoutPolls /\ futures' = Popped(PollIds) /\ nextId' = nextId
  <2>1. AskedTyped'
    BY <1>2, <1>3 DEF AskedTyped, WithoutPolls
  <2>2. \A i \in 1..MaxIds : futures'[i] = IF i \in PollIds THEN NoCaller ELSE futures[i]
    BY <1>3 DEF Popped
  <2>3. futures' \in [1..MaxIds -> Callers \cup {NoCaller}]
    BY <1>0, <1>3 DEF Popped
  <2>4. ASSUME NEW c \in Callers, asked'[c].at \in {"sending", "waiting"}
        PROVE  futures'[asked[c].id] = futures[asked[c].id]
    <3>1. asked[c].at \in {"sending", "waiting"} /\ ~(c \in Polls /\ asked[c].at = "waiting")
      BY <1>2, <1>3, <2>4
    <3>2. asked[c].id \in 1..MaxIds
      BY <1>0, <3>1 DEF IdsOnce
    <3>3. asked[c].id \notin PollIds
      BY <3>1, <3>2 DEF PollIds, IdsOnce, Callers
    <3> QED BY <2>2, <3>2, <3>3
  <2>5. CallsInv'
    BY <1>2, <1>3, <2>1, <2>2, <2>3, <2>4, CallsFail
  <2> QED BY <1>2, <1>3, <2>5
<1>4. CASE Disconnect
  <2> DEFINE image == {futures[i] : i \in 1..MaxIds}
  <2>1. /\ asked' = [c \in Callers |->
                      IF c \in image /\ asked[c].future = "none"
                      THEN [WithoutPolls[c] EXCEPT !.future = "error"] ELSE WithoutPolls[c]]
        /\ futures' = Popped(1..MaxIds) /\ nextId' = nextId
    BY <1>4 DEF Disconnect
  <2>2. \A c \in Callers :
          asked'[c] = IF c \in image /\ asked[c].future = "none"
                      THEN [WithoutPolls[c] EXCEPT !.future = "error"] ELSE WithoutPolls[c]
    BY <2>1
  <2>3. \A i \in 1..MaxIds : futures'[i] = NoCaller
    BY <2>1 DEF Popped
  <2>4. futures' \in [1..MaxIds -> Callers \cup {NoCaller}]
    BY <2>1 DEF Popped
  <2>5. ASSUME NEW c \in Callers
        PROVE  /\ asked'[c] \in Call /\ asked'[c].id = asked[c].id
               /\ asked'[c].on = asked[c].on /\ asked'[c].from = asked[c].from
               /\ asked'[c].future \in {asked[c].future, "error"}
               /\ asked'[c].at = WithoutPolls[c].at
    <3>1. PICK w : w = WithoutPolls[c] /\ w \in Call
      BY <1>2
    <3>2. asked'[c] = w \/ asked'[c] = [w EXCEPT !.future = "error"]
      BY <2>2, <3>1
    <3>3. /\ asked'[c] \in Call /\ asked'[c].id = w.id /\ asked'[c].on = w.on
          /\ asked'[c].from = w.from /\ asked'[c].future \in {w.future, "error"}
          /\ asked'[c].at = w.at
      BY <3>1, <3>2
    <3>4. /\ w.id = asked[c].id /\ w.on = asked[c].on /\ w.from = asked[c].from
          /\ w.future \in {asked[c].future, "error"}
      BY <1>2, <3>1
    <3> HIDE DEF Call
    <3> QED BY <3>1, <3>3, <3>4
  <2>6. AskedTyped'
    BY <2>1, <2>5 DEF AskedTyped
  <2>7. ASSUME NEW c \in Callers, asked'[c].at \in {"sending", "waiting"}, asked'[c].future = "none"
        PROVE  FALSE
    <3>1. WithoutPolls[c] = asked[c] /\ asked[c].at \in {"sending", "waiting"}
      BY <1>2, <2>5, <2>7
    <3>2. asked[c].future = "none"
      BY <2>5, <2>7
    <3>3. asked[c].id \in 1..MaxIds /\ futures[asked[c].id] = c
      BY <1>0, <3>1, <3>2 DEF IdsOnce, FuturesFound
    <3>4. c \in image
      BY <3>3
    <3> QED BY <1>2, <2>2, <2>7, <3>2, <3>4
  <2> HIDE DEF image
  <2>8. CallsInv'
    BY <1>2, <2>1, <2>3, <2>4, <2>5, <2>6, <2>7, CallsFail
  <2> QED BY <2>5, <2>8
<1> QED BY <1>3, <1>4

LEMMA AnswerInv ==
  ASSUME PeerLinkInv, AnswerReceived
  PROVE  PeerLinkInv'
<1> USE DEF PeerLinkInv
<1>1. /\ task = "serving" /\ toClient[lastSocket] # <<>>
      /\ toClient' = [toClient EXCEPT ![lastSocket] = Tail(toClient[lastSocket])]
      /\ UNCHANGED <<linkTask, nextId, futures, unsent, gatewayEnd, clientEnd, toGateway, strangers>>
  BY DEF AnswerReceived, Received
<1>2. lastSocket \in Sockets
  BY <1>1 DEF GreetingInv, OneOpen, TaskTyped, Sockets
<1>3. PICK wire : wire = toClient[lastSocket] /\ wire \in Seq(Message) /\ wire # <<>> /\ AskedOnly(wire)
  BY <1>1, <1>2 DEF WiresTyped, WiresInv
<1>4. /\ Tail(wire) \in Seq(Message) /\ AskedOnly(Tail(wire))
      /\ Len(wire) \in Nat \ {0} /\ Len(Tail(wire)) = Len(wire) - 1
      /\ \A i \in 1..Len(Tail(wire)) : i + 1 \in 2..Len(wire) /\ Tail(wire)[i] = wire[i + 1]
      /\ Head(wire) = wire[1]
  BY <1>3, TailOfWire
<1>5. PICK m : m = wire[1] /\ m \in Message /\ m # Greeting /\ IsAsked(m)
  <2>1. 1 \in 1..Len(wire)
    BY <1>4
  <2>2. wire[1] # Greeting
    BY <1>1, <1>3, <2>1 DEF GreetingInv, Begun
  <2> QED BY <1>3, <2>1, <2>2 DEF AskedOnly
<1>6. \A s \in Sockets : toClient'[s] = IF s = lastSocket THEN Tail(wire) ELSE toClient[s]
  BY <1>1, <1>2, <1>3 DEF WiresTyped
<1>7. TaskTyped'
  BY <1>1 DEF TaskTyped, linkTask
<1>8. WiresTyped'
  BY <1>1, <1>2, <1>3, <1>4 DEF WiresTyped
<1>9. CallsInv' /\ \A d \in Callers : asked'[d].id = asked[d].id
  <2> DEFINE c == futures[m.id]
  <2>1. asked' = IF c # NoCaller /\ asked[c].future = "none"
                 THEN [asked EXCEPT ![c].future = "result", ![c].from = m.for] ELSE asked
    BY <1>3, <1>4, <1>5 DEF AnswerReceived
  <2>2. m.id \in 1..MaxIds /\ m.for \in Callers /\ asked[m.for].id = m.id
    BY <1>5, PeerLinkAssumption DEF IsAsked, Message
  <2>3. c # NoCaller => c \in Callers /\ asked[c].id = m.id /\ c = m.for
    BY <2>2 DEF CallsInv, CallsTyped, FuturesFound, IdsOnce
  <2> HIDE DEF c
  <2>4. CASE c # NoCaller /\ asked[c].future = "none"
    <3>1. PICK r : r = [asked[c] EXCEPT !.future = "result", !.from = c]
      OBVIOUS
    <3>2. asked[c] \in Call
      BY <2>3, <2>4 DEF CallsInv, CallsTyped, AskedTyped
    <3>3. /\ r \in Call /\ r.id = asked[c].id /\ r.on = asked[c].on /\ r.at = asked[c].at
          /\ r.future = "result" /\ r.from = c
      BY <2>3, <2>4, <3>1, <3>2 DEF Call
    <3>4. asked' = [asked EXCEPT ![c] = r]
      BY <2>1, <2>3, <2>4, <3>1
    <3>5. /\ AskedTyped'
          /\ \A d \in Callers : asked'[d] = IF d = c THEN r ELSE asked[d]
      BY <3>3, <3>4 DEF CallsInv, CallsTyped, AskedTyped
    <3>6. \A d \in Callers : asked'[d].id = asked[d].id /\ asked'[d].at = asked[d].at
                            /\ asked'[d].on = asked[d].on
      BY <3>3, <3>5
    <3>7. CallsTyped' /\ IdsOnce' /\ UnsentAsked'
      <4>1. CallsTyped'
        BY <1>1, <3>5 DEF CallsInv, CallsTyped
      <4>2. IdsOnce'
        BY <1>1, <3>6 DEF CallsInv, IdsOnce
      <4>3. UnsentAsked'
        BY <1>1, <3>6 DEF CallsInv, UnsentAsked, CallsTyped, Callers
      <4> QED BY <4>1, <4>2, <4>3
    <3>8. FuturesFound'
      <4>1. \A i \in 1..MaxIds : futures'[i] # NoCaller => asked'[futures'[i]].id = i
        BY <1>1, <3>6 DEF CallsInv, CallsTyped, FuturesFound
      <4>2. ASSUME NEW d \in Callers
            PROVE  /\ asked'[d].future = "result" => asked'[d].from = d
                   /\ asked'[d].at \in {"sending", "waiting"} /\ asked'[d].future = "none" =>
                        futures'[asked'[d].id] = d
        <5>1. CASE d = c
          BY <3>3, <3>5, <5>1
        <5>2. CASE d # c
          BY <1>1, <3>5, <5>2 DEF CallsInv, FuturesFound
        <5> QED BY <5>1, <5>2
      <4> QED BY <4>1, <4>2 DEF FuturesFound
    <3> QED BY <3>6, <3>7, <3>8 DEF CallsInv
  <2>5. CASE ~(c # NoCaller /\ asked[c].future = "none")
    <3>1. UNCHANGED callState
      BY <1>1, <2>1, <2>5 DEF callState
    <3> QED BY <3>1, CallsKept
  <2> QED BY <2>4, <2>5
<1>10. WiresInv'
  <2>1. \A w : IsAsked(w) => IsAsked(w)'
    BY <1>9 DEF IsAsked
  <2>2. \A s \in Sockets : AskedOnly(toGateway[s])'
    BY <1>1, <2>1 DEF WiresInv, AskedOnly
  <2>3. \A q : AskedOnly(q) => \A i \in 1..Len(q) : q[i] = Greeting \/ IsAsked(q[i])'
    BY <2>1 DEF AskedOnly
  <2>4. \A s \in Sockets : \E q : AskedOnly(q) /\ toClient'[s] = q
    BY <1>4, <1>6 DEF WiresInv
  <2>5. \A s \in Sockets : AskedOnly(toClient[s])'
    BY <2>3, <2>4 DEF AskedOnly
  <2> QED BY <2>2, <2>5 DEF WiresInv
<1>11. GreetingInv'
  <2>1. OneOpen'
    BY <1>1, <1>2, <1>6 DEF GreetingInv, OneOpen, linkTask, TaskTyped, Sockets
  <2>2. GreetFirst'
    <3>1. \A s \in Sockets : gatewayEnd[s] = "hello" => s # lastSocket
      BY <1>1 DEF GreetingInv, Begun
    <3>2. \A i \in 2..Len(Tail(wire)) : Tail(wire)[i] # Greeting
      BY <1>2, <1>3, <1>4 DEF GreetingInv, GreetFirst
    <3> QED BY <1>1, <1>6, <3>1, <3>2 DEF GreetingInv, GreetFirst
  <2>3. Begun'
    <3>1. \A i \in 1..Len(Tail(wire)) : Tail(wire)[i] # Greeting
      BY <1>2, <1>3, <1>4 DEF GreetingInv, GreetFirst
    <3> QED BY <1>1, <1>2, <1>6, <3>1 DEF GreetingInv, Begun, linkTask
  <2> QED BY <2>1, <2>2, <2>3 DEF GreetingInv
<1> QED BY <1>7, <1>8, <1>9, <1>10, <1>11

LEMMA StartOrDialInv ==
  ASSUME PeerLinkInv, StartClient \/ Dialed
  PROVE  PeerLinkInv'
<1> USE PeerLinkAssumption DEF PeerLinkInv
<1>1. UNCHANGED <<callState, toGateway, toClient>>
  BY DEF StartClient, Dialed, sockets
<1>2. CallsInv' /\ WiresInv' /\ WiresTyped'
  BY <1>1, CallsKept, WiresKept DEF WiresTyped
<1>3. CASE StartClient
  <2>1. /\ task = "off" /\ task' = "dialing" /\ ready' = FALSE /\ clients' \in 0..MaxClients
        /\ UNCHANGED <<socketNow, lastSocket, loopSince, gatewayEnd, clientEnd, toGateway, toClient,
                       strangers>>
    BY <1>3 DEF StartClient, TaskTyped, sockets
  <2>2. TaskTyped'
    BY <2>1 DEF TaskTyped
  <2>3. GreetingInv'
    BY <2>1 DEF GreetingInv, OneOpen, GreetFirst, Begun
  <2> QED BY <1>2, <2>2, <2>3
<1>4. CASE Dialed
  <2>1. PICK n : n = lastSocket + 1
    OBVIOUS
  <2>2. /\ task = "dialing" /\ n \in Sockets /\ lastSocket' = n /\ task' = "dialed" /\ n > lastSocket
        /\ socketNow' = n /\ gatewayEnd' = [gatewayEnd EXCEPT ![n] = "hello"]
        /\ clientEnd' = [clientEnd EXCEPT ![n] = "open"]
        /\ UNCHANGED <<ready, loopSince, clients, strangers>>
    BY <1>4, <2>1 DEF Dialed, TaskTyped, Sockets
  <2>3. TaskTyped'
    BY <2>2 DEF TaskTyped, Sockets
  <2>4. toGateway[n] = <<>> /\ toClient[n] = <<>>
    BY <2>2 DEF GreetingInv, OneOpen
  <2>5. OneOpen'
    BY <1>1, <2>1, <2>2 DEF GreetingInv, OneOpen, TaskTyped, Sockets
  <2>6. GreetFirst' /\ Begun'
    BY <1>1, <2>2, <2>4 DEF GreetingInv, GreetFirst, Begun, TaskTyped
  <2> QED BY <1>2, <2>3, <2>5, <2>6 DEF GreetingInv
<1> QED BY <1>3, <1>4

LEMMA HelloInv ==
  ASSUME PeerLinkInv, HelloSent
  PROVE  PeerLinkInv'
<1> USE PeerLinkAssumption DEF PeerLinkInv
<1>1. /\ task = "dialed" /\ task' = "hello" /\ lastSocket \in Sockets /\ Reaches(lastSocket, Greeting)
      /\ UNCHANGED <<socketNow, ready, lastSocket, loopSince, clients, callState, gatewayEnd,
                     clientEnd, toClient, strangers>>
  BY DEF HelloSent, GreetingInv, OneOpen, TaskTyped, Sockets
<1>2. /\ gatewayEnd[lastSocket] \in {"hello", "over"} /\ toGateway[lastSocket] = <<>>
      /\ toClient[lastSocket] = <<>>
  BY <1>1 DEF GreetingInv, Begun
<1>3. TaskTyped'
  BY <1>1 DEF TaskTyped
<1>4. CallsInv'
  BY <1>1, CallsKept
<1>5. CASE gatewayEnd[lastSocket] = "over"
  <2>1. UNCHANGED toGateway
    BY <1>1, <1>5 DEF Reaches
  <2> QED BY <1>1, <1>2, <1>3, <1>4, <1>5, <2>1, CallsKept, WiresKept
          DEF WiresTyped, GreetingInv, OneOpen, GreetFirst, Begun
<1>6. CASE gatewayEnd[lastSocket] = "hello"
  <2>1. PICK q : q = Append(toGateway[lastSocket], Greeting)
    OBVIOUS
  <2>2. q = <<Greeting>>
    BY <1>2, <2>1
  <2>3. Greeting \in Message
    BY DEF Greeting, Message
  <2>4. q \in Seq(Message) /\ Len(q) = 1 /\ q[1] = Greeting /\ q # <<>>
    BY <2>2, <2>3
  <2>5. toGateway' = [toGateway EXCEPT ![lastSocket] = q]
    BY <1>1, <1>6, <2>1 DEF Reaches
  <2>6. /\ toGateway' \in [Sockets -> Seq(Message)]
        /\ \A s \in Sockets : toGateway'[s] = IF s = lastSocket THEN q ELSE toGateway[s]
    BY <2>4, <2>5 DEF WiresTyped
  <2>7. WiresTyped'
    BY <1>1, <2>6 DEF WiresTyped
  <2>8. WiresInv'
    <3>1. \A w : IsAsked(w)' <=> IsAsked(w)
      BY <1>1 DEF IsAsked, callState
    <3>2. AskedOnly(q)'
      BY <2>4 DEF AskedOnly
    <3>3. \A w : AskedOnly(w) => AskedOnly(w)'
      BY <3>1 DEF AskedOnly
    <3> QED BY <1>1, <2>6, <3>1, <3>2 DEF WiresInv, AskedOnly
  <2>9. OneOpen'
    BY <1>1, <2>6 DEF GreetingInv, OneOpen, TaskTyped, Sockets
  <2>10. GreetFirst' /\ Begun'
    BY <1>1, <1>2, <2>4, <2>6 DEF GreetingInv, GreetFirst, Begun
  <2> QED BY <1>3, <1>4, <2>7, <2>8, <2>9, <2>10 DEF GreetingInv
<1> QED BY <1>2, <1>5, <1>6

LEMMA AckInv ==
  ASSUME PeerLinkInv, AckReceived
  PROVE  PeerLinkInv'
<1> USE PeerLinkAssumption DEF PeerLinkInv
<1>1. /\ task = "hello" /\ task' = "serving" /\ lastSocket \in Sockets /\ ready' = TRUE
      /\ toClient[lastSocket] # <<>>
      /\ toClient' = [toClient EXCEPT ![lastSocket] = Tail(toClient[lastSocket])]
      /\ UNCHANGED <<socketNow, lastSocket, loopSince, clients, callState, gatewayEnd,
                     clientEnd, toGateway, strangers>>
  BY DEF AckReceived, Received, GreetingInv, OneOpen, TaskTyped, Sockets
<1>2. TaskTyped'
  BY <1>1 DEF TaskTyped
<1>3. CallsInv'
  BY <1>1, CallsKept
<1>4. PICK wire : wire = toClient[lastSocket] /\ wire \in Seq(Message) /\ wire # <<>> /\ AskedOnly(wire)
  BY <1>1 DEF WiresTyped, WiresInv
<1>5. PICK q : q = Tail(wire)
  OBVIOUS
<1>6. /\ q \in Seq(Message) /\ AskedOnly(q) /\ Len(q) = Len(wire) - 1 /\ Len(wire) \in Nat \ {0}
      /\ \A i \in 1..Len(q) : i + 1 \in 2..Len(wire) /\ q[i] = wire[i + 1]
  BY <1>4, <1>5, TailOfWire
<1>7. /\ toClient' \in [Sockets -> Seq(Message)]
      /\ \A s \in Sockets : toClient'[s] = IF s = lastSocket THEN q ELSE toClient[s]
  BY <1>1, <1>4, <1>5, <1>6 DEF WiresTyped
<1>8. WiresTyped'
  BY <1>1, <1>7 DEF WiresTyped
<1>9. WiresInv'
  <2>1. \A w : IsAsked(w)' <=> IsAsked(w)
    BY <1>1 DEF IsAsked, callState
  <2> QED BY <1>1, <1>6, <1>7, <2>1 DEF WiresInv, AskedOnly
<1>10. OneOpen'
  BY <1>1, <1>7 DEF GreetingInv, OneOpen, TaskTyped, Sockets
<1>11. gatewayEnd[lastSocket] # "hello" /\ \A i \in 1..Len(q) : q[i] # Greeting
  <2>1. gatewayEnd[lastSocket] # "hello"
    BY <1>1 DEF GreetingInv, GreetFirst
  <2>2. \A i \in 2..Len(wire) : wire[i] # Greeting
    BY <1>1, <1>4 DEF GreetingInv, GreetFirst
  <2> QED BY <1>6, <2>1, <2>2
<1>12. GreetFirst'
  <2>1. \A i \in 2..Len(q) : q[i] # Greeting
    BY <1>6, <1>11
  <2> QED BY <1>1, <1>7, <1>11, <2>1 DEF GreetingInv, GreetFirst
<1>13. Begun'
  BY <1>1, <1>7, <1>11 DEF Begun
<1> QED BY <1>2, <1>3, <1>8, <1>9, <1>10, <1>12, <1>13 DEF GreetingInv

LEMMA EndsInv ==
  ASSUME PeerLinkInv, EndInOrder \/ EndInError \/ StopClient
  PROVE  PeerLinkInv'
<1> USE PeerLinkAssumption DEF PeerLinkInv
<1>1. UNCHANGED <<lastSocket, clients, gatewayEnd, toGateway, toClient>> /\ task' \in {"dialing", "off"}
  BY DEF EndInOrder, EndInError, StopClient, sockets
<1>2. unsent' \subseteq unsent
  BY DEF EndInOrder, EndInError, StopClient
<1>3. CallsInv' /\ \A c \in Callers : asked'[c].id = asked[c].id
  BY <1>2, CallsEnd DEF EndInOrder, EndInError, StopClient
<1>4. WiresTyped' /\ WiresInv'
  BY <1>1, <1>3, WiresKept DEF WiresTyped
<1>5. strangers' = strangers
  <2>1. CASE EndInError
    <3>1. task = "hello" /\ toClient[lastSocket] # <<>> => Head(toClient[lastSocket]) = Greeting
      <4>1. task = "hello" => lastSocket \in Sockets
        BY DEF GreetingInv, OneOpen, TaskTyped, Sockets
      <4>2. ASSUME lastSocket \in Sockets, toClient[lastSocket] # <<>>
            PROVE  Head(toClient[lastSocket]) = toClient[lastSocket][1]
        BY <4>2, TailOfWire DEF WiresTyped, WiresInv
      <4> QED BY <4>1, <4>2 DEF GreetingInv, Begun
    <3> QED BY <2>1, <3>1 DEF EndInError
  <2>2. CASE EndInOrder \/ StopClient
    BY <2>2 DEF EndInOrder, StopClient, sockets
  <2> QED BY <2>1, <2>2
<1>6. /\ socketNow' \in 0..MaxSockets /\ ready' \in BOOLEAN /\ loopSince' \in 0..MaxSockets
      /\ clientEnd' \in [Sockets -> {"unused", "open", "closed", "broken"}]
  <2>1. CASE EndInOrder
    BY <2>1 DEF EndInOrder, TaskTyped, sockets
  <2>a. 0 \in 0..MaxSockets /\ clientEnd \in [Sockets -> {"unused", "open", "closed", "broken"}]
    BY DEF TaskTyped
  <2>2. CASE EndInError
    <3>1. /\ socketNow' = 0 /\ ready' = FALSE /\ loopSince' = loopSince
          /\ \/ clientEnd' = [clientEnd EXCEPT ![lastSocket] = "closed"]
             \/ clientEnd' = [clientEnd EXCEPT ![lastSocket] = clientEnd[lastSocket]]
      BY <2>2 DEF EndInError, Disconnect, ClientCloses
    <3>2. clientEnd' \in [Sockets -> {"unused", "open", "closed", "broken"}]
      BY <2>a, <3>1
    <3> QED BY <2>a, <3>1, <3>2 DEF TaskTyped
  <2>3. CASE StopClient
    <3>1. /\ socketNow' = 0 /\ ready' = FALSE /\ loopSince' = lastSocket
          /\ clientEnd' = [s \in Sockets |-> IF clientEnd[s] = "open" THEN "closed" ELSE clientEnd[s]]
      BY <2>3 DEF StopClient, Disconnect
    <3>2. clientEnd' \in [Sockets -> {"unused", "open", "closed", "broken"}]
      BY <2>a, <3>1
    <3> QED BY <2>a, <3>1, <3>2 DEF TaskTyped
  <2> QED BY <2>1, <2>2, <2>3
<1>7. TaskTyped'
  BY <1>1, <1>5, <1>6 DEF TaskTyped
<1>8. \A s \in Sockets : clientEnd'[s] # "open"
  <2>1. CASE EndInOrder
    BY <2>1 DEF EndInOrder, sockets, GreetingInv, OneOpen
  <2>2. CASE EndInError
    BY <2>2 DEF EndInError, ClientCloses, TaskTyped, GreetingInv, OneOpen
  <2>3. CASE StopClient
    BY <2>3 DEF StopClient
  <2> QED BY <2>1, <2>2, <2>3
<1>9. GreetingInv'
  BY <1>1, <1>8 DEF GreetingInv, OneOpen, GreetFirst, Begun
<1> QED BY <1>3, <1>4, <1>7, <1>9

-----------------------------------------------------------------------------
(* Steps of the gateway and of the network.                                *)

LEMMA GreetsInv ==
  ASSUME PeerLinkInv, NEW s \in Sockets, GatewayGreets(s)
  PROVE  PeerLinkInv'
<1> USE PeerLinkAssumption DEF PeerLinkInv
<1>1. PICK wire : wire = toGateway[s] /\ wire \in Seq(Message) /\ wire # <<>> /\ AskedOnly(wire)
  BY DEF GatewayGreets, WiresTyped, WiresInv
<1>2. PICK q : q = Tail(wire)
  OBVIOUS
<1>3. q \in Seq(Message) /\ AskedOnly(q) /\ Head(wire) = wire[1]
  BY <1>1, <1>2, TailOfWire
<1>4. Head(wire) = Greeting /\ toClient[s] = <<>>
  BY <1>1, <1>3 DEF GatewayGreets, GreetingInv, GreetFirst
<1>5. /\ gatewayEnd[s] = "hello" /\ gatewayEnd' = [gatewayEnd EXCEPT ![s] = "serving"]
      /\ ReplyTo(s, Greeting) /\ toGateway' = [toGateway EXCEPT ![s] = q]
      /\ UNCHANGED <<linkTask, callState, clientEnd, strangers>>
  BY <1>1, <1>2, <1>4 DEF GatewayGreets
<1>6. PICK a : a = IF clientEnd[s] = "open" THEN <<Greeting>> ELSE <<>>
  OBVIOUS
<1>7. Greeting \in Message
  BY DEF Greeting, Message
<1>8. a \in Seq(Message) /\ Len(a) <= 1 /\ Len(a) \in Nat
      /\ (a # <<>> => a[1] = Greeting) /\ (clientEnd[s] = "open" => a # <<>>)
  <2>1. CASE clientEnd[s] = "open"
    BY <1>6, <1>7, <2>1
  <2>2. CASE clientEnd[s] # "open"
    BY <1>6, <2>2
  <2> QED BY <2>1, <2>2
<1>9. toClient' = [toClient EXCEPT ![s] = a]
  <2>1. CASE clientEnd[s] = "open"
    <3>1. Append(toClient[s], Greeting) = a
      BY <1>4, <1>6, <2>1
    <3> QED BY <1>5, <2>1, <3>1 DEF ReplyTo
  <2>2. CASE clientEnd[s] # "open"
    <3>1. [toClient EXCEPT ![s] = a] = toClient
      BY <1>4, <1>6, <2>2 DEF WiresTyped
    <3> QED BY <1>5, <2>2, <3>1 DEF ReplyTo
  <2> QED BY <2>1, <2>2
<1>10. /\ toGateway' \in [Sockets -> Seq(Message)] /\ toClient' \in [Sockets -> Seq(Message)]
       /\ \A t \in Sockets : toGateway'[t] = IF t = s THEN q ELSE toGateway[t]
       /\ \A t \in Sockets : toClient'[t] = IF t = s THEN a ELSE toClient[t]
  BY <1>3, <1>5, <1>8, <1>9 DEF WiresTyped
<1>11. WiresTyped'
  BY <1>10 DEF WiresTyped
<1>12. TaskTyped' /\ CallsInv'
  BY <1>5, CallsKept DEF TaskTyped, linkTask
<1>13. WiresInv'
  <2>1. \A w : IsAsked(w)' <=> IsAsked(w)
    BY <1>5 DEF IsAsked, callState
  <2>2. \A i \in 1..Len(a) : a[i] = Greeting
    BY <1>8
  <2> QED BY <1>3, <1>10, <2>1, <2>2 DEF WiresInv, AskedOnly
<1>14. OneOpen'
  BY <1>1, <1>5, <1>10 DEF GreetingInv, OneOpen, linkTask
<1>15. \A i \in 2..Len(a) : FALSE
  BY <1>8
<1>b. \A t \in Sockets : gatewayEnd'[t] = IF t = s THEN "serving" ELSE gatewayEnd[t]
  BY <1>5 DEF TaskTyped
<1>16. GreetFirst'
  <2>1. ASSUME NEW t \in Sockets
        PROVE  /\ gatewayEnd'[t] = "hello" =>
                    toClient'[t] = <<>> /\ (toGateway'[t] = <<>> \/ toGateway'[t][1] = Greeting)
               /\ \A i \in 2..Len(toClient'[t]) : toClient'[t][i] # Greeting
    <3>1. CASE t = s
      <4>1. gatewayEnd'[t] # "hello"
        BY <1>b, <3>1
      <4>2. toClient'[t] = a
        BY <1>10, <3>1
      <4> QED BY ONLY <1>15, <4>1, <4>2
    <3>2. CASE t # s
      <4>1. gatewayEnd'[t] = gatewayEnd[t] /\ toGateway'[t] = toGateway[t] /\ toClient'[t] = toClient[t]
        BY <1>10, <1>b, <3>2
      <4>2. /\ gatewayEnd[t] = "hello" =>
                 toClient[t] = <<>> /\ (toGateway[t] = <<>> \/ toGateway[t][1] = Greeting)
            /\ \A i \in 2..Len(toClient[t]) : toClient[t][i] # Greeting
        BY DEF GreetingInv, GreetFirst
      <4> QED BY ONLY <4>1, <4>2, Zenon
    <3> QED BY <3>1, <3>2
  <2> QED BY <2>1 DEF GreetFirst
<1>17. Begun'
  <2>1. s = lastSocket => task \notin {"dialed", "serving"}
    BY <1>1, <1>5 DEF GreetingInv, Begun
  <2>2. task' = task /\ lastSocket' = lastSocket /\ clientEnd' = clientEnd
    BY <1>5 DEF linkTask
  <2>3. task \in {"dialed", "hello", "serving"} => lastSocket \in Sockets
    BY DEF GreetingInv, OneOpen, TaskTyped, Sockets
  <2>4. CASE lastSocket = s
    BY <1>8, <1>10, <1>b, <2>1, <2>2, <2>4 DEF Begun
  <2>5. CASE lastSocket # s
    BY <1>10, <1>b, <2>2, <2>3, <2>5 DEF GreetingInv, Begun
  <2> QED BY <2>4, <2>5
<1> QED BY <1>11, <1>12, <1>13, <1>14, <1>16, <1>17 DEF GreetingInv

LEMMA ServesInv ==
  ASSUME PeerLinkInv, NEW s \in Sockets, GatewayServes(s)
  PROVE  PeerLinkInv'
<1> USE PeerLinkAssumption DEF PeerLinkInv
<1>1. PICK wire : wire = toGateway[s] /\ wire \in Seq(Message) /\ wire # <<>> /\ AskedOnly(wire)
  BY DEF GatewayServes, WiresTyped, WiresInv
<1>2. PICK q, m : q = Tail(wire) /\ m = Head(wire)
  OBVIOUS
<1>3. q \in Seq(Message) /\ AskedOnly(q) /\ m = wire[1] /\ 1 \in 1..Len(wire)
  BY <1>1, <1>2, TailOfWire
<1>4. m \in Message /\ m # Greeting /\ IsAsked(m)
  BY <1>1, <1>2, <1>3 DEF GatewayServes, AskedOnly
<1>5. /\ gatewayEnd[s] = "serving" /\ toGateway' = [toGateway EXCEPT ![s] = q] /\ ReplyTo(s, m)
      /\ UNCHANGED <<linkTask, callState, gatewayEnd, clientEnd, strangers>>
  BY <1>1, <1>2 DEF GatewayServes
<1>6. PICK a : a = IF clientEnd[s] = "open" THEN Append(toClient[s], m) ELSE toClient[s]
  OBVIOUS
<1>7. toClient[s] \in Seq(Message) /\ AskedOnly(toClient[s])
  BY DEF WiresTyped, WiresInv
<1>8. /\ a \in Seq(Message) /\ Len(toClient[s]) \in Nat /\ Len(a) >= Len(toClient[s])
      /\ \A i \in 1..Len(toClient[s]) : a[i] = toClient[s][i]
      /\ \A i \in 1..Len(a) : i \in 1..Len(toClient[s]) \/ a[i] = m
  <2>1. CASE clientEnd[s] = "open"
    <3>1. a = Append(toClient[s], m)
      BY <1>6, <2>1
    <3>2. /\ a \in Seq(Message) /\ Len(toClient[s]) \in Nat /\ Len(a) = Len(toClient[s]) + 1
          /\ \A i \in 1..Len(toClient[s]) : a[i] = toClient[s][i]
          /\ a[Len(toClient[s]) + 1] = m
      BY <1>4, <1>7, <3>1
    <3>3. \A i \in 1..Len(a) : i \in 1..Len(toClient[s]) \/ i = Len(toClient[s]) + 1
      BY <3>2
    <3> QED BY <3>2, <3>3
  <2>2. CASE clientEnd[s] # "open"
    BY <1>6, <1>7, <2>2
  <2> QED BY <2>1, <2>2
<1>9. toClient' = [toClient EXCEPT ![s] = a]
  <2>1. CASE clientEnd[s] = "open"
    BY <1>5, <1>6, <2>1 DEF ReplyTo
  <2>2. CASE clientEnd[s] # "open"
    <3>1. [toClient EXCEPT ![s] = a] = toClient
      BY <1>6, <2>2 DEF WiresTyped
    <3> QED BY <1>5, <2>2, <3>1 DEF ReplyTo
  <2> QED BY <2>1, <2>2
<1>10. /\ toGateway' \in [Sockets -> Seq(Message)] /\ toClient' \in [Sockets -> Seq(Message)]
       /\ \A t \in Sockets : toGateway'[t] = IF t = s THEN q ELSE toGateway[t]
       /\ \A t \in Sockets : toClient'[t] = IF t = s THEN a ELSE toClient[t]
  BY <1>3, <1>5, <1>8, <1>9 DEF WiresTyped
<1>11. WiresTyped'
  BY <1>10 DEF WiresTyped
<1>12. TaskTyped' /\ CallsInv'
  BY <1>5, CallsKept DEF TaskTyped, linkTask
<1>13. WiresInv'
  <2>1. \A w : IsAsked(w)' <=> IsAsked(w)
    BY <1>5 DEF IsAsked, callState
  <2>2. AskedOnly(a)
    BY <1>4, <1>7, <1>8 DEF AskedOnly
  <2> QED BY <1>3, <1>10, <2>1, <2>2 DEF WiresInv, AskedOnly
<1>14. /\ s <= lastSocket /\ lastSocket \in Nat /\ s \in Nat
       /\ task' = task /\ lastSocket' = lastSocket /\ clientEnd' = clientEnd /\ gatewayEnd' = gatewayEnd
  BY <1>1, <1>5 DEF GreetingInv, OneOpen, TaskTyped, Sockets, linkTask
<1>15. OneOpen'
  BY <1>10, <1>14, SMTT(60) DEF GreetingInv, OneOpen
<1>16. GreetFirst'
  <2>1. \A i \in 2..Len(a) : a[i] # Greeting
    <3>1. \A i \in 2..Len(a) : i \in 1..Len(a) /\ (i \in 1..Len(toClient[s]) => i \in 2..Len(toClient[s]))
      BY <1>8
    <3>2. \A i \in 2..Len(toClient[s]) : toClient[s][i] # Greeting
      BY DEF GreetingInv, GreetFirst
    <3> QED BY <1>4, <1>8, <3>1, <3>2
  <2>2. ASSUME NEW t \in Sockets
        PROVE  /\ gatewayEnd'[t] = "hello" =>
                    toClient'[t] = <<>> /\ (toGateway'[t] = <<>> \/ toGateway'[t][1] = Greeting)
               /\ \A i \in 2..Len(toClient'[t]) : toClient'[t][i] # Greeting
    <3>1. CASE t = s
      <4>1. gatewayEnd'[t] # "hello"
        BY <1>5, <1>14, <3>1
      <4>2. toClient'[t] = a
        BY <1>10, <3>1
      <4> QED BY ONLY <2>1, <4>1, <4>2
    <3>2. CASE t # s
      <4>1. gatewayEnd'[t] = gatewayEnd[t] /\ toGateway'[t] = toGateway[t] /\ toClient'[t] = toClient[t]
        BY <1>10, <1>14, <3>2
      <4>2. /\ gatewayEnd[t] = "hello" =>
                 toClient[t] = <<>> /\ (toGateway[t] = <<>> \/ toGateway[t][1] = Greeting)
            /\ \A i \in 2..Len(toClient[t]) : toClient[t][i] # Greeting
        BY DEF GreetingInv, GreetFirst
      <4> QED BY ONLY <4>1, <4>2, Zenon
    <3> QED BY <3>1, <3>2
  <2> QED BY <2>2 DEF GreetFirst
<1>17. Begun'
  <2>1. CASE lastSocket = s
    <3>1. task # "dialed"
      BY <1>5, <2>1 DEF GreetingInv, Begun
    <3>2. ASSUME task = "hello"
          PROVE  (a # <<>> => a[1] = Greeting) /\ (clientEnd[s] = "open" => a # <<>>)
      <4>1. CASE clientEnd[s] = "open"
        <5>1. toClient[s] # <<>> /\ toClient[s][1] = Greeting
          BY <1>5, <2>1, <3>2, <4>1 DEF GreetingInv, Begun
        <5>2. 1 \in 1..Len(toClient[s])
          BY <1>7, <5>1
        <5> QED BY <1>8, <5>1, <5>2
      <4>2. CASE clientEnd[s] # "open"
        BY <1>6, <2>1, <3>2, <4>2 DEF GreetingInv, Begun
      <4> QED BY <4>1, <4>2
    <3>3. task = "serving" => \A i \in 1..Len(a) : a[i] # Greeting
      BY <1>4, <1>8, <2>1 DEF GreetingInv, Begun
    <3> QED BY <1>5, <1>10, <1>14, <2>1, <3>1, <3>2, <3>3 DEF Begun
  <2>2. CASE lastSocket # s
    <3>1. task \in {"dialed", "hello", "serving"} => lastSocket \in Sockets
      BY DEF GreetingInv, OneOpen, TaskTyped, Sockets
    <3> QED BY <1>10, <1>14, <2>2, <3>1 DEF GreetingInv, Begun
  <2> QED BY <2>1, <2>2
<1> QED BY <1>11, <1>12, <1>13, <1>15, <1>16, <1>17 DEF GreetingInv

LEMMA NetworkInv ==
  ASSUME PeerLinkInv, NEW s \in Sockets, GatewayEnds(s) \/ CloseArrives(s) \/ SocketBreaks(s)
  PROVE  PeerLinkInv'
<1> USE PeerLinkAssumption DEF PeerLinkInv
<1>1. UNCHANGED <<linkTask, callState, strangers>>
  BY DEF GatewayEnds, CloseArrives, SocketBreaks
<1>2. CallsInv' /\ \A w : IsAsked(w)' <=> IsAsked(w)
  BY <1>1, CallsKept DEF IsAsked, callState
<1>3. CASE GatewayEnds(s)
  <2>1. /\ gatewayEnd' = [gatewayEnd EXCEPT ![s] = "over"] /\ toGateway' = [toGateway EXCEPT ![s] = <<>>]
        /\ clientEnd' = clientEnd /\ toClient' = toClient
    BY <1>3 DEF GatewayEnds
  <2>2. /\ toGateway' \in [Sockets -> Seq(Message)]
        /\ \A t \in Sockets : toGateway'[t] = IF t = s THEN <<>> ELSE toGateway[t]
        /\ \A t \in Sockets : gatewayEnd'[t] = IF t = s THEN "over" ELSE gatewayEnd[t]
    BY <2>1 DEF WiresTyped, TaskTyped
  <2>3. TaskTyped' /\ WiresTyped'
    BY <1>1, <2>1, <2>2 DEF TaskTyped, WiresTyped, linkTask
  <2>4. WiresInv'
    BY <1>2, <2>1, <2>2 DEF WiresInv, AskedOnly
  <2>5. OneOpen' /\ GreetFirst'
    BY <1>1, <2>1, <2>2 DEF GreetingInv, OneOpen, GreetFirst, linkTask
  <2>6. Begun'
    <3>1. task \in {"dialed", "hello", "serving"} => lastSocket \in Sockets
      BY DEF GreetingInv, OneOpen, TaskTyped, Sockets
    <3> QED BY <1>1, <2>1, <2>2, <3>1 DEF GreetingInv, Begun, linkTask
  <2> QED BY <1>2, <2>3, <2>4, <2>5, <2>6 DEF GreetingInv
<1>4. CASE CloseArrives(s)
  <2>1. /\ clientEnd' = [clientEnd EXCEPT ![s] = "closed"]
        /\ UNCHANGED <<gatewayEnd, toGateway, toClient>>
    BY <1>4 DEF CloseArrives
  <2>2. \A t \in Sockets : clientEnd'[t] = "open" => clientEnd[t] = "open"
    BY <2>1 DEF TaskTyped
  <2>3. TaskTyped' /\ WiresTyped'
    BY <1>1, <2>1 DEF TaskTyped, WiresTyped, linkTask
  <2>4. WiresInv'
    BY <1>2, <2>1 DEF WiresInv, AskedOnly
  <2>5. OneOpen' /\ GreetFirst'
    BY <1>1, <2>1, <2>2 DEF GreetingInv, OneOpen, GreetFirst, linkTask
  <2>6. Begun'
    <3>1. task \in {"dialed", "hello", "serving"} => lastSocket \in Sockets
      BY DEF GreetingInv, OneOpen, TaskTyped, Sockets
    <3> QED BY <1>1, <2>1, <2>2, <3>1 DEF GreetingInv, Begun, linkTask
  <2> QED BY <1>2, <2>3, <2>4, <2>5, <2>6 DEF GreetingInv
<1>5. CASE SocketBreaks(s)
  <2>1. PICK n \in 0..Len(toClient[s]) : toClient' = [toClient EXCEPT ![s] = SubSeq(toClient[s], 1, n)]
    BY <1>5 DEF SocketBreaks
  <2>2. /\ clientEnd' = [clientEnd EXCEPT ![s] = "broken"] /\ clientEnd[s] = "open"
        /\ UNCHANGED <<gatewayEnd, toGateway>>
    BY <1>5 DEF SocketBreaks
  <2>3. PICK q : q = SubSeq(toClient[s], 1, n)
    OBVIOUS
  <2>4. toClient[s] \in Seq(Message) /\ Len(toClient[s]) \in Nat
    BY DEF WiresTyped
  <2>5. /\ q \in Seq(Message) /\ Len(q) = n
        /\ \A i \in 1..n : q[i] = toClient[s][i] /\ i \in 1..Len(toClient[s])
    BY <2>3, <2>4
  <2>6. /\ toClient' \in [Sockets -> Seq(Message)]
        /\ \A t \in Sockets : toClient'[t] = IF t = s THEN q ELSE toClient[t]
        /\ \A t \in Sockets : clientEnd'[t] = "open" => clientEnd[t] = "open" /\ t # s
    BY <2>1, <2>2, <2>3, <2>5 DEF WiresTyped, TaskTyped
  <2>7. TaskTyped' /\ WiresTyped'
    BY <1>1, <2>2, <2>6 DEF TaskTyped, WiresTyped, linkTask
  <2>8. AskedOnly(q)
    BY <2>5 DEF WiresInv, AskedOnly
  <2>9. WiresInv'
    BY <1>2, <2>2, <2>6, <2>8 DEF WiresInv, AskedOnly
  <2>10. OneOpen'
    <3>1. /\ s <= lastSocket /\ lastSocket \in Nat /\ s \in Nat
          /\ task' = task /\ lastSocket' = lastSocket /\ toGateway' = toGateway
      BY <1>1, <2>2 DEF GreetingInv, OneOpen, TaskTyped, Sockets, linkTask
    <3>2. OneOpen
      BY DEF GreetingInv
    <3>3. ASSUME NEW t \in Sockets
          PROVE  /\ clientEnd'[t] = "open" => t = lastSocket /\ task \in {"dialed", "hello", "serving"}
                 /\ t > lastSocket => toGateway[t] = <<>> /\ toClient'[t] = <<>>
      <4>1. t > lastSocket => t # s
        BY <3>1 DEF Sockets
      <4> QED BY <2>6, <3>2, <4>1 DEF OneOpen
    <3> QED BY ONLY <3>1, <3>2, <3>3 DEF OneOpen
  <2>11. toClient[s] = <<>> => q = <<>>
    BY <2>4, <2>5
  <2>12. \A i \in 2..Len(q) : q[i] # Greeting
    BY <2>4, <2>5 DEF GreetingInv, GreetFirst
  <2>13. GreetFirst'
    <3>1. ASSUME NEW t \in Sockets
          PROVE  /\ gatewayEnd'[t] = "hello" =>
                      toClient'[t] = <<>> /\ (toGateway'[t] = <<>> \/ toGateway'[t][1] = Greeting)
                 /\ \A i \in 2..Len(toClient'[t]) : toClient'[t][i] # Greeting
      <4>1. /\ gatewayEnd[t] = "hello" =>
                 toClient[t] = <<>> /\ (toGateway[t] = <<>> \/ toGateway[t][1] = Greeting)
            /\ \A i \in 2..Len(toClient[t]) : toClient[t][i] # Greeting
        BY DEF GreetingInv, GreetFirst
      <4>2. gatewayEnd'[t] = gatewayEnd[t] /\ toGateway'[t] = toGateway[t]
        BY <2>2
      <4>3. CASE t = s
        <5>1. toClient'[t] = q
          BY <2>6, <4>3
        <5> QED BY ONLY <2>11, <2>12, <4>1, <4>2, <4>3, <5>1
      <4>4. CASE t # s
        <5>1. toClient'[t] = toClient[t]
          BY <2>6, <4>4
        <5> QED BY ONLY <4>1, <4>2, <5>1, Zenon
      <4> QED BY <4>3, <4>4
    <3> QED BY <3>1 DEF GreetFirst
  <2>14. Begun'
    <3>1. task \in {"dialed", "hello", "serving"} => lastSocket \in Sockets
      BY DEF GreetingInv, OneOpen, TaskTyped, Sockets
    <3>2. q # <<>> => 1 \in 1..n
      BY <2>4, <2>5
    <3>3. q # <<>> => toClient[s] # <<>> /\ q[1] = toClient[s][1]
      BY <2>5, <2>11, <3>2
    <3>4. /\ task' = task /\ lastSocket' = lastSocket /\ gatewayEnd' = gatewayEnd
          /\ toGateway' = toGateway
      BY <1>1, <2>2 DEF linkTask
    <3>5. CASE lastSocket = s
      BY <2>5, <2>6, <2>11, <3>3, <3>4, <3>5 DEF GreetingInv, Begun
    <3>6. CASE lastSocket # s
      BY <2>6, <3>1, <3>4, <3>6 DEF GreetingInv, Begun
    <3> QED BY <3>5, <3>6
  <2> QED BY <1>2, <2>7, <2>9, <2>10, <2>13, <2>14 DEF GreetingInv
<1> QED BY <1>3, <1>4, <1>5

LEMMA PeerLinkNextInv ==
  ASSUME PeerLinkInv, [PeerLinkNext]_peerLinkVars
  PROVE  PeerLinkInv'
<1>1. CASE UNCHANGED peerLinkVars
  <2>1. UNCHANGED <<linkTask, sockets, callState, toGateway, toClient>>
    BY <1>1 DEF peerLinkVars, sockets
  <2> QED BY <2>1, ConnectionsKept, CallsKept, WiresKept DEF PeerLinkInv
<1>2. CASE PeerLinkNext
  BY <1>2, CallStepInv, LoopSendsInv, CallEndsInv, PollInv, StartOrDialInv, HelloInv, AckInv,
     AnswerInv, EndsInv, GreetsInv, ServesInv, NetworkInv
  DEF PeerLinkNext
<1> QED BY <1>1, <1>2

\* However the client's connections end and follow one another, a call gets the gateway's
\* answer to that very call or none, and is found under its id while it waits
\* (extension_gateway_peer.py, rpc_call, _on_message and _disconnect); and each connection
\* begins with the hello and its acknowledgement.
THEOREM AnswersCorrect == PeerLinkSpec => []AnswersReachCallers
<1>1. PeerLinkInv => AnswersReachCallers
  BY DEF PeerLinkInv, CallsInv, FuturesFound, TaskTyped, AnswersReachCallers
<1> QED BY <1>1, PeerLinkInitInv, PeerLinkNextInv, PTL DEF PeerLinkSpec

-----------------------------------------------------------------------------
(* Types and bounds: the gateway.                                          *)

\* The gateway by what changes together: its connections, its flags, the messages, the calls,
\* the peer and the events.
GateTyped ==
  /\ listening \in {"no", "yes", "stopped"} /\ ws \in 0..MaxConnections
  /\ newest \in 0..MaxConnections
  /\ handler \in [Connections -> {"unused", "open", "ack", "serving", "over"}]
SidesTyped ==
  /\ connected \in BOOLEAN /\ lateEnd \in BOOLEAN /\ lateLink \in BOOLEAN
  /\ wsOpen \in [Connections -> BOOLEAN] /\ linkOpen \in [Links -> BOOLEAN]
InboxTyped == inbox \in [Connections -> Seq(GatewayMessages)]
GatewayCall ==
  [on : 0..MaxConnections, for : 0..MaxLinks, sent : BOOLEAN, outcome : {"none", "ok", "error"}]
GatewayCallsTyped == calls \in [CallIds -> GatewayCall] /\ pending \subseteq CallIds
PeerTyped ==
  /\ peerLink \in [Links -> {"unused", "serving", "busy", "over"}]
  /\ record \in 0..MaxLinks /\ newestLink \in 0..MaxLinks /\ subscribed \subseteq GatewayTabs
GatewayEventsTyped ==
  /\ queues \in [GatewayTabs -> 0..MaxGatewayQueue]
  /\ forwarded \subseteq [link : Links, tab : GatewayTabs] /\ eventsSent \in 0..MaxGatewayEvents

LEMMA MessageKinds ==
  ASSUME NEW m \in GatewayMessages
  PROVE  /\ IsReply(m) => m.reply \in CallIds
         /\ ~IsReply(m) => m.event \in GatewayTabs
<1>1. CASE m \in [reply : CallIds]
  BY <1>1 DEF IsReply
<1>2. CASE m \in [event : GatewayTabs]
  BY <1>2 DEF IsReply
<1> QED BY <1>1, <1>2 DEF GatewayMessages

LEMMA GateTypedNext ==
  ASSUME GateTyped, [GatewayNext]_gatewayVars
  PROVE  GateTyped'
<1> USE DEF GateTyped
<1>1. MaxConnections \in Nat /\ \A i \in Connections : i \in 0..MaxConnections
  BY GatewayAssumption DEF Connections
<1>2. CASE Bind \/ Shutdown
  BY <1>1, <1>2 DEF Bind, Shutdown, GatewayDisconnect, extensionSide
<1>3. CASE \E i \in Connections : Connect(i) \/ SocketCloses(i) \/ HelloRefused(i)
  BY <1>3 DEF Connect, SocketCloses, HelloRefused, gateState
<1>4. CASE \E i \in Connections : Hello(i)
  BY <1>1, <1>4 DEF Hello, ReplacesFormer
<1>5. CASE \E i \in Connections : AckSent(i) \/ AckFails(i) \/ LoopEnds(i)
  BY <1>1, <1>5 DEF AckSent, AckFails, LoopEnds, GatewayDisconnect
<1>6. CASE \E i \in Connections : \/ ReceiveReply(i) \/ ReceiveEvent(i)
                                  \/ \E t \in GatewayTabs : ExtensionEmits(i, t)
  BY <1>6 DEF ReceiveReply, ReceiveEvent, ExtensionEmits, gateState
<1>7. CASE \E c \in CallIds : ServerCall(c) \/ SendCall(c) \/ CallTimesOut(c) \/ ExtensionReplies(c)
  BY <1>7 DEF ServerCall, SendCall, CallTimesOut, ExtensionReplies, gateState, extensionSide
<1>8. CASE \E t \in GatewayTabs : PopQueued(t)
  BY <1>8 DEF PopQueued, gateState, extensionSide
<1>9. CASE \E j \in Links :
             \/ PeerHello(j) \/ LinkCloses(j) \/ PeerWaits(j) \/ PeerServed(j) \/ LinkEnds(j)
             \/ \E ts \in {{}} \cup {{t} : t \in GatewayTabs} :
                  PeerRefused(j, ts) \/ \E c \in CallIds : PeerCall(j, c, ts)
  <2>1. UNCHANGED <<gateState, extensionSide>>
    BY <1>9 DEF PeerHello, LinkCloses, PeerWaits, PeerServed, LinkEnds, PeerRefused, PeerCall
  <2> QED BY <2>1 DEF gateState, extensionSide
<1>10. CASE UNCHANGED gatewayVars
  BY <1>10 DEF gatewayVars, gateState, extensionSide
<1> QED BY <1>2, <1>3, <1>4, <1>5, <1>6, <1>7, <1>8, <1>9, <1>10 DEF GatewayNext

LEMMA SidesTypedNext ==
  ASSUME SidesTyped, [GatewayNext]_gatewayVars
  PROVE  SidesTyped'
<1> USE DEF SidesTyped
<1>2. CASE Bind
  BY <1>2 DEF Bind, extensionSide, peerSide
<1>3. CASE Shutdown
  BY <1>3 DEF Shutdown, GatewayDisconnect
<1>4. CASE \E i \in Connections : Connect(i) \/ SocketCloses(i) \/ HelloRefused(i)
  BY <1>4 DEF Connect, SocketCloses, HelloRefused, gateState, peerSide
<1>5. CASE \E i \in Connections : Hello(i) \/ AckSent(i) \/ AckFails(i) \/ LoopEnds(i)
  BY <1>5 DEF Hello, AckSent, AckFails, LoopEnds, GatewayDisconnect, peerSide
<1>6. CASE \E i \in Connections : \/ ReceiveReply(i) \/ ReceiveEvent(i)
                                  \/ \E t \in GatewayTabs : ExtensionEmits(i, t)
  BY <1>6 DEF ReceiveReply, ReceiveEvent, ExtensionEmits, gateState, peerSide
<1>7. CASE \E c \in CallIds : ServerCall(c) \/ SendCall(c) \/ CallTimesOut(c) \/ ExtensionReplies(c)
  BY <1>7 DEF ServerCall, SendCall, CallTimesOut, ExtensionReplies, gateState, extensionSide, peerSide
<1>8. CASE \E t \in GatewayTabs : PopQueued(t)
  BY <1>8 DEF PopQueued, gateState, extensionSide, peerSide
<1>9. CASE \E j \in Links : PeerHello(j) \/ LinkCloses(j) \/ LinkEnds(j)
  BY <1>9 DEF PeerHello, LinkCloses, LinkEnds, gateState, extensionSide
<1>10. CASE \E j \in Links :
             \/ PeerWaits(j) \/ PeerServed(j)
             \/ \E ts \in {{}} \cup {{t} : t \in GatewayTabs} :
                  PeerRefused(j, ts) \/ \E c \in CallIds : PeerCall(j, c, ts)
  BY <1>10 DEF PeerWaits, PeerServed, PeerRefused, PeerCall, gateState, extensionSide
<1>11. CASE UNCHANGED gatewayVars
  BY <1>11 DEF gatewayVars, gateState, extensionSide, peerSide
<1> QED BY <1>2, <1>3, <1>4, <1>5, <1>6, <1>7, <1>8, <1>9, <1>10, <1>11 DEF GatewayNext

LEMMA InboxTypedNext ==
  ASSUME InboxTyped, [GatewayNext]_gatewayVars
  PROVE  InboxTyped'
<1>1. ASSUME NEW i \in Connections, NEW m \in GatewayMessages,
             inbox' = [inbox EXCEPT ![i] = Append(@, m)]
      PROVE  InboxTyped'
  <2>1. Append(inbox[i], m) \in Seq(GatewayMessages)
    BY AppendProperties DEF InboxTyped
  <2> QED BY <1>1, <2>1 DEF InboxTyped
<1>2. ASSUME NEW i \in Connections, inbox[i] # << >>, inbox' = [inbox EXCEPT ![i] = Tail(@)]
      PROVE  InboxTyped'
  <2>1. Tail(inbox[i]) \in Seq(GatewayMessages)
    BY <1>2, EmptySeq, HeadTailProperties DEF InboxTyped
  <2> QED BY <1>2, <2>1 DEF InboxTyped
<1>3. UNCHANGED inbox => InboxTyped'
  BY DEF InboxTyped
<1>4. CASE \E i \in Connections : ReceiveReply(i) \/ ReceiveEvent(i)
  BY <1>2, <1>4 DEF ReceiveReply, ReceiveEvent
<1>5. CASE \E i \in Connections : \E t \in GatewayTabs : ExtensionEmits(i, t)
  <2>1. \A t \in GatewayTabs : [event |-> t] \in GatewayMessages
    BY DEF GatewayMessages
  <2> QED BY <1>1, <1>5, <2>1 DEF ExtensionEmits
<1>6. CASE \E c \in CallIds : ExtensionReplies(c)
  <2>1. PICK c \in CallIds : ExtensionReplies(c)
    BY <1>6
  <2>2. [reply |-> c] \in GatewayMessages
    BY DEF GatewayMessages
  <2>3. inbox' = [inbox EXCEPT ![calls[c].on] = Append(@, [reply |-> c])]
    BY <2>1 DEF ExtensionReplies
  <2>4. CASE calls[c].on \in Connections
    BY <1>1, <2>2, <2>3, <2>4
  <2>5. CASE calls[c].on \notin Connections
    BY <2>3, <2>5 DEF InboxTyped
  <2> QED BY <2>4, <2>5
<1>7. CASE \/ Bind \/ Shutdown
           \/ \E i \in Connections :
                \/ Connect(i) \/ SocketCloses(i) \/ HelloRefused(i) \/ Hello(i) \/ AckSent(i)
                \/ AckFails(i) \/ LoopEnds(i)
  BY <1>3, <1>7 DEF Bind, Shutdown, Connect, SocketCloses, HelloRefused, Hello, AckSent, AckFails,
                    LoopEnds, extensionSide
<1>8. CASE \/ \E c \in CallIds : ServerCall(c) \/ SendCall(c) \/ CallTimesOut(c)
           \/ \E t \in GatewayTabs : PopQueued(t)
  BY <1>3, <1>8 DEF ServerCall, SendCall, CallTimesOut, PopQueued, extensionSide
<1>9. CASE \E j \in Links :
             \/ PeerHello(j) \/ LinkCloses(j) \/ PeerWaits(j) \/ PeerServed(j) \/ LinkEnds(j)
             \/ \E ts \in {{}} \cup {{t} : t \in GatewayTabs} :
                  PeerRefused(j, ts) \/ \E c \in CallIds : PeerCall(j, c, ts)
  <2>1. UNCHANGED extensionSide
    BY <1>9 DEF PeerHello, LinkCloses, PeerWaits, PeerServed, LinkEnds, PeerRefused, PeerCall
  <2> QED BY <1>3, <2>1 DEF extensionSide
<1>10. CASE UNCHANGED gatewayVars
  BY <1>3, <1>10 DEF gatewayVars, extensionSide
<1> QED BY <1>4, <1>5, <1>6, <1>7, <1>8, <1>9, <1>10 DEF GatewayNext

LEMMA GatewayCallsNext ==
  ASSUME GateTyped, GatewayCallsTyped, InboxTyped, [GatewayNext]_gatewayVars
  PROVE  GatewayCallsTyped'
<1> USE DEF GatewayCallsTyped
<1>1. 0 \in 0..MaxLinks /\ \A j \in Links : j \in 0..MaxLinks
  BY GatewayAssumption DEF Links
<1>2. \A c \in CallIds, j \in 0..MaxLinks : TakesCall(c, j) => GatewayCallsTyped'
  <2> SUFFICES ASSUME NEW c \in CallIds, NEW j \in 0..MaxLinks, TakesCall(c, j)
               PROVE  GatewayCallsTyped'
    OBVIOUS
  <2> DEFINE on == [NoGatewayCall EXCEPT !.on = ws]
  <2>1. on \in GatewayCall
    BY <1>1 DEF GateTyped, GatewayCall, NoGatewayCall
  <2>2. [NoGatewayCall EXCEPT !.on = ws, !.for = j] = [on EXCEPT !.for = j]
    OBVIOUS
  <2> HIDE DEF on
  <2>3. [on EXCEPT !.for = j] \in GatewayCall
    BY <2>1 DEF GatewayCall
  <2>4. [NoGatewayCall EXCEPT !.on = ws, !.for = j] \in GatewayCall
    BY <2>2, <2>3
  <2> QED BY <2>4 DEF TakesCall
<1>3. \A c \in CallIds, o \in {"none", "ok", "error"} : CallEnds(c, o) => GatewayCallsTyped'
  <2> SUFFICES ASSUME NEW c \in CallIds, NEW o \in {"none", "ok", "error"}, CallEnds(c, o)
               PROVE  GatewayCallsTyped'
    OBVIOUS
  <2>1. calls' = [calls EXCEPT ![c].outcome = o, ![c].sent = TRUE] /\ pending' = pending \ {c}
    BY DEF CallEnds
  <2> DEFINE once == [calls EXCEPT ![c].outcome = o]
  <2>2. once \in [CallIds -> GatewayCall]
    BY DEF GatewayCall
  <2>3. calls' = [once EXCEPT ![c].sent = TRUE]
    BY <2>1
  <2> HIDE DEF once
  <2>4. calls' \in [CallIds -> GatewayCall]
    BY <2>2, <2>3 DEF GatewayCall
  <2> QED BY <2>1, <2>4
<1>4. GatewayDisconnect => GatewayCallsTyped'
  BY DEF GatewayDisconnect, GatewayCall
<1>5. UNCHANGED <<calls, pending>> => GatewayCallsTyped'
  OBVIOUS
<1>6. CASE Shutdown \/ \E i \in Connections : LoopEnds(i)
  BY <1>4, <1>6 DEF Shutdown, LoopEnds
<1>7. CASE \E i \in Connections : ReceiveReply(i)
  <2>1. PICK i \in Connections : ReceiveReply(i)
    BY <1>7
  <2>2. inbox[i] # << >> /\ IsReply(Head(inbox[i])) /\ inbox[i] \in Seq(GatewayMessages)
    BY <2>1 DEF ReceiveReply, InboxTyped
  <2>3. Head(inbox[i]) \in GatewayMessages
    BY <2>2, EmptySeq, HeadTailProperties
  <2>4. Head(inbox[i]).reply \in CallIds
    BY <2>2, <2>3, MessageKinds
  <2> QED BY <1>3, <1>5, <2>1, <2>4 DEF ReceiveReply, gatewayCalls
<1>8. CASE \E c \in CallIds : ServerCall(c)
  BY <1>1, <1>2, <1>8 DEF ServerCall
<1>9. CASE \E c \in CallIds : SendCall(c)
  <2>1. PICK c \in CallIds : SendCall(c)
    BY <1>9
  <2>2. CASE calls' = [calls EXCEPT ![c].sent = TRUE] /\ UNCHANGED pending
    BY <2>2 DEF GatewayCall
  <2> QED BY <1>3, <2>1, <2>2 DEF SendCall
<1>10. CASE \E c \in CallIds : CallTimesOut(c)
  BY <1>3, <1>10 DEF CallTimesOut
<1>11. CASE \E j \in Links : \E ts \in {{}} \cup {{t} : t \in GatewayTabs} :
              \E c \in CallIds : PeerCall(j, c, ts)
  BY <1>1, <1>2, <1>11 DEF PeerCall
<1>12. CASE \/ Bind
            \/ \E i \in Connections :
                 \/ Connect(i) \/ SocketCloses(i) \/ HelloRefused(i) \/ Hello(i) \/ AckSent(i)
                 \/ AckFails(i) \/ ReceiveEvent(i)
                 \/ \E t \in GatewayTabs : ExtensionEmits(i, t)
  BY <1>5, <1>12 DEF Bind, Connect, SocketCloses, HelloRefused, Hello, AckSent, AckFails,
                     ReceiveEvent, ExtensionEmits, gatewayCalls
<1>13. CASE \/ \E c \in CallIds : ExtensionReplies(c)
            \/ \E t \in GatewayTabs : PopQueued(t)
            \/ \E j \in Links :
                 \/ PeerHello(j) \/ LinkCloses(j) \/ PeerWaits(j) \/ PeerServed(j) \/ LinkEnds(j)
                 \/ \E ts \in {{}} \cup {{t} : t \in GatewayTabs} : PeerRefused(j, ts)
  BY <1>5, <1>13 DEF ExtensionReplies, PopQueued, PeerHello, LinkCloses, PeerWaits, PeerServed,
                     LinkEnds, PeerRefused, gatewayCalls
<1>14. CASE UNCHANGED gatewayVars
  BY <1>5, <1>14 DEF gatewayVars, gatewayCalls
<1> QED BY <1>6, <1>7, <1>8, <1>9, <1>10, <1>11, <1>12, <1>13, <1>14 DEF GatewayNext

LEMMA PeerTypedNext ==
  ASSUME PeerTyped, [GatewayNext]_gatewayVars
  PROVE  PeerTyped'
<1> USE DEF PeerTyped
<1>1. 0 \in 0..MaxLinks /\ \A j \in Links : j \in 0..MaxLinks
  BY GatewayAssumption DEF Links
<1>2. UNCHANGED <<peerLink, record, newestLink, subscribed>> => PeerTyped'
  OBVIOUS
<1>3. \A ts \in {{}} \cup {{t} : t \in GatewayTabs} :
        Subscribes(ts) => subscribed' \subseteq GatewayTabs
  BY DEF Subscribes
<1>4. CASE \E j \in Links : PeerHello(j) \/ LinkEnds(j)
  BY <1>1, <1>4 DEF PeerHello, LinkEnds
<1>5. CASE \E j \in Links : LinkCloses(j) \/ PeerWaits(j) \/ PeerServed(j)
  BY <1>5 DEF LinkCloses, PeerWaits, PeerServed
<1>6. CASE \E j \in Links : \E ts \in {{}} \cup {{t} : t \in GatewayTabs} : PeerRefused(j, ts)
  BY <1>3, <1>6 DEF PeerRefused
<1>7. CASE \E j \in Links : \E ts \in {{}} \cup {{t} : t \in GatewayTabs} :
             \E c \in CallIds : PeerCall(j, c, ts)
  BY <1>3, <1>7 DEF PeerCall
<1>8. CASE \/ Bind \/ Shutdown
           \/ \E i \in Connections :
                \/ Connect(i) \/ SocketCloses(i) \/ HelloRefused(i) \/ Hello(i) \/ AckSent(i)
                \/ AckFails(i) \/ LoopEnds(i) \/ ReceiveReply(i) \/ ReceiveEvent(i)
                \/ \E t \in GatewayTabs : ExtensionEmits(i, t)
  BY <1>2, <1>8 DEF Bind, Shutdown, Connect, SocketCloses, HelloRefused, Hello, AckSent, AckFails,
                    LoopEnds, ReceiveReply, ReceiveEvent, ExtensionEmits, peerSide
<1>9. CASE \/ \E c \in CallIds : ServerCall(c) \/ SendCall(c) \/ CallTimesOut(c) \/ ExtensionReplies(c)
           \/ \E t \in GatewayTabs : PopQueued(t)
  BY <1>2, <1>9 DEF ServerCall, SendCall, CallTimesOut, ExtensionReplies, PopQueued, peerSide
<1>10. CASE UNCHANGED gatewayVars
  BY <1>2, <1>10 DEF gatewayVars, peerSide
<1> QED BY <1>4, <1>5, <1>6, <1>7, <1>8, <1>9, <1>10 DEF GatewayNext

LEMMA GatewayEventsNext ==
  ASSUME PeerTyped, InboxTyped, GatewayEventsTyped, [GatewayNext]_gatewayVars
  PROVE  GatewayEventsTyped'
<1> USE DEF GatewayEventsTyped
<1>1. MaxGatewayQueue \in Nat /\ MaxGatewayEvents \in Nat
      /\ \A j \in 0..MaxLinks : j # 0 => j \in Links
  BY GatewayAssumption DEF Links
<1>2. UNCHANGED <<queues, forwarded, eventsSent>> => GatewayEventsTyped'
  OBVIOUS
<1>3. CASE \E t \in GatewayTabs : PopQueued(t)
  BY <1>1, <1>3 DEF PopQueued
<1>4. CASE \E i \in Connections : \E t \in GatewayTabs : ExtensionEmits(i, t)
  BY <1>1, <1>4 DEF ExtensionEmits
<1>5. CASE \E i \in Connections : ReceiveEvent(i)
  <2>1. PICK i \in Connections : ReceiveEvent(i)
    BY <1>5
  <2>2. inbox[i] # << >> /\ ~IsReply(Head(inbox[i])) /\ inbox[i] \in Seq(GatewayMessages)
    BY <2>1 DEF ReceiveEvent, InboxTyped
  <2>3. Head(inbox[i]) \in GatewayMessages
    BY <2>2, EmptySeq, HeadTailProperties
  <2>4. PICK t \in GatewayTabs : t = Head(inbox[i]).event
    BY <2>2, <2>3, MessageKinds
  <2>5. /\ queues' = [queues EXCEPT ![t] = IF @ = MaxGatewayQueue THEN @ ELSE @ + 1]
        /\ forwarded' = (IF record # 0 /\ t \in subscribed
                         THEN forwarded \cup {[link |-> record, tab |-> t]} ELSE forwarded)
        /\ eventsSent' = eventsSent
    BY <2>1, <2>4 DEF ReceiveEvent
  <2>6. queues' \in [GatewayTabs -> 0..MaxGatewayQueue]
    BY <1>1, <2>5
  <2>7. forwarded' \subseteq [link : Links, tab : GatewayTabs]
    BY <1>1, <2>5 DEF PeerTyped
  <2> QED BY <2>5, <2>6, <2>7
<1>6. CASE \/ Bind \/ Shutdown
           \/ \E i \in Connections :
                \/ Connect(i) \/ SocketCloses(i) \/ HelloRefused(i) \/ Hello(i) \/ AckSent(i)
                \/ AckFails(i) \/ LoopEnds(i) \/ ReceiveReply(i)
  BY <1>2, <1>6 DEF Bind, Shutdown, Connect, SocketCloses, HelloRefused, Hello, AckSent, AckFails,
                    LoopEnds, ReceiveReply, eventVars
<1>7. CASE \E c \in CallIds : ServerCall(c) \/ SendCall(c) \/ CallTimesOut(c) \/ ExtensionReplies(c)
  BY <1>2, <1>7 DEF ServerCall, SendCall, CallTimesOut, ExtensionReplies, eventVars
<1>8. CASE \E j \in Links :
             \/ PeerHello(j) \/ LinkCloses(j) \/ PeerWaits(j) \/ PeerServed(j) \/ LinkEnds(j)
             \/ \E ts \in {{}} \cup {{t} : t \in GatewayTabs} :
                  PeerRefused(j, ts) \/ \E c \in CallIds : PeerCall(j, c, ts)
  <2>1. UNCHANGED eventVars
    BY <1>8 DEF PeerHello, LinkCloses, PeerWaits, PeerServed, LinkEnds, PeerRefused, PeerCall
  <2> QED BY <1>2, <2>1 DEF eventVars
<1>9. CASE UNCHANGED gatewayVars
  BY <1>2, <1>9 DEF gatewayVars, eventVars
<1> QED BY <1>3, <1>4, <1>5, <1>6, <1>7, <1>8, <1>9 DEF GatewayNext

\* Connections, calls, queues and records of the gateway keep their types and bounds
\* (extension_gateway.py).
THEOREM GatewayTypeCorrect == GatewaySpec => []GatewayTypeOK
<1> DEFINE Typed == GateTyped /\ SidesTyped /\ InboxTyped /\ GatewayCallsTyped /\ PeerTyped /\ GatewayEventsTyped
<1>1. GatewayInit => Typed
  <2> SUFFICES ASSUME GatewayInit PROVE Typed
    OBVIOUS
  <2>1. 0 \in 0..MaxConnections /\ 0 \in 0..MaxLinks /\ 0 \in 0..MaxGatewayQueue /\ 0 \in 0..MaxGatewayEvents
    BY GatewayAssumption
  <2>2. GateTyped /\ InboxTyped
    BY <2>1 DEF GatewayInit, GateTyped, InboxTyped
  <2>3. SidesTyped
    BY DEF GatewayInit, SidesTyped
  <2>4. GatewayCallsTyped
    BY <2>1 DEF GatewayInit, GatewayCallsTyped, GatewayCall, NoGatewayCall
  <2>5. PeerTyped /\ GatewayEventsTyped
    BY <2>1 DEF GatewayInit, PeerTyped, GatewayEventsTyped
  <2> QED BY <2>2, <2>3, <2>4, <2>5
<1>2. Typed => GatewayTypeOK
  <2> SUFFICES ASSUME Typed PROVE GatewayTypeOK
    OBVIOUS
  <2>1. \A i \in Connections : \A n \in 1..Len(inbox[i]) : inbox[i][n] \in GatewayMessages
    <3> SUFFICES ASSUME NEW i \in Connections, NEW n \in 1..Len(inbox[i])
                 PROVE  inbox[i][n] \in GatewayMessages
      OBVIOUS
    <3>1. inbox[i] \in Seq(GatewayMessages)
      BY DEF InboxTyped
    <3> QED BY <3>1, ElementOfSeq
  <2>2. {connected, lateEnd, lateLink} \subseteq BOOLEAN /\ wsOpen \in [Connections -> BOOLEAN]
        /\ linkOpen \in [Links -> BOOLEAN]
    BY DEF SidesTyped
  <2>3. listening \in {"no", "yes", "stopped"} /\ {ws, newest} \subseteq 0..MaxConnections
        /\ handler \in [Connections -> {"unused", "open", "ack", "serving", "over"}]
    BY DEF GateTyped
  <2> QED BY <2>1, <2>2, <2>3
          DEF GatewayCallsTyped, GatewayCall, PeerTyped, GatewayEventsTyped, GatewayTypeOK
<1> QED BY <1>1, <1>2, GateTypedNext, SidesTypedNext, InboxTypedNext, GatewayCallsNext,
           PeerTypedNext, GatewayEventsNext, PTL DEF GatewaySpec

-----------------------------------------------------------------------------
(* Types and bounds: Chromes.                                              *)

\* What the proof about strays does not need: settings and step of the call, and its numbers.
LaunchSettings ==
  /\ launchMode \in {"launch", "attach"} /\ fallback \in BOOLEAN
  /\ outsider \in {"none", "chrome", "other"}
LaunchSteps ==
  /\ request \in {"tool", "launch", "recover", "hard"}
  /\ launchStep \in {"idle", "probe", "port", "spawn", "await", "ready", "before", "stop",
                     "after", "tab"}
LaunchNumbers ==
  /\ requests \in 0..MaxLaunchCalls /\ sessionIn \in 0..(MaxChromes + 1)
  /\ answerless \subseteq Chromes

LEMMA LaunchSettingsNext ==
  ASSUME LaunchSettings, [LauncherNext]_launcherVars
  PROVE  LaunchSettings'
<1> USE DEF LaunchSettings
<1>1. UNCHANGED <<settings, outsider>> => LaunchSettings'
  BY DEF settings
<1>2. \A step : StepsTo(step) => UNCHANGED <<settings, outsider>>
  BY DEF StepsTo, machineVars
<1>3. CASE Machine
  BY <1>3 DEF Machine, ChromeComesUp, ChromeHangs, ChromeRecovers, ChromeExits, OutsiderChanges,
              settings
<1>4. CASE (\E kind \in {"tool", "launch", "recover", "hard"} : BeginCall(kind)) \/ Spawn \/ StopOwned
  BY <1>1, <1>4 DEF BeginCall, Spawn, StopOwned, machineVars
<1>5. CASE Probe \/ CheckPort \/ SpawnFails \/ Await \/ RunTool
  BY <1>1, <1>2, <1>5 DEF Probe, CheckPort, SpawnFails, Await, RunTool
<1>6. CASE BeginRecover \/ AfterRecover \/ RecoverTab
  BY <1>1, <1>2, <1>6 DEF BeginRecover, AfterRecover, RecoverTab
<1>7. CASE UNCHANGED launcherVars
  BY <1>1, <1>7 DEF launcherVars, machineVars
<1> QED BY <1>3, <1>4, <1>5, <1>6, <1>7 DEF LauncherNext

LEMMA LaunchStepsNext ==
  ASSUME LaunchSteps, [LauncherNext]_launcherVars
  PROVE  LaunchSteps'
<1> USE DEF LaunchSteps
<1>1. \A step \in {"idle", "probe", "port", "spawn", "await", "ready", "before", "stop", "after", "tab"} :
        StepsTo(step) => LaunchSteps'
  BY DEF StepsTo
<1>2. Next1 \in {"ready", "idle", "after"}
  BY DEF Next1
<1>3. CASE Machine
  BY <1>3 DEF Machine
<1>4. CASE \E kind \in {"tool", "launch", "recover", "hard"} : BeginCall(kind)
  BY <1>4 DEF BeginCall
<1>5. CASE Spawn \/ StopOwned
  BY <1>5 DEF Spawn, StopOwned
<1>6. CASE Probe \/ CheckPort \/ SpawnFails \/ Await
  BY <1>1, <1>2, <1>6 DEF Probe, CheckPort, SpawnFails, Await
<1>7. CASE RunTool \/ BeginRecover \/ AfterRecover \/ RecoverTab
  BY <1>1, <1>7 DEF RunTool, BeginRecover, AfterRecover, RecoverTab
<1>8. CASE UNCHANGED launcherVars
  BY <1>8 DEF launcherVars
<1> QED BY <1>3, <1>4, <1>5, <1>6, <1>7, <1>8 DEF LauncherNext

LEMMA LaunchNumbersNext ==
  ASSUME LaunchNumbers, [LauncherNext]_launcherVars
  PROVE  LaunchNumbers'
<1> USE DEF LaunchNumbers
<1>1. MaxLaunchCalls \in Nat /\ MaxChromes \in Nat
      /\ 0 \in 0..(MaxChromes + 1) /\ \A p \in Ports : p \in 0..(MaxChromes + 1)
  BY LauncherAssumption DEF Ports
<1>2. \A n \in 0..(MaxChromes + 1) : sessionIn' \in OpensTab(n) => sessionIn' \in 0..(MaxChromes + 1)
  BY <1>1 DEF OpensTab
<1>3. \A step : StepsTo(step) => UNCHANGED requests
  BY DEF StepsTo
<1>4. UNCHANGED <<requests, sessionIn, answerless>> => LaunchNumbers'
  OBVIOUS
<1>5. CASE Machine \/ Spawn \/ StopOwned
  BY <1>4, <1>5 DEF Machine, Spawn, StopOwned
<1>6. CASE \E kind \in {"tool", "launch", "recover", "hard"} : BeginCall(kind)
  BY <1>1, <1>6 DEF BeginCall
<1>7. CASE Probe
  BY <1>3, <1>7 DEF Probe
<1>8. CASE CheckPort \/ SpawnFails \/ Await \/ AfterRecover
  BY <1>3, <1>4, <1>8 DEF CheckPort, SpawnFails, Await, AfterRecover
<1>9. CASE RunTool \/ RecoverTab
  BY <1>1, <1>2, <1>3, <1>9 DEF RunTool, RecoverTab
<1>10. CASE BeginRecover
  BY <1>1, <1>3, <1>10 DEF BeginRecover
<1>11. CASE UNCHANGED launcherVars
  BY <1>4, <1>11 DEF launcherVars
<1> QED BY <1>5, <1>6, <1>7, <1>8, <1>9, <1>10, <1>11 DEF LauncherNext

\* The Chromes, the launcher's handle and port and the session's tab keep their types and
\* bounds (launcher.py).
THEOREM LauncherTypeCorrect == LauncherSpec => []LauncherTypeOK
<1>1. LauncherInit => LaunchSettings /\ LaunchSteps /\ LaunchNumbers
  <2>1. MaxLaunchCalls \in Nat /\ MaxChromes \in Nat
    BY LauncherAssumption
  <2> SUFFICES ASSUME LauncherInit PROVE LaunchSettings /\ LaunchSteps /\ LaunchNumbers
    OBVIOUS
  <2>2. LaunchSettings
    BY DEF LauncherInit, LaunchSettings
  <2>3. LaunchSteps
    BY DEF LauncherInit, LaunchSteps
  <2>4. LaunchNumbers
    BY <2>1 DEF LauncherInit, LaunchNumbers
  <2> QED BY <2>2, <2>3, <2>4
<1>2. LauncherInv /\ LaunchSettings /\ LaunchSteps /\ LaunchNumbers => LauncherTypeOK
  <2> SUFFICES ASSUME ChromesTyped, LaunchSettings, LaunchSteps, LaunchNumbers PROVE LauncherTypeOK
    BY DEF LauncherInv
  <2>1. launchMode \in {"launch", "attach"} /\ fallback \in BOOLEAN /\ outsider \in {"none", "chrome", "other"}
    BY DEF LaunchSettings
  <2> QED BY <2>1 DEF ChromesTyped, LaunchSteps, LaunchNumbers, LauncherTypeOK
<1> QED BY <1>1, <1>2, LauncherInitInv, LauncherNextInv, LaunchSettingsNext, LaunchStepsNext,
           LaunchNumbersNext, PTL DEF LauncherSpec

-----------------------------------------------------------------------------
(* Types and bounds: the installer.                                        *)

\* What the proof about installs does not need: who is linked and leads, the files, the flags
\* and the counts.
SetupSets ==
  /\ healing \subseteq SetupServers /\ linked \subseteq SetupServers
  /\ leader \in SetupServers \cup {NoServer}
SetupFilesTyped ==
  /\ nextTarget \in [SetupServers -> Targets \cup {0}] /\ wrapper \in {"missing", "partial", "whole"}
  /\ manifests \in [Targets -> {"missing", "partial", "writable", "default", "all"}]
SetupFlags ==
  /\ secondCopy \in BOOLEAN /\ bridge \in BOOLEAN /\ overlapped \in BOOLEAN
  /\ disturbed \in BOOLEAN
SetupCounts ==
  heals \in [SetupServers -> Nat] /\ starts \in 0..MaxStarts /\ mishaps \in 0..MaxMishaps

LEMMA SetupSetsNext ==
  ASSUME SetupSets, [SetupNext]_setupVars
  PROVE  SetupSets'
<1> USE DEF SetupSets
<1>1. \A s \in SetupServers : InstallEnds(s) => healing' \subseteq SetupServers /\ leader' \in SetupServers \cup {NoServer}
  BY DEF InstallEnds
<1>2. \A s \in SetupServers :
        NextFile(s) => healing' \subseteq SetupServers /\ leader' \in SetupServers \cup {NoServer}
  BY <1>1 DEF NextFile
<1>3. CASE FileChanges \/ SecondCopyAppears \/ BridgeChanges
  BY <1>3 DEF FileChanges, SecondCopyAppears, BridgeChanges, installVars
<1>4. CASE \E s \in SetupServers :
             StartServer(s) \/ DiscoverIds(s) \/ OpenWrapper(s) \/ WriteWrapper(s) \/ OpenManifest(s)
  BY <1>4 DEF StartServer, DiscoverIds, OpenWrapper, WriteWrapper, OpenManifest, installVars
<1>5. CASE \E s \in SetupServers : WriteManifest(s) \/ InstallError(s)
  BY <1>1, <1>2, <1>5 DEF WriteManifest, InstallError
<1>6. CASE \E s \in SetupServers : LinksUp(s) \/ PromoteToLeader(s) \/ Heal(s) \/ HealerSeesLink(s)
  BY <1>6 DEF LinksUp, PromoteToLeader, Heal, HealerSeesLink, installVars
<1>7. CASE \E s \in SetupServers : ServerExits(s) \/ ServerKilled(s)
  BY <1>7 DEF ServerExits, ServerKilled, ServerGone
<1>8. CASE UNCHANGED setupVars
  BY <1>8 DEF setupVars, installVars
<1> QED BY <1>3, <1>4, <1>5, <1>6, <1>7, <1>8 DEF SetupNext

LEMMA SetupFilesTypedNext ==
  ASSUME SetupTyped, SetupFilesTyped, [SetupNext]_setupVars
  PROVE  SetupFilesTyped'
<1> USE DEF SetupFilesTyped
<1>1. \A s \in SetupServers : NextFile(s) => nextTarget' \in [SetupServers -> Targets \cup {0}]
  BY TargetFacts DEF NextFile
<1>2. UNCHANGED <<nextTarget, wrapper, manifests>> => SetupFilesTyped'
  OBVIOUS
<1>3. CASE FileChanges
  <2>1. UNCHANGED nextTarget
    BY <1>3 DEF FileChanges, installVars
  <2>2. CASE wrapper' = "missing" /\ UNCHANGED manifests
    BY <2>1, <2>2
  <2>3. ASSUME NEW t \in Targets, NEW to \in {"missing", "writable"},
               manifests' = [manifests EXCEPT ![t] = to], UNCHANGED wrapper
        PROVE  SetupFilesTyped'
    BY <2>1, <2>3
  <2> QED BY <1>3, <2>2, <2>3 DEF FileChanges
<1>4. CASE SecondCopyAppears \/ BridgeChanges
  BY <1>2, <1>4 DEF SecondCopyAppears, BridgeChanges, installVars, setupFiles
<1>5. CASE \E s \in SetupServers : StartServer(s) \/ DiscoverIds(s)
  BY <1>2, <1>5 DEF StartServer, DiscoverIds, installVars, setupFiles
<1>6. CASE \E s \in SetupServers : OpenWrapper(s) \/ OpenManifest(s)
  BY <1>6 DEF OpenWrapper, OpenManifest, installVars
<1>7. CASE \E s \in SetupServers : WriteWrapper(s)
  BY <1>7, TargetFacts, SetupAssumption DEF WriteWrapper
<1>8. CASE \E s \in SetupServers : WriteManifest(s)
  <2>1. PICK s \in SetupServers : WriteManifest(s)
    BY <1>8
  <2>2. manifests' = [manifests EXCEPT ![nextTarget[s]] = idsKnown[s]] /\ wrapper' = wrapper
    BY <2>1 DEF WriteManifest
  <2>3. idsKnown[s] \in {"default", "all"}
    BY DEF SetupTyped
  <2>4. nextTarget' \in [SetupServers -> Targets \cup {0}]
    BY <1>1, <2>1 DEF WriteManifest
  <2> QED BY <2>2, <2>3, <2>4
<1>9. CASE \E s \in SetupServers : InstallError(s)
  BY <1>1, <1>9 DEF InstallError, setupFiles
<1>10. CASE \E s \in SetupServers : LinksUp(s) \/ PromoteToLeader(s) \/ Heal(s) \/ HealerSeesLink(s)
  BY <1>2, <1>10 DEF LinksUp, PromoteToLeader, Heal, HealerSeesLink, installVars, setupFiles
<1>11. CASE \E s \in SetupServers : ServerExits(s) \/ ServerKilled(s)
  BY <1>2, <1>11 DEF ServerExits, ServerKilled, ServerGone, setupFiles
<1>12. CASE UNCHANGED setupVars
  BY <1>2, <1>12 DEF setupVars, installVars, setupFiles
<1> QED BY <1>3, <1>4, <1>5, <1>6, <1>7, <1>8, <1>9, <1>10, <1>11, <1>12 DEF SetupNext

LEMMA SetupFlagsNext ==
  ASSUME SetupFlags, [SetupNext]_setupVars
  PROVE  SetupFlags'
<1> USE DEF SetupFlags
<1>1. CASE FileChanges \/ SecondCopyAppears \/ BridgeChanges
  BY <1>1 DEF FileChanges, SecondCopyAppears, BridgeChanges, Mishap, setupHistory
<1>2. CASE \E s \in SetupServers : DiscoverIds(s)
  BY <1>2 DEF DiscoverIds
<1>3. CASE \E s \in SetupServers :
             StartServer(s) \/ OpenWrapper(s) \/ WriteWrapper(s) \/ OpenManifest(s) \/ WriteManifest(s)
  BY <1>3 DEF StartServer, OpenWrapper, WriteWrapper, OpenManifest, WriteManifest, setupHistory
<1>4. CASE \E s \in SetupServers : LinksUp(s) \/ PromoteToLeader(s) \/ Heal(s) \/ HealerSeesLink(s)
  BY <1>4 DEF LinksUp, PromoteToLeader, Heal, HealerSeesLink, setupHistory
<1>5. CASE \E s \in SetupServers : InstallError(s) \/ ServerKilled(s)
  BY <1>5 DEF InstallError, ServerKilled, ServerGone, Mishap
<1>6. CASE \E s \in SetupServers : ServerExits(s)
  BY <1>6 DEF ServerExits, ServerGone
<1>7. CASE UNCHANGED setupVars
  BY <1>7 DEF setupVars, setupHistory
<1> QED BY <1>1, <1>2, <1>3, <1>4, <1>5, <1>6, <1>7 DEF SetupNext

LEMMA SetupCountsNext ==
  ASSUME SetupCounts, [SetupNext]_setupVars
  PROVE  SetupCounts'
<1> USE DEF SetupCounts
<1>1. MaxStarts \in Nat /\ MaxMishaps \in Nat
  BY SetupAssumption
<1>2. UNCHANGED <<heals, starts, mishaps>> => SetupCounts'
  OBVIOUS
<1>3. Mishap => mishaps' \in 0..MaxMishaps
  BY <1>1 DEF Mishap
<1>4. CASE FileChanges
  BY <1>3, <1>4 DEF FileChanges
<1>5. CASE SecondCopyAppears \/ BridgeChanges
  BY <1>2, <1>5 DEF SecondCopyAppears, BridgeChanges
<1>6. CASE \E s \in SetupServers : StartServer(s)
  BY <1>1, <1>6 DEF StartServer
<1>7. CASE \E s \in SetupServers :
             DiscoverIds(s) \/ OpenWrapper(s) \/ WriteWrapper(s) \/ OpenManifest(s) \/ WriteManifest(s)
  BY <1>2, <1>7 DEF DiscoverIds, OpenWrapper, WriteWrapper, OpenManifest, WriteManifest
<1>8. CASE \E s \in SetupServers : LinksUp(s) \/ PromoteToLeader(s)
  BY <1>2, <1>8 DEF LinksUp, PromoteToLeader
<1>9. CASE \E s \in SetupServers : Heal(s) \/ HealerSeesLink(s)
  BY <1>9 DEF Heal, HealerSeesLink
<1>10. CASE \E s \in SetupServers : InstallError(s)
  BY <1>3, <1>10 DEF InstallError
<1>11. CASE \E s \in SetupServers : ServerExits(s) \/ ServerKilled(s)
  BY <1>3, <1>11 DEF ServerExits, ServerKilled, ServerGone
<1>12. CASE UNCHANGED setupVars
  BY <1>2, <1>12 DEF setupVars
<1> QED BY <1>4, <1>5, <1>6, <1>7, <1>8, <1>9, <1>10, <1>11, <1>12 DEF SetupNext

\* Installers, files and healers keep their types and bounds (native_host_installer.py,
\* extension_auto_heal.py).
THEOREM SetupTypeCorrect == SetupSpec => []SetupTypeOK
<1>1. SetupInit => SetupSets /\ SetupFilesTyped /\ SetupFlags /\ SetupCounts
  <2>1. MaxStarts \in Nat /\ MaxMishaps \in Nat
    BY SetupAssumption
  <2> SUFFICES ASSUME SetupInit PROVE SetupSets /\ SetupFilesTyped /\ SetupFlags /\ SetupCounts
    OBVIOUS
  <2>2. SetupSets /\ SetupFilesTyped
    BY DEF SetupInit, SetupSets, SetupFilesTyped
  <2>3. SetupFlags
    BY DEF SetupInit, SetupFlags
  <2>4. SetupCounts
    BY <2>1 DEF SetupInit, SetupCounts
  <2> QED BY <2>2, <2>3, <2>4
<1>2. SetupInv /\ SetupSets /\ SetupFilesTyped /\ SetupFlags /\ SetupCounts => SetupTypeOK
  <2> SUFFICES ASSUME SetupTyped, SetupSets, SetupFilesTyped, SetupFlags, SetupCounts PROVE SetupTypeOK
    BY DEF SetupInv
  <2>1. {secondCopy, bridge, overlapped, disturbed} \subseteq BOOLEAN
    BY DEF SetupFlags
  <2>2. serverAt \in [SetupServers -> {"off", "discover", "wrapper", "half wrapper", "manifest",
                                       "half manifest", "runs"}]
    BY DEF SetupTyped, BeforeManifests, AtManifests
  <2> QED BY <2>1, <2>2 DEF SetupTyped, SetupSets, SetupFilesTyped, SetupCounts, SetupTypeOK
<1>3. SetupInv => SetupTyped
  BY DEF SetupInv
<1> QED BY <1>1, <1>2, <1>3, SetupInitInv, SetupNextInv, SetupSetsNext, SetupFilesTypedNext,
           SetupFlagsNext, SetupCountsNext, PTL DEF SetupSpec

-----------------------------------------------------------------------------
(* Types and bounds: the link to a gateway.                                *)

\* The calls, the connections and the messages on them keep their types and bounds
\* (extension_gateway_peer.py).
THEOREM PeerLinkTypeCorrect == PeerLinkSpec => []PeerLinkTypeOK
<1>1. PeerLinkInv => PeerLinkTypeOK
  <2> SUFFICES ASSUME TaskTyped, WiresTyped, CallsTyped PROVE PeerLinkTypeOK
    BY DEF PeerLinkInv, CallsInv
  <2>1. /\ task \in {"off", "dialing", "dialed", "hello", "serving"} /\ ready \in BOOLEAN
        /\ {socketNow, lastSocket, loopSince} \subseteq 0..MaxSockets /\ clients \in 0..MaxClients
        /\ gatewayEnd \in [Sockets -> {"unused", "hello", "serving", "over"}]
        /\ clientEnd \in [Sockets -> {"unused", "open", "closed", "broken"}]
        /\ strangers \subseteq Sockets
    BY DEF TaskTyped
  <2> QED BY <2>1 DEF WiresTyped, CallsTyped, AskedTyped, Call, PeerLinkTypeOK
<1> QED BY <1>1, PeerLinkInitInv, PeerLinkNextInv, PTL DEF PeerLinkSpec

-----------------------------------------------------------------------------
(* The parts of the servers together.                                      *)

\* In every state one part is in focus; its steps are steps of that part, and stutter for the rest.
ServersFocus == focus \in ServersParts

LEMMA ServersOfPartsInit ==
  ServersInit =>
    /\ ServersFocus
    /\ MemoryInit
    /\ GatewayInit
    /\ SharedInit
    /\ LauncherInit
    /\ SetupInit
    /\ EventInit
    /\ ArtifactInit
    /\ PeerLinkInit
BY DEF ServersInit, ServersFocus

LEMMA ServersOfPartsNext ==
  ASSUME ServersFocus, [ServersNext]_serversAllVars
  PROVE  /\ ServersFocus'
         /\ [MemoryNext]_memoryVars
         /\ [GatewayNext]_gatewayVars
         /\ [SharedNext]_sharedVars
         /\ [LauncherNext]_launcherVars
         /\ [SetupNext]_setupVars
         /\ [EventNext]_bridgeEventVars
         /\ [ArtifactNext]_artifactVars
         /\ [PeerLinkNext]_peerLinkVars
<1>1. CASE focus = "memory" /\ MemoryNext /\ Others("memory")
  BY <1>1 DEF Others, ServersFocus
<1>2. CASE focus = "gateway" /\ GatewayNext /\ Others("gateway")
  BY <1>2 DEF Others, ServersFocus
<1>3. CASE focus = "shared" /\ SharedNext /\ Others("shared")
  BY <1>3 DEF Others, ServersFocus
<1>4. CASE focus = "launcher" /\ LauncherNext /\ Others("launcher")
  BY <1>4 DEF Others, ServersFocus
<1>5. CASE focus = "setup" /\ SetupNext /\ Others("setup")
  BY <1>5 DEF Others, ServersFocus
<1>6. CASE focus = "events" /\ EventNext /\ Others("events")
  BY <1>6 DEF Others, ServersFocus
<1>7. CASE focus = "artifacts" /\ ArtifactNext /\ Others("artifacts")
  BY <1>7 DEF Others, ServersFocus
<1>8. CASE focus = "link" /\ PeerLinkNext /\ Others("link")
  BY <1>8 DEF Others, ServersFocus
<1>9. CASE UNCHANGED serversAllVars
  BY <1>9 DEF serversAllVars, ServersFocus
<1> QED BY <1>1, <1>2, <1>3, <1>4, <1>5, <1>6, <1>7, <1>8, <1>9 DEF ServersNext

\* What the servers do, one part at a time, is a behaviour of each part: what the theorems above
\* say of a part holds of the composition that the run checks (MCServers).
THEOREM ServersOfParts == ServersSpec =>
  /\ MemorySpec
  /\ GatewaySpec
  /\ SharedSpec
  /\ LauncherSpec
  /\ SetupSpec
  /\ EventSpec
  /\ ArtifactSpec
  /\ PeerLinkSpec
BY ServersOfPartsInit, ServersOfPartsNext, PTL DEF ServersSpec, MemorySpec, GatewaySpec,
      SharedSpec, LauncherSpec, SetupSpec, EventSpec, ArtifactSpec, PeerLinkSpec

\* Every part of the servers has its types, as the run checks it (MCServers).
THEOREM ServersTypesCorrect == ServersSpec => []ServersTypeOK
<1>1. ServersSpec => []ServersFocus
  BY ServersOfPartsInit, ServersOfPartsNext, PTL DEF ServersSpec
<1>2. /\ ServersFocus
      /\ MemoryTypeOK
      /\ GatewayTypeOK
      /\ SharedTypeOK
      /\ LauncherTypeOK
      /\ SetupTypeOK
      /\ EventTypeOK
      /\ ArtifactTypeOK
      /\ PeerLinkTypeOK
      => ServersTypeOK
  BY DEF ServersFocus, ServersParts, ServersTypeOK
<1> QED BY <1>1, <1>2, ServersOfParts, MemoryTypeCorrect, GatewayTypeCorrect, SharedTypeCorrect,
      LauncherTypeCorrect, SetupTypeCorrect, EventTypeCorrect, ArtifactTypeCorrect,
      PeerLinkTypeCorrect, PTL

\* Whatever servers beside one another save, lock, launch, install and forward, and wherever they
\* crash: the safety properties of all parts hold in the composition, for all values of the
\* constants.
THEOREM ServersAreSafe == ServersSpec =>
  /\ [](FileIsLastSave /\ ArtifactsStay)
  /\ [](HeldUnlessLateEnd /\ GatewaysLocked /\ AnswersReachCallers)
  /\ [](StraysDidNotAnswer /\ SetupIsWhole)
  /\ []EventsReachSubscribers
BY ServersOfParts, FileIsWhole, ArtifactsAreKept, HeldCorrect, GatewaysAreLocked, AnswersCorrect,
   StraysCorrect, SetupCorrect, EventsDelivered, PTL
=============================================================================
