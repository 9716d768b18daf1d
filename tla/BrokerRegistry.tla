---------------------------- MODULE BrokerRegistry ----------------------------
(***************************************************************************)
(* How server processes find the native host (native_broker.py, run;       *)
(* native_broker_discovery.py; extension_gateway_native_peer.py).          *)
(*                                                                         *)
(* A host belongs to a browser profile. Hosts of one profile share two     *)
(* files: the socket's path and the registry entry. The extension starts a *)
(* host when it has no port, and has one port at a time, but a host whose  *)
(* port is gone goes on for a while beside the next one. Hosts are         *)
(* numbered in the order they start (brokerStartedAtMs).                   *)
(***************************************************************************)
EXTENDS Naturals

CONSTANTS
  Profiles,      \* browser profiles with the extension (broker ids)
  Peers,         \* server processes
  MaxHosts,      \* bound: native hosts started
  Owners         \* bound: which hosts belong to which profiles

ASSUME MaxHostsAssumption == MaxHosts \in Nat

Host == 1..MaxHosts

ASSUME OwnersAssumption == Owners \subseteq [Host -> Profiles]

VARIABLES
  stage,         \* host -> how far run() has come
  profileOf,     \* host -> its profile
  sock,          \* profile -> the host that bound the socket's path, 0: no file
  info,          \* profile -> the host of the registry entry, 0: no file
  extPort,       \* profile -> the host the extension has a port to, 0: none
  peerAt,        \* peer -> "idle", "scan", "dial" or "up"
  toScan,        \* peer -> registry entries its scan has still to look at
  best,          \* peer -> the best found: its profile and start, 0: none
  hostOf,        \* peer -> the host it is connected to
  \* history
  overlaps,      \* hosts that bound while another of the profile was running
  steady         \* peers whose scan has seen no change of hosts and files

hostFileVars == <<sock, info>>
hostVars == <<stage, profileOf, hostFileVars, extPort, overlaps>>
peerVars == <<peerAt, toScan, best, hostOf>>
vars == <<hostVars, peerVars, steady>>

HostRuns(h)   == stage[h] \notin {"none", "done"}
Listening(h) == stage[h] \in {"bound", "registered", "serving"}

\* A connect to the profile's socket path succeeds.
Connectable(f) == sock[f] # 0 /\ Listening(sock[f])

NoBroker == [profile |-> "none", started |-> 0]

Init ==
  /\ stage = [h \in Host |-> "none"]
  /\ profileOf \in Owners
  /\ sock = [f \in Profiles |-> 0] /\ info = [f \in Profiles |-> 0]
  /\ extPort = [f \in Profiles |-> 0]
  /\ peerAt = [p \in Peers |-> "idle"] /\ toScan = [p \in Peers |-> {}]
  /\ best = [p \in Peers |-> NoBroker] /\ hostOf = [p \in Peers |-> 0]
  /\ overlaps = {} /\ steady = {}

-----------------------------------------------------------------------------
(* A native host.                                                          *)

HostBecomes(h, s) == stage' = [stage EXCEPT ![h] = s] /\ steady' = {}

\* The extension has no port, or one whose host has ended, and starts a host.
HostStart(h) ==
  LET f == profileOf[h]
  IN /\ stage[h] = "none" /\ \A g \in Host : g < h => stage[g] # "none"
     /\ extPort[f] \in {0} \cup {g \in Host : stage[g] = "done"}
     /\ extPort' = [extPort EXCEPT ![f] = h]
     /\ HostBecomes(h, "started")
     /\ UNCHANGED <<profileOf, hostFileVars, overlaps, peerVars>>

\* The extension gives a port up: switched off, stopped, or greeted too late.
PortDropped(f) ==
  /\ extPort[f] # 0
  /\ extPort' = [extPort EXCEPT ![f] = 0]
  /\ UNCHANGED <<stage, profileOf, hostFileVars, overlaps, peerVars, steady>>

\* The hello is read, whatever is at the socket's path unlinked, and the path
\* bound.
HostBinds(h) ==
  LET f == profileOf[h]
  IN /\ stage[h] = "started"
     /\ sock' = [sock EXCEPT ![f] = h]
     /\ HostBecomes(h, "bound")
     /\ overlaps' = IF \E g \in Host \ {h} : profileOf[g] = f /\ HostRuns(g)
                      THEN overlaps \cup {h} ELSE overlaps
     /\ UNCHANGED <<profileOf, info, extPort, peerVars>>

\* Mutant: the registry is written when the registry entry is missing only.
HostRegistersOnce(h) ==
  LET f == profileOf[h]
  IN /\ stage[h] = "bound"
     /\ info' = [info EXCEPT ![f] = IF info[f] = 0 THEN h ELSE info[f]]
     /\ HostBecomes(h, "registered")
     /\ UNCHANGED <<profileOf, sock, extPort, overlaps, peerVars>>

HostRegisters(h) ==
  /\ stage[h] = "bound"
  /\ info' = [info EXCEPT ![profileOf[h]] = h]
  /\ HostBecomes(h, "registered")
  /\ UNCHANGED <<profileOf, sock, extPort, overlaps, peerVars>>

\* helloAck is written; into a closed pipe that raises, and nothing that the
\* host has left is removed.
HostAcks(h) ==
  /\ stage[h] = "registered"
  /\ \/ HostBecomes(h, "serving")
     \/ extPort[profileOf[h]] # h /\ HostBecomes(h, "done")
  /\ UNCHANGED <<profileOf, hostFileVars, extPort, overlaps, peerVars>>

\* The extension's end of the port is closed, or a result could not be
\* written to a peer: the loop ends and the socket stops listening.
HostCloses(h) ==
  /\ stage[h] = "serving"
  /\ HostBecomes(h, "closing")
  /\ UNCHANGED <<profileOf, hostFileVars, extPort, overlaps, peerVars>>

\* The registry entry of the profile is removed, whoever wrote it,
HostUnregisters(h) ==
  /\ stage[h] = "closing"
  /\ info' = [info EXCEPT ![profileOf[h]] = 0]
  /\ HostBecomes(h, "unregistered")
  /\ UNCHANGED <<profileOf, sock, extPort, overlaps, peerVars>>

\* and the socket's path, whoever bound it.
HostUnlinks(h) ==
  /\ stage[h] = "unregistered"
  /\ sock' = [sock EXCEPT ![profileOf[h]] = 0]
  /\ HostBecomes(h, "done")
  /\ UNCHANGED <<profileOf, info, extPort, overlaps, peerVars>>

\* The process is killed; its files stay.
HostKilled(h) ==
  /\ HostRuns(h)
  /\ HostBecomes(h, "done")
  /\ UNCHANGED <<profileOf, hostFileVars, extPort, overlaps, peerVars>>

-----------------------------------------------------------------------------
(* A server process: discover_best_broker and its connection.              *)

\* The registry entries are listed.
ScanStart(p) ==
  /\ peerAt[p] = "idle"
  /\ peerAt' = [peerAt EXCEPT ![p] = "scan"]
  /\ toScan' = [toScan EXCEPT ![p] = {f \in Profiles : info[f] # 0}]
  /\ best' = [best EXCEPT ![p] = NoBroker]
  /\ steady' = steady \cup {p}
  /\ UNCHANGED <<hostVars, hostOf>>

\* Mutant: the socket is not probed.
ScanEntryUnprobed(p, f) ==
  /\ peerAt[p] = "scan" /\ f \in toScan[p]
  /\ toScan' = [toScan EXCEPT ![p] = @ \ {f}]
  /\ best' = IF info[f] # 0 /\ sock[f] # 0 /\ info[f] >= best[p].started
             THEN [best EXCEPT ![p] = [profile |-> f, started |-> info[f]]]
             ELSE best
  /\ UNCHANGED <<hostVars, peerAt, hostOf, steady>>

\* An entry that can be read and whose socket answers is kept if it is no
\* older than the best so far.
ScanEntry(p, f) ==
  /\ peerAt[p] = "scan" /\ f \in toScan[p]
  /\ toScan' = [toScan EXCEPT ![p] = @ \ {f}]
  /\ best' = IF info[f] # 0 /\ Connectable(f) /\ info[f] >= best[p].started
             THEN [best EXCEPT ![p] = [profile |-> f, started |-> info[f]]]
             ELSE best
  /\ UNCHANGED <<hostVars, peerAt, hostOf, steady>>

\* Mutant: the scan's result is dialled, found or not.
ScanDoneDials(p) ==
  /\ peerAt[p] = "scan" /\ toScan[p] = {}
  /\ peerAt' = [peerAt EXCEPT ![p] = "dial"]
  /\ steady' = steady \ {p}
  /\ UNCHANGED <<hostVars, toScan, best, hostOf>>

\* All entries have been looked at: without a broker, sleep and scan again.
ScanDone(p) ==
  /\ peerAt[p] = "scan" /\ toScan[p] = {}
  /\ peerAt' = [peerAt EXCEPT ![p] = IF best[p] = NoBroker THEN "idle" ELSE "dial"]
  /\ steady' = steady \ {p}
  /\ UNCHANGED <<hostVars, toScan, best, hostOf>>

\* Whoever listens at the path now is connected to; or else the scan begins
\* again.
Dial(p) ==
  LET f == best[p].profile
  IN /\ peerAt[p] = "dial"
     /\ IF Connectable(f)
        THEN /\ peerAt' = [peerAt EXCEPT ![p] = "up"]
             /\ hostOf' = [hostOf EXCEPT ![p] = sock[f]]
        ELSE peerAt' = [peerAt EXCEPT ![p] = "idle"] /\ UNCHANGED hostOf
     /\ best' = [best EXCEPT ![p] = NoBroker]
     /\ UNCHANGED <<hostVars, toScan, steady>>

\* Mutant: a lost connection is not noticed.
PeerSeesEofNever(p) ==
  /\ peerAt[p] = "up" /\ stage[hostOf[p]] = "done"
  /\ UNCHANGED vars

\* The host's process has ended.
PeerSeesEof(p) ==
  /\ peerAt[p] = "up" /\ stage[hostOf[p]] = "done"
  /\ peerAt' = [peerAt EXCEPT ![p] = "idle"]
  /\ hostOf' = [hostOf EXCEPT ![p] = 0]
  /\ UNCHANGED <<hostVars, toScan, best, steady>>

-----------------------------------------------------------------------------
HostNext ==
  \/ \E h \in Host :
       \/ HostStart(h) \/ HostBinds(h) \/ HostRegisters(h) \/ HostAcks(h)
       \/ HostCloses(h) \/ HostUnregisters(h) \/ HostUnlinks(h) \/ HostKilled(h)
  \/ \E f \in Profiles : PortDropped(f)

PeerNext ==
  \E p \in Peers :
    \/ ScanStart(p) \/ ScanDone(p) \/ Dial(p) \/ PeerSeesEof(p)
    \/ \E f \in Profiles : ScanEntry(p, f)

Next == HostNext \/ PeerNext

Spec == Init /\ [][Next]_vars

\* A running host goes on, and ends when its port has; a server process goes
\* on looking. Nothing makes a host start, a port drop or a process die.
Fairness ==
  /\ \A h \in Host :
       /\ WF_vars(HostBinds(h)) /\ WF_vars(HostRegisters(h)) /\ WF_vars(HostAcks(h))
       /\ WF_vars(HostCloses(h) /\ extPort[profileOf[h]] # h)
       /\ WF_vars(HostUnregisters(h)) /\ WF_vars(HostUnlinks(h))
  /\ \A p \in Peers :
       /\ WF_vars(ScanStart(p)) /\ WF_vars(\E f \in Profiles : ScanEntry(p, f))
       /\ WF_vars(ScanDone(p)) /\ WF_vars(Dial(p)) /\ WF_vars(PeerSeesEof(p))

FairSpec == Spec /\ Fairness

-----------------------------------------------------------------------------
(* Properties.                                                             *)

Stages ==
  {"none", "started", "bound", "registered", "serving", "closing", "unregistered",
   "done"}

\* Every variable stays in the set its comment describes.
TypeOK ==
  /\ stage \in [Host -> Stages] /\ profileOf \in [Host -> Profiles]
  /\ sock \in [Profiles -> {0} \cup Host] /\ info \in [Profiles -> {0} \cup Host]
  /\ extPort \in [Profiles -> {0} \cup Host]
  /\ peerAt \in [Peers -> {"idle", "scan", "dial", "up"}]
  /\ toScan \in [Peers -> SUBSET Profiles]
  /\ best \in [Peers -> [profile : Profiles, started : Host] \cup {NoBroker}]
  /\ hostOf \in [Peers -> {0} \cup Host]
  /\ \A p \in Peers : /\ peerAt[p] = "up" => hostOf[p] # 0
                      /\ peerAt[p] = "dial" => best[p] # NoBroker
  /\ overlaps \subseteq Host /\ steady \subseteq Peers

\* A server process can find the host and connect to it.
Reachable(h) == LET f == profileOf[h] IN sock[f] = h /\ info[f] = h

InUse(h) == stage[h] = "serving" /\ extPort[profileOf[h]] = h

\* A host that is the extension's bridge can be found, whatever dead hosts
\* have left behind, unless it bound the socket while another host of the
\* profile was still running (run, _write_registry).
FoundUnlessOverlapped ==
  \A h \in Host : InUse(h) /\ h \notin overlaps => Reachable(h)

\* The same without the proviso (contracts/extension_bridge.md:22: the broker
\* removes the "gateway not reachable" failure modes).
BridgeIsFound == \A h \in Host : InUse(h) => Reachable(h)

\* If nothing changes during a scan, it ends with the newest entry that has a
\* connectable socket, and with none only if there is none
\* (discover_best_broker's selection policy).
NewestIsChosen ==
  LET live == {f \in Profiles : info[f] # 0 /\ Connectable(f)}
  IN \A p \in steady : peerAt[p] = "scan" /\ toScan[p] = {} =>
       \/ live = {} /\ best[p] = NoBroker
       \/ /\ best[p].profile \in live
          /\ \A f \in live : info[f] <= best[p].started

\* Once a host stays in use and can be found, every server process gets and
\* keeps a connection to a host that serves, through the files of dead hosts
\* and its own lost connections (_run_async).
PeersConnect ==
  \A p \in Peers :
    <>[](\E h \in Host : InUse(h) /\ Reachable(h))
      => <>[](peerAt[p] = "up" /\ Listening(hostOf[p]))
=============================================================================
