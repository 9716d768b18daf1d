--------------------------- MODULE ExtensionSetup ---------------------------
(***************************************************************************)
(* How extension mode is set up: the native host installer, the health     *)
(* check and the auto-healer, in servers that start, end and are killed as *)
(* they like, on one machine (native_host_installer, extension_health,     *)
(* extension_auto_heal, and their use by main.py and the gateway peer).    *)
(*                                                                         *)
(* The wrapper and the manifests are written in place, so a file is partly *)
(* written for a while, and longer if the writer is killed.  A manifest is *)
(* "missing", "partial", "writable" (by the group: Chrome refuses it),     *)
(* "default" (it allows the extension's own id) or "all" (and the id that  *)
(* a profile gave to a second copy).  This is the installer of Linux and   *)
(* macOS; that of Windows writes one manifest and a key per browser.       *)
(***************************************************************************)
EXTENDS Naturals, FiniteSets

CONSTANTS
  SetupServers,   \* server processes
  NoServer,       \* nobody
  Targets,        \* the manifests: one per browser, numbered in the order they are written
  MaxHeals,       \* MCP_EXTENSION_AUTO_HEAL_MAX_ATTEMPTS
  MaxStarts,      \* bound: starts of servers
  MaxMishaps      \* bound: kills, write errors, and changes by others

ASSUME SetupAssumption ==
  /\ NoServer \notin SetupServers
  /\ IsFiniteSet(Targets) /\ Targets # {} /\ Targets \subseteq Nat \ {0}
  /\ {MaxHeals, MaxStarts, MaxMishaps} \subseteq Nat

VARIABLES
  serverAt,   \* "off", "discover", "wrapper", "half wrapper", "manifest", "half manifest"
              \* (these install) or "runs"
  healing,    \* servers whose install is the healer's
  nextTarget, \* the manifest an installing server has come to
  idsKnown,   \* what it writes: "default" or "all"
  wrapper,    \* "missing", "partial" or "whole"
  manifests,
  secondCopy, \* a profile has the extension under another id
  bridge,     \* the extension has started a native host
  linked,     \* servers that are connected to it
  leader,     \* holder of the leader lock
  heals,      \* the healers' attempts
  starts, mishaps,
  \* history
  newestIds,  \* what the install that began last writes
  overlapped, \* installs have overlapped since there was none
  disturbed   \* a kill, an error or another's change has come after the last beginning

setupFiles == <<wrapper, manifests>>
installVars == <<healing, nextTarget, idsKnown>>
setupHistory == <<newestIds, overlapped, disturbed>>
setupVars == <<serverAt, installVars, setupFiles, secondCopy, bridge, linked, leader, heals,
               starts, mishaps, setupHistory>>

SetupInit ==
  /\ serverAt = [s \in SetupServers |-> "off"]
  /\ healing = {} /\ nextTarget = [s \in SetupServers |-> 0]
  /\ idsKnown = [s \in SetupServers |-> "default"]
  /\ wrapper = "missing" /\ manifests = [t \in Targets |-> "missing"]
  /\ secondCopy = FALSE /\ bridge = FALSE /\ linked = {}
  /\ leader = NoServer /\ heals = [s \in SetupServers |-> 0]
  /\ starts = 0 /\ mishaps = 0
  /\ newestIds = "default" /\ overlapped = FALSE /\ disturbed = FALSE

Installing == {s \in SetupServers : serverAt[s] \notin {"off", "runs"}}

MovesTo(s, step) == serverAt' = [serverAt EXCEPT ![s] = step]
Mishap == mishaps < MaxMishaps /\ mishaps' = mishaps + 1 /\ disturbed' = TRUE

-----------------------------------------------------------------------------
(* The installer                                                           *)

StartServer(s) ==
  /\ serverAt[s] = "off" /\ starts < MaxStarts
  /\ MovesTo(s, "discover") /\ starts' = starts + 1
  /\ UNCHANGED <<installVars, setupFiles, secondCopy, bridge, linked, leader, heals, mishaps,
                 setupHistory>>

\* The profiles are searched for the extension.
DiscoverIds(s) ==
  /\ serverAt[s] = "discover" /\ MovesTo(s, "wrapper")
  /\ idsKnown' = [idsKnown EXCEPT ![s] = IF secondCopy THEN "all" ELSE "default"]
  /\ newestIds' = idsKnown'[s]
  /\ overlapped' = (\E p \in Installing \ {s} : serverAt[p] # "discover")
  /\ disturbed' = FALSE
  /\ UNCHANGED <<healing, nextTarget, setupFiles, secondCopy, bridge, linked, leader, heals,
                 starts, mishaps>>

FirstTarget == CHOOSE t \in Targets : \A u \in Targets : t <= u
Later(t) == {u \in Targets : u > t}

\* Mutant: the installer returns within its loop.
OnlyFirst(s) == {}

\* The manifests that an installer has still to write after the one it has come to.
Remaining(s) == Later(nextTarget[s])

OpenWrapper(s) ==
  /\ serverAt[s] = "wrapper" /\ MovesTo(s, "half wrapper") /\ wrapper' = "partial"
  /\ UNCHANGED <<installVars, manifests, secondCopy, bridge, linked, leader, heals, starts,
                 mishaps, setupHistory>>

WriteWrapper(s) ==
  /\ serverAt[s] = "half wrapper" /\ MovesTo(s, "manifest") /\ wrapper' = "whole"
  /\ nextTarget' = [nextTarget EXCEPT ![s] = FirstTarget]
  /\ UNCHANGED <<healing, idsKnown, manifests, secondCopy, bridge, linked, leader, heals, starts,
                 mishaps, setupHistory>>

OpenManifest(s) ==
  /\ serverAt[s] = "manifest" /\ MovesTo(s, "half manifest")
  /\ manifests' = [manifests EXCEPT ![nextTarget[s]] = "partial"]
  /\ UNCHANGED <<installVars, wrapper, secondCopy, bridge, linked, leader, heals, starts, mishaps,
                 setupHistory>>

\* A server that starts comes to be the leader, if there is none.
InstallEnds(s) ==
  /\ MovesTo(s, "runs") /\ healing' = healing \ {s}
  /\ leader' = IF leader = NoServer THEN s ELSE leader

NextFile(s) ==
  IF Remaining(s) = {} THEN InstallEnds(s) /\ UNCHANGED nextTarget
  ELSE /\ MovesTo(s, "manifest") /\ UNCHANGED <<healing, leader>>
       /\ nextTarget' = [nextTarget EXCEPT ![s] = CHOOSE t \in Remaining(s) :
                                                    \A u \in Remaining(s) : t <= u]

WriteManifest(s) ==
  /\ serverAt[s] = "half manifest" /\ NextFile(s)
  /\ manifests' = [manifests EXCEPT ![nextTarget[s]] = idsKnown[s]]
  /\ UNCHANGED <<idsKnown, wrapper, secondCopy, bridge, linked, heals, starts, mishaps,
                 setupHistory>>

\* Without a wrapper nothing else is installed; a manifest that fails is skipped.
InstallError(s) ==
  /\ Mishap
  /\ \/ /\ serverAt[s] \in {"discover", "wrapper", "half wrapper"}
        /\ InstallEnds(s) /\ UNCHANGED nextTarget
     \/ serverAt[s] \in {"manifest", "half manifest"} /\ NextFile(s)
  /\ UNCHANGED <<idsKnown, setupFiles, secondCopy, bridge, linked, heals, starts, newestIds,
                 overlapped>>

-----------------------------------------------------------------------------
(* Others                                                                  *)

FileChanges ==
  /\ Mishap
  /\ \/ wrapper' = "missing" /\ UNCHANGED manifests
     \/ \E t \in Targets, to \in {"missing", "writable"} :
          /\ manifests[t] # "missing"
          /\ manifests' = [manifests EXCEPT ![t] = to] /\ UNCHANGED wrapper
  /\ UNCHANGED <<serverAt, installVars, secondCopy, bridge, linked, leader, heals, starts,
                 newestIds, overlapped>>

SecondCopyAppears ==
  /\ ~secondCopy /\ secondCopy' = TRUE
  /\ UNCHANGED <<serverAt, installVars, setupFiles, bridge, linked, leader, heals, starts,
                 mishaps, setupHistory>>

\* Chrome starts the wrapper of a manifest that it accepts.
Accepted(t) == manifests[t] \in {"default", "all"}

BridgeChanges ==
  /\ bridge' = ~bridge
  /\ bridge' => wrapper = "whole" /\ \E t \in Targets : Accepted(t)
  /\ linked' = {}
  /\ UNCHANGED <<serverAt, installVars, setupFiles, secondCopy, leader, heals, starts, mishaps,
                 setupHistory>>

-----------------------------------------------------------------------------
(* A server that has been started                                          *)

Started(s) == serverAt[s] = "runs" \/ s \in healing

LinksUp(s) ==
  /\ Started(s) /\ bridge /\ linked' = linked \cup {s}
  /\ UNCHANGED <<serverAt, installVars, setupFiles, secondCopy, bridge, leader, heals, starts,
                 mishaps, setupHistory>>

\* wait_for_connection, of any tool call: a peer becomes the leader if there is none.
PromoteToLeader(s) ==
  /\ Started(s) /\ leader = NoServer /\ leader' = s
  /\ UNCHANGED <<serverAt, installVars, setupFiles, secondCopy, bridge, linked, heals, starts,
                 mishaps, setupHistory>>

\* collect_extension_health.  Of a wrapper it only looks whether it exists.
ManifestOk(t) == Accepted(t) /\ wrapper # "missing"

HealthStatus ==
  CASE bridge                                           -> "connected"
    [] ~bridge /\ \A t \in Targets : manifests[t] = "missing" -> "native_host_missing"
    [] ~bridge /\ (\E t \in Targets : manifests[t] # "missing")
               /\ \A t \in Targets : ~ManifestOk(t)    -> "native_host_misconfigured"
    [] OTHER                                            -> "waiting_for_extension"

IsLeader(s) == leader = s

Heal(s) ==
  /\ serverAt[s] = "runs" /\ s \notin linked /\ IsLeader(s)
  /\ HealthStatus \in {"native_host_missing", "native_host_misconfigured"}
  /\ MaxHeals = 0 \/ heals[s] < MaxHeals
  /\ heals' = [heals EXCEPT ![s] = @ + 1]
  /\ healing' = healing \cup {s} /\ MovesTo(s, "discover")
  /\ UNCHANGED <<nextTarget, idsKnown, setupFiles, secondCopy, bridge, linked, leader, starts,
                 mishaps, setupHistory>>

HealerSeesLink(s) ==
  /\ serverAt[s] = "runs" /\ s \in linked /\ heals' = [heals EXCEPT ![s] = 0]
  /\ UNCHANGED <<serverAt, installVars, setupFiles, secondCopy, bridge, linked, leader, starts,
                 mishaps, setupHistory>>

\* The process is gone and its lock is free.  The healer ends wherever it is.
ServerGone(s) ==
  /\ MovesTo(s, "off") /\ healing' = healing \ {s} /\ linked' = linked \ {s}
  /\ leader' = IF leader = s THEN NoServer ELSE leader
  /\ heals' = [heals EXCEPT ![s] = 0]
  /\ UNCHANGED <<nextTarget, idsKnown, setupFiles, secondCopy, bridge, starts, newestIds,
                 overlapped>>

ServerExits(s) ==
  /\ Started(s) /\ ServerGone(s)
  /\ disturbed' = (disturbed \/ s \in Installing) /\ UNCHANGED mishaps

ServerKilled(s) == serverAt[s] # "off" /\ ServerGone(s) /\ Mishap

SetupNext ==
  \/ FileChanges \/ SecondCopyAppears \/ BridgeChanges
  \/ \E s \in SetupServers :
       \/ StartServer(s) \/ DiscoverIds(s) \/ OpenWrapper(s) \/ WriteWrapper(s)
       \/ OpenManifest(s) \/ WriteManifest(s) \/ InstallError(s)
       \/ LinksUp(s) \/ PromoteToLeader(s) \/ Heal(s) \/ HealerSeesLink(s)
       \/ ServerExits(s) \/ ServerKilled(s)

SetupSpec == SetupInit /\ [][SetupNext]_setupVars

-----------------------------------------------------------------------------
SetupTypeOK ==
  /\ serverAt \in [SetupServers -> {"off", "discover", "wrapper", "half wrapper", "manifest",
                                    "half manifest", "runs"}]
  /\ healing \subseteq SetupServers /\ nextTarget \in [SetupServers -> Targets \cup {0}]
  /\ idsKnown \in [SetupServers -> {"default", "all"}]
  /\ wrapper \in {"missing", "partial", "whole"}
  /\ manifests \in [Targets -> {"missing", "partial", "writable", "default", "all"}]
  /\ {secondCopy, bridge, overlapped, disturbed} \subseteq BOOLEAN
  /\ linked \subseteq SetupServers
  /\ leader \in SetupServers \cup {NoServer}
  /\ heals \in [SetupServers -> Nat] /\ starts \in 0..MaxStarts /\ mishaps \in 0..MaxMishaps
  /\ newestIds \in {"default", "all"}

\* Unless something went wrong after the last install began, what the servers leave behind
\* works: the wrapper is whole, though each server writes it anew and in place, and every
\* browser's manifest is accepted.  It allows the ids that the last install found, unless
\* an older one ran beside it and wrote its own over them.
SetupIsWhole ==
  starts > 0 /\ Installing = {} /\ ~disturbed =>
    /\ wrapper = "whole"
    /\ \A t \in Targets : Accepted(t) /\ (overlapped \/ manifests[t] = newestIds)
=============================================================================
