------------------------------ MODULE MCServers -------------------------------
(***************************************************************************)
(* What servers do beside one another, part by part: as in MCPage, the     *)
(* parts share no state and a behaviour is one of one part (focus).        *)
(***************************************************************************)
EXTENDS Memory, LegacyGateway, SharedGateway, Launcher, ExtensionSetup, BridgeEvents,
        Artifacts, PeerLink

VARIABLE focus

ServersParts ==
  {"memory", "gateway", "shared", "launcher", "setup", "events", "artifacts", "link"}

serversAllVars ==
  <<focus, memoryVars, gatewayVars, sharedVars, launcherVars, setupVars, bridgeEventVars,
    artifactVars, peerLinkVars>>

\* The state in which a part that is out of focus stays.
Rest(part) ==
  CASE part = "launcher" -> launchMode = "launch" /\ fallback
    [] OTHER -> TRUE

ServersInit ==
  /\ focus \in ServersParts
  /\ MemoryInit /\ GatewayInit /\ SharedInit /\ LauncherInit /\ SetupInit /\ EventInit
  /\ ArtifactInit /\ PeerLinkInit
  /\ \A part \in ServersParts \ {focus} : Rest(part)

Others(part) ==
  /\ focus' = focus
  /\ part # "memory" => UNCHANGED memoryVars
  /\ part # "gateway" => UNCHANGED gatewayVars
  /\ part # "shared" => UNCHANGED sharedVars
  /\ part # "launcher" => UNCHANGED launcherVars
  /\ part # "setup" => UNCHANGED setupVars
  /\ part # "events" => UNCHANGED bridgeEventVars
  /\ part # "artifacts" => UNCHANGED artifactVars
  /\ part # "link" => UNCHANGED peerLinkVars

ServersNext ==
  \/ focus = "memory" /\ MemoryNext /\ Others("memory")
  \/ focus = "gateway" /\ GatewayNext /\ Others("gateway")
  \/ focus = "shared" /\ SharedNext /\ Others("shared")
  \/ focus = "launcher" /\ LauncherNext /\ Others("launcher")
  \/ focus = "setup" /\ SetupNext /\ Others("setup")
  \/ focus = "events" /\ EventNext /\ Others("events")
  \/ focus = "artifacts" /\ ArtifactNext /\ Others("artifacts")
  \/ focus = "link" /\ PeerLinkNext /\ Others("link")

ServersSpec == ServersInit /\ [][ServersNext]_serversAllVars

\* Every part has its types; those that rest have them in the initial states.
ServersTypeOK ==
  CASE focus = "memory" -> MemoryTypeOK
    [] focus = "gateway" -> GatewayTypeOK
    [] focus = "shared" -> SharedTypeOK
    [] focus = "launcher" -> LauncherTypeOK
    [] focus = "setup" -> SetupTypeOK
    [] focus = "events" -> EventTypeOK
    [] focus = "artifacts" -> ArtifactTypeOK
    [] focus = "link" -> PeerLinkTypeOK
=============================================================================
