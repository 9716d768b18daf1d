-------------------------------- MODULE MCPage --------------------------------
(***************************************************************************)
(* What one server does with one tab, part by part.  The parts share no    *)
(* state, so one run checks them all: a behaviour is one of one part       *)
(* (focus), while the others rest in one of their initial states.          *)
(***************************************************************************)
EXTENDS PageInput, PageWait, TabSession, Dialogs, CdpChannel, Telemetry, Downloads,
        MCObservations, PageDiagnostics, ResourceTimings, AppInsert

VARIABLE focus

AC(k, s, v) == [kind |-> k, strategy |-> s, verify |-> v]
SomeAppCalls ==
  {AC("svg", "auto", TRUE), AC("svg", "auto", FALSE), AC("svg", "paste", FALSE),
   AC("text", "auto", TRUE), AC("files", "drop", TRUE)}

PageParts ==
  {"input", "wait", "tab", "dialog", "channel", "telemetry", "download", "observation",
   "diagnostics", "resources", "app"}

pageAllVars ==
  <<focus, inputVars, waitVars, tabVars, dialogVars, channelVars, telemetryTabVars,
    downloadVars, observationVars, diagVars, timingVars, appVars>>

\* The state in which a part that is out of focus stays.
Rest(part) ==
  CASE part = "input" -> link = "direct"
    [] part = "wait" -> shared
    [] part = "tab" -> mode = "direct"
    [] part = "dialog" -> autoDialog
    [] part = "observation" -> autoAff /\ shownDoc = 1
    [] part = "diagnostics" -> ownSession
    [] part = "app" -> appMode = "direct" /\ strict
    [] OTHER -> TRUE

PageInit ==
  /\ focus \in PageParts
  /\ InputInit /\ WaitInit /\ TabInit /\ DialogInit /\ ChannelInit /\ TelemetryInit
  /\ DownloadInit /\ ObservationInit /\ DiagInit /\ TimingInit /\ AppInit
  /\ \A part \in PageParts \ {focus} : Rest(part)

Others(part) ==
  /\ focus' = focus
  /\ part # "input" => UNCHANGED inputVars
  /\ part # "wait" => UNCHANGED waitVars
  /\ part # "tab" => UNCHANGED tabVars
  /\ part # "dialog" => UNCHANGED dialogVars
  /\ part # "channel" => UNCHANGED channelVars
  /\ part # "telemetry" => UNCHANGED telemetryTabVars
  /\ part # "download" => UNCHANGED downloadVars
  /\ part # "observation" => UNCHANGED observationVars
  /\ part # "diagnostics" => UNCHANGED diagVars
  /\ part # "resources" => UNCHANGED timingVars
  /\ part # "app" => UNCHANGED appVars

PageNext ==
  \/ focus = "input" /\ InputNext /\ Others("input")
  \/ focus = "wait" /\ WaitNext /\ Others("wait")
  \/ focus = "tab" /\ TabNext /\ Others("tab")
  \/ focus = "dialog" /\ DialogNext /\ Others("dialog")
  \/ focus = "channel" /\ ChannelNext /\ Others("channel")
  \/ focus = "telemetry" /\ TelemetryNext /\ Others("telemetry")
  \/ focus = "download" /\ DownloadNext /\ Others("download")
  \/ focus = "observation" /\ ObservationNext /\ Others("observation")
  \/ focus = "diagnostics" /\ DiagNext /\ Others("diagnostics")
  \/ focus = "resources" /\ TimingNext /\ Others("resources")
  \/ focus = "app" /\ AppNext /\ Others("app")

PageSpec == PageInit /\ [][PageNext]_pageAllVars

\* Every part has its types; those that rest have them in the initial states.
PageTypeOK ==
  CASE focus = "input" -> InputTypeOK
    [] focus = "wait" -> WaitTypeOK
    [] focus = "tab" -> TabTypeOK
    [] focus = "dialog" -> DialogTypeOK
    [] focus = "channel" -> ChannelTypeOK
    [] focus = "telemetry" -> TelemetryTypeOK
    [] focus = "download" -> DownloadTypeOK
    [] focus = "observation" -> ObservationTypeOK
    [] focus = "diagnostics" -> DiagTypeOK
    [] focus = "resources" -> TimingTypeOK
    [] focus = "app" -> AppTypeOK
=============================================================================
