------------------------------ MODULE Launcher ------------------------------
(***************************************************************************)
(* Who runs Chrome: launcher.py, the readiness checks of dispatch.py, and  *)
(* the launch and recover operations of the browser tool (unified.py), in  *)
(* the modes launch and attach.                                            *)
(*                                                                         *)
(* Calls come one after the other, but each is several probes of a port on *)
(* which something else may listen and a Chrome may hang, recover, or come *)
(* up late.  The launcher has a handle of one Chrome, the last it started. *)
(* A launch that the system refuses and one that times out are told apart  *)
(* by their effect only.  Logs, flags and windows are left out.            *)
(***************************************************************************)
EXTENDS Naturals

CONSTANTS
  MaxChromes,      \* bound: Chromes launched
  MaxLaunchCalls   \* bound: calls

ASSUME LauncherAssumption == {MaxChromes, MaxLaunchCalls} \subseteq Nat

Chromes == 1..MaxChromes

\* Port 1 is the configured one; the others are found free by a fallback.
Ports == 1..(MaxChromes + 1)

VARIABLES
  launchMode, \* "launch" or "attach"
  fallback,   \* MCP_AUTO_PORT_FALLBACK
  outsider,   \* on port 1: "none", "chrome" (an external one) or "other"
  chromes,    \* launched Chrome -> its port and state: "unused", "starting", "up", "hung",
              \* "deaf" (runs without its port) or "gone"
  owned,      \* self.process: the Chrome it is of, 0 before the first
  cdpPort,    \* config.cdp_port
  request,    \* the current call: "tool", "launch", "recover" or "hard"
  launchStep, \* "idle", or where the call is
  requests,   \* calls so far
  sessionIn,  \* port of the Chrome that has the session's tab, 0 for no tab
  \* history
  answerless  \* launched Chromes that ran and did not answer a probe before a launch

machineVars == <<outsider, chromes>>
settings == <<launchMode, fallback>>
launcherVars ==
  <<settings, machineVars, owned, cdpPort, request, launchStep, requests, sessionIn, answerless>>

LauncherInit ==
  /\ launchMode \in {"launch", "attach"} /\ fallback \in BOOLEAN
  /\ outsider = "none" /\ chromes = [c \in Chromes |-> [port |-> 1, state |-> "unused"]]
  /\ owned = 0 /\ cdpPort = 1
  /\ request = "tool" /\ launchStep = "idle" /\ requests = 0
  /\ sessionIn = 0 /\ answerless = {}

Runs(c) == chromes[c].state \notin {"unused", "gone"}
Listens(c) == chromes[c].state \in {"up", "hung"}

\* _port_available, negated: something accepts connections on the port.
Taken(port) ==
  \/ port = 1 /\ outsider # "none"
  \/ \E c \in Chromes : Listens(c) /\ chromes[c].port = port

\* _cdp_ready: /json/version is answered in time.
Answers(port) ==
  \/ port = 1 /\ outsider = "chrome"
  \/ \E c \in Chromes : chromes[c] = [port |-> port, state |-> "up"]

-----------------------------------------------------------------------------
(* The machine                                                             *)

Becomes(c, state) == chromes' = [chromes EXCEPT ![c].state = state]

\* A Chrome comes up; if its port has been taken meanwhile, without it.
ChromeComesUp(c) ==
  /\ chromes[c].state = "starting"
  /\ Becomes(c, IF Taken(chromes[c].port) THEN "deaf" ELSE "up")
  /\ UNCHANGED outsider

ChromeHangs(c) == chromes[c].state = "up" /\ Becomes(c, "hung") /\ UNCHANGED outsider
ChromeRecovers(c) == chromes[c].state = "hung" /\ Becomes(c, "up") /\ UNCHANGED outsider
ChromeExits(c) == Runs(c) /\ Becomes(c, "gone") /\ UNCHANGED outsider

\* Something else comes to listen on the port, hangs, or leaves.
OutsiderChanges(o) ==
  /\ o # outsider
  /\ outsider = "none" => ~\E c \in Chromes : Listens(c) /\ chromes[c].port = 1
  /\ outsider' = o /\ UNCHANGED chromes

Machine ==
  /\ \/ \E c \in Chromes : ChromeComesUp(c) \/ ChromeHangs(c) \/ ChromeRecovers(c) \/ ChromeExits(c)
     \/ \E o \in {"none", "chrome", "other"} : OutsiderChanges(o)
  /\ UNCHANGED <<settings, owned, cdpPort, request, launchStep, requests, sessionIn, answerless>>

-----------------------------------------------------------------------------
(* Calls                                                                   *)

StepsTo(step) == launchStep' = step /\ UNCHANGED <<settings, machineVars, request, requests>>

\* A tool that needs the browser, browser(action="launch"), which attach mode refuses, and
\* browser(action="recover").
BeginCall(kind) ==
  /\ launchStep = "idle" /\ requests < MaxLaunchCalls
  /\ requests' = requests + 1 /\ request' = kind
  /\ launchStep' = CASE kind = "tool"                              -> "probe"
             [] kind = "launch" /\ launchMode = "launch"  -> "probe"
             [] kind = "launch" /\ launchMode = "attach"  -> "idle"
             [] OTHER                                      -> "before"
  /\ UNCHANGED <<settings, machineVars, owned, cdpPort, sessionIn, answerless>>

\* What follows ensure_running.
Next1 == CASE request = "tool" -> "ready" [] request = "launch" -> "idle" [] OTHER -> "after"

\* Mutant: nothing is asked, and what listens is taken for another program.
LaunchesAnyway == FALSE

\* ensure_running: there is nothing to do if the port answers.
Running == Answers(cdpPort)

\* The Chromes that run, or should run, on the port.
Asked(c) == Runs(c) /\ chromes[c].port = cdpPort

Probe ==
  /\ launchStep = "probe"
  /\ IF Running
     THEN StepsTo(Next1) /\ UNCHANGED answerless
     ELSE /\ StepsTo(IF launchMode = "attach" THEN Next1 ELSE "port")
          /\ answerless' = answerless \cup {c \in Chromes : Asked(c) /\ chromes[c].state # "up"}
  /\ UNCHANGED <<owned, cdpPort, sessionIn>>

\* A taken port is left to whoever has it, for one that nothing else is on, or for good.
CheckPort ==
  /\ launchStep = "port"
  /\ IF ~Taken(cdpPort) THEN StepsTo("spawn") /\ UNCHANGED cdpPort
     ELSE IF fallback
     THEN /\ StepsTo("spawn")
          /\ cdpPort' \in {p \in Ports :
                            p # 1 /\ ~Taken(p) /\ \A c \in Chromes : chromes[c].port # p}
     ELSE StepsTo(Next1) /\ UNCHANGED cdpPort
  /\ UNCHANGED <<owned, sessionIn, answerless>>

\* Two Chromes cannot share a profile, and a port has its own: the second one hands over to
\* the first, and exits.
SharesProfile(port) == \E c \in Chromes : Runs(c) /\ chromes[c].port = port

\* Popen.  The handle of a Chrome launched before is lost.
Spawn ==
  /\ launchStep = "spawn"
  /\ \E c \in Chromes :
       /\ chromes[c].state = "unused" /\ \A k \in 1..(c - 1) : chromes[k].state # "unused"
       /\ chromes' = [chromes EXCEPT ![c] =
                        [port |-> cdpPort,
                         state |-> IF SharesProfile(cdpPort) THEN "gone" ELSE "starting"]]
       /\ owned' = c
  /\ launchStep' = "await"
  /\ UNCHANGED <<settings, outsider, cdpPort, request, requests, sessionIn, answerless>>

SpawnFails ==
  /\ launchStep = "spawn" /\ StepsTo(Next1) /\ UNCHANGED <<owned, cdpPort, sessionIn, answerless>>

\* Until the port answers, or the time is over.
Await ==
  /\ launchStep = "await" /\ StepsTo(Next1) /\ UNCHANGED <<owned, cdpPort, sessionIn, answerless>>

\* A tab is opened in the Chrome of the port, if that works.
OpensTab(otherwise) == {otherwise} \cup {p \in Ports : p = cdpPort /\ Answers(p)}

\* dispatch: a tool runs if the port answers, in the session's tab; if that is not in this
\* Chrome, in a new one.
RunTool ==
  /\ launchStep = "ready" /\ StepsTo("idle") /\ sessionIn' \in OpensTab(sessionIn)
  /\ UNCHANGED <<owned, cdpPort, answerless>>

\* recover: the session is forgotten first, whatever Chrome does.  A Chrome that answers is
\* kept, unless a hard recovery is asked for; attach mode keeps it in any case.
BeginRecover ==
  /\ launchStep = "before" /\ sessionIn' = 0
  /\ StepsTo(CASE launchMode = "attach" /\ Answers(cdpPort)  -> "tab"
               [] launchMode = "attach" /\ ~Answers(cdpPort) -> "idle"
               [] launchMode = "launch" /\ request = "recover" /\ Answers(cdpPort) -> "after"
               [] OTHER -> IF owned = 0 THEN "probe" ELSE "stop")
  /\ UNCHANGED <<owned, cdpPort, answerless>>

\* restart: the Chrome of the handle is terminated, and killed if it takes too long.
StopOwned ==
  /\ launchStep = "stop" /\ launchStep' = "probe"
  /\ chromes' = [chromes EXCEPT ![owned].state = "gone"]
  /\ UNCHANGED <<settings, outsider, owned, cdpPort, request, requests, sessionIn, answerless>>

AfterRecover ==
  /\ launchStep = "after" /\ StepsTo(IF Answers(cdpPort) THEN "tab" ELSE "idle")
  /\ UNCHANGED <<owned, cdpPort, sessionIn, answerless>>

\* A fresh tab for the session; the former one is closed.
RecoverTab ==
  /\ launchStep = "tab" /\ StepsTo("idle") /\ sessionIn' \in OpensTab(0)
  /\ UNCHANGED <<owned, cdpPort, answerless>>

LauncherNext ==
  \/ Machine
  \/ \E kind \in {"tool", "launch", "recover", "hard"} : BeginCall(kind)
  \/ Probe \/ CheckPort \/ Spawn \/ SpawnFails \/ Await \/ RunTool
  \/ BeginRecover \/ StopOwned \/ AfterRecover \/ RecoverTab

LauncherSpec == LauncherInit /\ [][LauncherNext]_launcherVars

-----------------------------------------------------------------------------
LauncherTypeOK ==
  /\ launchMode \in {"launch", "attach"} /\ fallback \in BOOLEAN
  /\ outsider \in {"none", "chrome", "other"}
  /\ chromes \in [Chromes -> [port : Ports,
                              state : {"unused", "starting", "up", "hung", "deaf", "gone"}]]
  /\ owned \in 0..MaxChromes /\ cdpPort \in Ports
  /\ request \in {"tool", "launch", "recover", "hard"}
  /\ launchStep \in {"idle", "probe", "port", "spawn", "await", "ready", "before", "stop",
                     "after", "tab"}
  /\ requests \in 0..MaxLaunchCalls /\ sessionIn \in 0..(MaxChromes + 1)
  /\ answerless \subseteq Chromes

\* A Chrome of the server's that it has no handle of any more, and never stops, is one
\* that did not answer when another was launched in its place: it hung, was slow to come
\* up, or had lost its port.  (launcher.py:37 stops the "launcher-owned Chrome process".)
\* And a recovery leaves the session in the Chrome of the port, or with no tab.
StraysDidNotAnswer ==
  /\ \A c \in Chromes : Runs(c) /\ c # owned => c \in answerless
  /\ launchStep = "idle" /\ request \in {"recover", "hard"} => sessionIn \in {0, cdpPort}
=============================================================================
