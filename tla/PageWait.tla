------------------------------ MODULE PageWait ------------------------------
(***************************************************************************)
(* What a tool reports of the navigation it set off: handle_click,         *)
(* handle_form and handle_navigate (server/handlers/unified.py) with       *)
(* wait_for (tools/page/wait.py).                                          *)
(*                                                                         *)
(* The page commits documents, changes its URL within one, loads and opens *)
(* dialogs whenever it likes; each is an event on every connection to the  *)
(* tab and, for navigations, an entry of the Tier-0 telemetry.  In a run   *)
(* the tools share a connection, whose queue keeps what nobody asked for;  *)
(* otherwise each tool opens its own and hears only what comes after.      *)
(***************************************************************************)
EXTENDS Naturals, Sequences, FiniteSets

CONSTANTS
  MaxNavigations,   \* bound: navigations of the page
  MaxNoise,         \* bound: dialogs and commits of other frames
  MaxWaits          \* bound: tools called one after the other

ASSUME WaitAssumption == {MaxNavigations, MaxNoise, MaxWaits} \subseteq Nat

PageEvent == {"commit", "frame", "spa", "load", "dialog"}
\* Page.frameNavigated tells of the top frame and of others.
FrameNavigated == {"commit", "frame"}
Navigation == {"commit", "spa"}

VARIABLES
  shared,     \* the tools share a connection
  doc, url,   \* the document of the top frame and its URL
  loaded,     \* its load event was fired
  navs,       \* navigations of the page so far (commits and changes of URL)
  noise,      \* dialogs and commits of other frames so far
  coming,     \* events on their way to the connection
  queue,      \* events it has read and nobody has taken
  told,       \* navigations the telemetry was told of
  recent,     \* the telemetry has one of the last ten seconds
  job,        \* the tool at work: "none", "click" or "navigate"
  phase,      \* where it is
  base,       \* what it compares with: URL and document read at first
  waits,      \* tools called so far
  changed,    \* page_changed of the last tool: "none", "yes", "no" or "dialog"
  before,     \* the URL could be read before the tool acted
  silent,     \* this round waited for a commit and none came
  since,      \* history: navs when the tool acted on the page
  stale,      \* history: signs of an earlier navigation were still around then
  polled      \* history: navs at the last poll of the tool

pageVars == <<doc, url, loaded, navs, noise>>
callVars == <<before, job, waits, since, stale>>
jobVars == <<callVars, phase, base, changed, silent, polled>>
telemetryVars == <<told, recent>>
waitVars == <<shared, pageVars, coming, queue, telemetryVars, jobVars>>

NoBase == [url |-> 0, doc |-> 0]

WaitInit ==
  /\ shared \in BOOLEAN
  /\ doc = 1 /\ url = 1 /\ loaded = TRUE /\ navs = 0 /\ noise = 0
  /\ coming = <<>> /\ queue = <<>> /\ told = 0 /\ recent = FALSE
  /\ before = FALSE /\ job = "none" /\ phase = "idle" /\ base = NoBase
  /\ waits = 0 /\ changed = "none" /\ silent = FALSE /\ since = 0 /\ stale = FALSE /\ polled = 0

-----------------------------------------------------------------------------
(* The page                                                                *)

\* A connection that is not shared is opened by wait_for.
Emit(event) ==
  coming' = IF shared \/ phase \notin {"idle", "acted"} THEN Append(coming, event) ELSE coming

\* A commit may keep the URL (a reload).
Commit ==
  /\ navs < MaxNavigations /\ navs' = navs + 1
  /\ doc' = doc + 1 /\ url' \in {url, navs + 2} /\ loaded' = FALSE
  /\ Emit("commit")
  /\ UNCHANGED <<shared, noise, queue, telemetryVars, jobVars>>

ChangeUrl ==
  /\ navs < MaxNavigations /\ navs' = navs + 1
  /\ url' = navs + 2
  /\ Emit("spa")
  /\ UNCHANGED <<shared, doc, loaded, noise, queue, telemetryVars, jobVars>>

Load ==
  /\ ~loaded /\ loaded' = TRUE
  /\ Emit("load")
  /\ UNCHANGED <<shared, doc, url, navs, noise, queue, telemetryVars, jobVars>>

\* Another frame navigates, or a dialog opens.
Noise ==
  /\ noise < MaxNoise /\ noise' = noise + 1
  /\ \E event \in {"frame", "dialog"} : Emit(event)
  /\ UNCHANGED <<shared, doc, url, loaded, navs, queue, telemetryVars, jobVars>>

\* The bus of the tab tells the telemetry of a navigation, in its own time.
TelemetryHears ==
  /\ told < navs /\ told' = told + 1 /\ recent' = TRUE
  /\ UNCHANGED <<shared, pageVars, coming, queue, jobVars>>

\* Ten seconds later it is no longer recent.
Age ==
  /\ recent /\ recent' = FALSE
  /\ UNCHANGED <<told, shared, pageVars, coming, queue, jobVars>>

-----------------------------------------------------------------------------
(* The connection                                                          *)

Has(q, kinds) == \E i \in DOMAIN q : q[i] \in kinds
First(q, kinds) == CHOOSE i \in DOMAIN q : q[i] \in kinds /\ ~Has(SubSeq(q, 1, i - 1), kinds)

\* pop_event: the oldest one queued.
Popped(q, kinds) ==
  LET i == First(q, kinds) IN SubSeq(q, 1, i - 1) \o SubSeq(q, i + 1, Len(q))

\* wait_for_event: the oldest one queued, or the next one to come; what comes
\* before it is queued.
Awaited(kinds) ==
  IF Has(queue, kinds) THEN queue[First(queue, kinds)]
  ELSE IF Has(coming, kinds) THEN coming[First(coming, kinds)] ELSE "none"
AwaitEvent(kinds) ==
  LET i == First(coming, kinds)
  IN IF Has(queue, kinds) THEN queue' = Popped(queue, kinds) /\ UNCHANGED coming
     ELSE IF Has(coming, kinds)
     THEN queue' = queue \o SubSeq(coming, 1, i - 1) /\ coming' = SubSeq(coming, i + 1, Len(coming))
     ELSE queue' = queue \o coming /\ coming' = <<>>

-----------------------------------------------------------------------------
(* The tools                                                               *)

\* The tool reads the URL, or cannot, and acts on the page: navigations from here
\* on are its doing.
Act(j) ==
  /\ phase = "idle" /\ waits < MaxWaits
  /\ job' = j /\ phase' = "acted" /\ waits' = waits + 1 /\ changed' = "none" /\ silent' = FALSE
  /\ before' \in BOOLEAN
  /\ base' = [url |-> IF j = "navigate" /\ before' THEN url ELSE 0, doc |-> 0]
  /\ since' = navs /\ polled' = navs
  /\ stale' = (recent \/ told < navs \/ Has(queue \o coming, Navigation))
  /\ UNCHANGED <<shared, pageVars, coming, queue, telemetryVars>>

\* A tool ends, and what it compared with is gone.
Ends(result) ==
  /\ changed' = result /\ phase' = "idle" /\ base' = NoBase /\ silent' = FALSE
  /\ UNCHANGED <<shared, pageVars, telemetryVars, callVars, polled>>

\* Its connection, unless it is shared, goes with all its events.
Leave(q, c) == queue' = (IF shared THEN q ELSE <<>>) /\ coming' = (IF shared THEN c ELSE <<>>)

Goes(next) ==
  /\ phase' = next
  /\ UNCHANGED <<shared, pageVars, telemetryVars, callVars, base, changed, silent, polled>>

Found ==
  /\ changed' = "yes" /\ phase' = "load"
  /\ UNCHANGED <<shared, pageVars, telemetryVars, callVars, base, silent, polled>>

NoneFound ==
  /\ changed' = "no" /\ phase' = "load"
  /\ UNCHANGED <<shared, pageVars, telemetryVars, callVars, base, silent, polled>>

\* Without the URL from before it does not wait and reports no change.
DoesNotWait ==
  /\ phase = "acted" /\ ~before
  /\ IF job = "click" THEN Ends("no") ELSE NoneFound
  /\ UNCHANGED <<coming, queue>>

\* wait_for opens its session and reads the URL and then the document it will
\* compare with.
ReadUrl ==
  /\ phase = "acted" /\ before /\ job = "click"
  /\ base' = [base EXCEPT !.url = url] /\ phase' = "base"
  /\ UNCHANGED <<shared, pageVars, coming, queue, telemetryVars, callVars, changed, silent, polled>>

ReadDoc ==
  /\ phase = "base"
  /\ base' = [base EXCEPT !.doc = doc] /\ phase' = "round" /\ polled' = navs
  /\ UNCHANGED <<shared, pageVars, coming, queue, telemetryVars, callVars, changed, silent>>

\* A round of the loop of wait_for(navigation): a dialog that opened ends it,
FoundDialog ==
  /\ phase = "round" /\ Has(queue, {"dialog"})
  /\ Leave(Popped(queue, {"dialog"}), coming) /\ Ends("dialog")

\* the telemetry may know,
AskTelemetry ==
  /\ phase = "round" /\ ~Has(queue, {"dialog"})
  /\ IF recent THEN Found ELSE Goes("commits")
  /\ UNCHANGED <<queue, coming>>

\* Mutant: the event of any frame will do.
AnyFrame(event) == event # "none"

OfTopFrame(event) == event = "commit"

\* or an event of the top frame,
AskCommits ==
  /\ phase = "commits"
  /\ AwaitEvent(FrameNavigated)
  /\ silent' = (Awaited(FrameNavigated) = "none")
  /\ IF OfTopFrame(Awaited(FrameNavigated))
     THEN changed' = "yes" /\ phase' = "load" ELSE UNCHANGED changed /\ phase' = "spa"
  /\ UNCHANGED <<shared, pageVars, telemetryVars, callVars, base, polled>>

\* or of a change of its URL,
AskSpa ==
  /\ phase = "spa"
  /\ IF Has(queue, {"spa"}) THEN queue' = Popped(queue, {"spa"}) /\ Found
     ELSE UNCHANGED queue /\ Goes("poll")
  /\ UNCHANGED coming

\* Mutant: only the URL is compared.
UrlDiffers == url # base.url

FrameDiffers == doc # base.doc \/ url # base.url

\* or a look at the frame itself.  The deadline is checked between two rounds; a
\* wait has more rounds (four seconds, each at most 0.35 if nothing comes) than
\* other frames navigate meanwhile, so that its last one is silent.
Poll ==
  /\ phase = "poll"
  /\ IF FrameDiffers
     THEN Found /\ UNCHANGED <<queue, coming>>
     ELSE /\ polled' = navs
          /\ UNCHANGED <<shared, pageVars, telemetryVars, callVars>>
          /\ \/ phase' = "round" /\ UNCHANGED <<changed, base, silent, queue, coming>>
             \/ /\ silent /\ Leave(queue, coming)
                /\ phase' = "idle" /\ changed' = "no" /\ base' = NoBase /\ silent' = FALSE

\* navigate() polls the URL only.
PollUrl ==
  /\ phase = "acted" /\ before /\ job = "navigate"
  /\ \/ url # base.url /\ Found
     \/ url = base.url /\ NoneFound
  /\ UNCHANGED <<queue, coming>>

\* A round of wait_for(load), whose result the tools do not report as a change:
\* the event, a dialog, or neither in time.
LoadRound ==
  /\ phase = "load"
  /\ LET q == queue \o coming
     IN IF Has(q, {"load"})
        THEN /\ IF shared THEN AwaitEvent({"load"}) ELSE Leave(<<>>, <<>>)
             /\ Ends(changed)
        ELSE IF Has(q, {"dialog"})
        THEN Leave(Popped(q, {"dialog"}), <<>>) /\ Ends(changed)
        ELSE \/ Leave(q, <<>>) /\ Ends(changed)
             \/ queue' = q /\ coming' = <<>> /\ Goes("load")

ToolStep ==
  \/ DoesNotWait \/ ReadUrl \/ ReadDoc \/ FoundDialog \/ AskTelemetry \/ AskCommits \/ AskSpa
  \/ Poll \/ PollUrl \/ LoadRound

WaitNext ==
  \/ Commit \/ ChangeUrl \/ Load \/ Noise \/ TelemetryHears \/ Age
  \/ (\E j \in {"click", "navigate"} : Act(j)) \/ ToolStep

WaitSpec == WaitInit /\ [][WaitNext]_waitVars

-----------------------------------------------------------------------------
WaitTypeOK ==
  /\ {shared, loaded, stale, silent, before, recent} \subseteq BOOLEAN
  /\ doc \in Nat /\ url \in Nat /\ navs \in 0..MaxNavigations /\ noise \in 0..MaxNoise
  /\ coming \in Seq(PageEvent) /\ queue \in Seq(PageEvent)
  /\ told \in 0..MaxNavigations
  /\ job \in {"none", "click", "navigate"}
  /\ phase \in {"idle", "acted", "base", "round", "commits", "spa", "poll", "load"}
  /\ base \in [url : Nat, doc : Nat]
  /\ waits \in 0..MaxWaits /\ changed \in {"none", "yes", "no", "dialog"}
  /\ since \in 0..MaxNavigations /\ polled \in 0..MaxNavigations

\* In a run, a click that knew the URL before and reports no change is right: from
\* the click to the last poll the page has not navigated, however the navigation,
\* the reads of the tool and the events came to lie.
NavigationNotMissed ==
  shared /\ before /\ job = "click" /\ phase = "idle" /\ changed = "no" => polled = since

\* A tool that reports that the page changed is right, unless signs of an earlier
\* navigation were still around when it began.  Other frames do not count.
ChangedUnlessStale == changed = "yes" /\ ~stale => navs > since
=============================================================================
