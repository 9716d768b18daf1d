----------------------------- MODULE TabSession -----------------------------
(***************************************************************************)
(* The session manager's tab and its connections (session_manager.py,      *)
(* tools/base.py, tools/tabs.py, handle_tabs and the recover action).      *)
(*                                                                         *)
(* The server keeps one session tab.  A tool either opens a connection of  *)
(* its own to that tab or, inside shared_session (a run, an audit), uses   *)
(* the connection that was opened when the outermost block was entered.    *)
(* Every tab a tool worked on directly gets a background event bus.  Calls *)
(* are served one at a time; tabs come and go between any two of their     *)
(* steps, and the browser's list of tabs can fail to load.                 *)
(***************************************************************************)
EXTENDS Naturals, Sequences, FiniteSets

CONSTANTS Tabs,        \* tabs that may come to exist; an id is never used again
          MaxFrames    \* shared_session blocks inside one another

ASSUME TabAssumption == MaxFrames \in Nat \ {0}

NoTab == "none"
Modes == {"direct", "extension"}
TabOp == [op : {"switch", "new", "close", "reset"}, tab : Tabs \cup {NoTab}]
Op(o, t) == [op |-> o, tab |-> t]

VARIABLES
  mode,        \* how the browser is reached
  tabs,        \* the browser's tabs
  born,        \* tabs that have existed
  sessionTab,  \* _session_tab_id
  frames,      \* the shared_session blocks being executed: owner, line (connection)
  lines,       \* the tab of the connection the block at each depth opened, NoTab when closed
  sharedLine,  \* _shared_session, 0 when there is none
  refcount,    \* _shared_refcount
  buses,       \* tabs whose event bus runs (_tier0_buses)
  strayed,     \* history: tabs a bus may outlive the session on, see Stray
  plan,        \* steps the handler at work has still to take
  opening,     \* the get_session at work
  acted        \* the last tool worked on the "session" tab, or on an "other" one

tabVars == <<mode, tabs, born, sessionTab, frames, lines, sharedLine, refcount,
             buses, strayed, plan, opening, acted>>

NotOpening == [why |-> "none", tries |-> 0, tab |-> NoTab]

TabInit ==
  /\ mode \in Modes /\ tabs = {} /\ born = {}
  /\ sessionTab = NoTab /\ frames = <<>> /\ sharedLine = 0 /\ refcount = 0
  /\ lines = [d \in 1..MaxFrames |-> NoTab]
  /\ buses = {} /\ strayed = {} /\ plan = <<>> /\ opening = NotOpening
  /\ acted = "none"

\* Between two calls, or between two tools of a run.
Idle == plan = <<>> /\ opening = NotOpening
\* get_active_shared_session
SharedActive == sharedLine # 0 /\ refcount > 0

\* What the list of tabs (or tabs.get) says of t: a failed request reads as gone.
Seen(t) == IF t \in tabs THEN BOOLEAN ELSE {FALSE}
Unborn == Tabs \ born
Create(t) == t \in Unborn /\ tabs' = tabs \cup {t} /\ born' = born \cup {t}

\* History only: the buses left behind, with one of tab t among them.
Stray(t) == strayed' = (strayed \cup {t}) \cap buses'

-----------------------------------------------------------------------------
\* get_session

\* ensure_telemetry: the tab the tool works on gets its bus (not in extension mode).
EnsureBus(t) == buses' = IF mode = "direct" THEN buses \cup {t} ELSE buses

\* A tool works on tab t: through a connection of its own, or the shared one.
ActOn(t) ==
  /\ EnsureBus(t)
  /\ IF t = sessionTab THEN acted' = "session" /\ UNCHANGED strayed
                       ELSE acted' = "other" /\ Stray(t)

\* A tool within shared_session takes the shared connection (_create_session).
UseShared ==
  /\ Idle /\ SharedActive
  /\ ActOn(lines[sharedLine])
  /\ UNCHANGED <<mode, tabs, born, sessionTab, frames, lines, sharedLine, refcount,
                 plan, opening>>

\* A step of a run opens a tab: auto_tab compares the lists before and after and
\* switches when it sees one new tab.
AutoTab(t) ==
  /\ Idle /\ SharedActive
  /\ Create(t) /\ plan' = <<Op("switch", t)>>
  /\ ActOn(lines[sharedLine])
  /\ UNCHANGED <<mode, sessionTab, frames, lines, sharedLine, refcount, opening>>

\* Without it get_session begins, for a tool or for an outermost shared_session.
BeginSession(why) ==
  /\ Idle /\ ~SharedActive
  /\ why = "hold" => Len(frames) < MaxFrames
  /\ opening' = [why |-> why, tries |-> 1, tab |-> NoTab]
  /\ UNCHANGED <<mode, tabs, born, sessionTab, frames, lines, sharedLine, refcount,
                 buses, strayed, plan, acted>>

\* _ensure_session_tab: the session tab is still there.
KeepTab ==
  /\ opening.why # "none" /\ opening.tab = NoTab
  /\ sessionTab # NoTab /\ TRUE \in Seen(sessionTab)
  /\ opening' = [opening EXCEPT !.tab = sessionTab]
  /\ UNCHANGED <<mode, tabs, born, sessionTab, frames, lines, sharedLine, refcount,
                 buses, strayed, plan, acted>>

\* It is gone, or the list could not be read: the session forgets it, but not its
\* bus, and takes a new tab; with followActive the extension's focused tab is
\* adopted instead.
ReplaceTab(t) ==
  /\ opening.why # "none" /\ opening.tab = NoTab
  /\ sessionTab # NoTab => FALSE \in Seen(sessionTab)
  /\ Create(t) \/ (mode = "extension" /\ t \in tabs /\ UNCHANGED <<tabs, born>>)
  /\ sessionTab' = t /\ opening' = [opening EXCEPT !.tab = t]
  /\ UNCHANGED buses /\ Stray(sessionTab)
  /\ UNCHANGED <<mode, frames, lines, sharedLine, refcount, plan, acted>>

\* get_session raises: no tab could be made, or it is gone when its WebSocket URL
\* is looked up for the second time, or the connection fails.  The first time the
\* URL is missing the tab is given up and made anew.
SessionFails ==
  /\ opening.why # "none" /\ (opening.tab = NoTab \/ mode = "direct")
  /\ IF opening.tab # NoTab /\ opening.tries = 1
     THEN \/ sessionTab' = NoTab /\ opening' = [opening EXCEPT !.tries = 2, !.tab = NoTab]
          \/ UNCHANGED sessionTab /\ opening' = NotOpening
     ELSE /\ sessionTab' = IF opening.tab = NoTab THEN NoTab ELSE sessionTab
          /\ opening' = NotOpening
  /\ opening.tab = NoTab /\ sessionTab # NoTab => FALSE \in Seen(sessionTab)
  /\ UNCHANGED buses /\ IF sessionTab' = NoTab THEN Stray(sessionTab) ELSE UNCHANGED strayed
  /\ UNCHANGED <<mode, tabs, born, frames, lines, sharedLine, refcount, plan, acted>>

\* get_session returns a connection: the tool works and closes it, or
\* shared_session keeps it and enters its block.
SessionOpens ==
  /\ opening.why # "none" /\ opening.tab # NoTab
  /\ mode = "direct" => opening.tab \in tabs
  /\ opening' = NotOpening
  /\ IF opening.why = "tool"
     THEN ActOn(opening.tab) /\ UNCHANGED <<frames, lines, sharedLine, refcount>>
     ELSE LET d == Len(frames) + 1
          IN  /\ frames' = Append(frames, [owner |-> TRUE, line |-> d])
              /\ lines' = [lines EXCEPT ![d] = opening.tab]
              /\ sharedLine' = d /\ refcount' = 1
              /\ UNCHANGED <<buses, strayed, acted>>
  /\ UNCHANGED <<mode, tabs, born, sessionTab, plan>>

-----------------------------------------------------------------------------
\* shared_session

\* Entered while another block is active: the connection is counted once more.
Nest ==
  /\ Idle /\ SharedActive /\ Len(frames) < MaxFrames
  /\ frames' = Append(frames, [owner |-> FALSE, line |-> sharedLine])
  /\ refcount' = refcount + 1
  /\ UNCHANGED <<mode, tabs, born, sessionTab, lines, sharedLine, buses, strayed,
                 plan, opening, acted>>

\* A block is left: at zero, and below it after a reset, its connection is closed.
Release ==
  /\ Idle /\ frames # <<>>
  /\ LET f == frames[Len(frames)]
     IN  IF refcount > 1
         THEN refcount' = refcount - 1 /\ UNCHANGED <<lines, sharedLine>>
         ELSE /\ refcount' = 0 /\ sharedLine' = 0
              /\ lines' = [lines EXCEPT ![f.line] = NoTab]
  /\ frames' = SubSeq(frames, 1, Len(frames) - 1)
  /\ UNCHANGED <<mode, tabs, born, sessionTab, buses, strayed, plan, opening, acted>>

-----------------------------------------------------------------------------
\* Tab calls

\* What a handler goes through, one step after the other: tabs(switch, new, close,
\* rescue), and the recovery of browser(recover) and of the dialog tool.
Plans ==
  {<<Op("switch", t)>> : t \in born} \cup {<<Op("close", t)>> : t \in born}
  \cup {<<Op("new", NoTab)>>, <<Op("new", NoTab), Op("close", sessionTab)>>,
        <<Op("reset", NoTab)>>, <<Op("reset", NoTab), Op("new", NoTab)>>,
        <<Op("reset", NoTab), Op("close", sessionTab), Op("new", NoTab)>>}
  \cup IF sessionTab = NoTab THEN {} ELSE {<<Op("close", sessionTab)>>}

HandleTabs ==
  /\ Idle /\ plan' \in Plans
  /\ UNCHANGED <<mode, tabs, born, sessionTab, frames, lines, sharedLine, refcount,
                 buses, strayed, opening, acted>>

Doing(o) == plan # <<>> /\ Head(plan).op = o

\* Mutant: the bus of the tab it leaves goes on.
MoveAlone(t) == sessionTab' = t /\ UNCHANGED <<buses, strayed>>

\* The session moves to t and the bus of the tab it leaves is stopped.
MoveTo(t) ==
  /\ sessionTab' = t
  /\ buses' = IF sessionTab # t THEN buses \ {sessionTab} ELSE buses
  /\ strayed' = strayed \cap buses'

\* switch_tab.  The activation that follows is best effort in extension mode; in
\* direct mode an error of its command ends the handler, with the session moved.
SwitchTab ==
  /\ Doing("switch")
  /\ \/ TRUE \in Seen(Head(plan).tab) /\ MoveTo(Head(plan).tab)
     \/ FALSE \in Seen(Head(plan).tab) /\ UNCHANGED <<sessionTab, buses, strayed>>
  /\ plan' = Tail(plan)
  /\ UNCHANGED <<mode, tabs, born, frames, lines, sharedLine, refcount, opening, acted>>

NewTab(t) ==
  /\ Doing("new") /\ Create(t) /\ MoveTo(t)
  /\ \/ plan' = Tail(plan)
     \/ mode = "direct" /\ plan' = <<>>      \* the activation fails
  /\ UNCHANGED <<mode, frames, lines, sharedLine, refcount, opening, acted>>

NewTabFails ==
  /\ Doing("new") /\ plan' = <<>>
  /\ UNCHANGED <<mode, tabs, born, sessionTab, frames, lines, sharedLine, refcount,
                 buses, strayed, opening, acted>>

\* close_tab: with the tab go its caches and its bus.  A tab that is gone already,
\* or a browser that does not answer, is an error that leaves them.
CloseTab ==
  /\ Doing("close")
  /\ LET t == Head(plan).tab
     IN  \/ /\ t \in tabs
            /\ tabs' = tabs \ {t} /\ buses' = buses \ {t}
            /\ sessionTab' = IF t = sessionTab THEN NoTab ELSE sessionTab
            /\ strayed' = strayed \cap buses'
         \/ UNCHANGED <<tabs, buses, strayed, sessionTab>>
  /\ plan' = Tail(plan)
  /\ UNCHANGED <<mode, born, frames, lines, sharedLine, refcount, opening, acted>>

\* Mutant: the count is kept.
DropLine ==
  /\ sharedLine' = 0 /\ UNCHANGED refcount
  /\ lines' = IF sharedLine = 0 THEN lines ELSE [lines EXCEPT ![sharedLine] = NoTab]

DropShared ==
  /\ sharedLine' = 0 /\ refcount' = 0
  /\ lines' = IF sharedLine = 0 THEN lines ELSE [lines EXCEPT ![sharedLine] = NoTab]

\* recover_reset: the shared connection and every bus are dropped, also inside the
\* blocks that hold them.
RecoverReset ==
  /\ Doing("reset") /\ plan' = Tail(plan)
  /\ sessionTab' = NoTab /\ DropShared
  /\ buses' = {} /\ strayed' = {}
  /\ UNCHANGED <<mode, tabs, born, frames, opening, acted>>

\* The user or a page opens and closes tabs.
TabOpens(t) ==
  /\ Create(t)
  /\ UNCHANGED <<mode, sessionTab, frames, lines, sharedLine, refcount, buses, strayed,
                 plan, opening, acted>>

TabGoes(t) ==
  /\ t \in tabs /\ tabs' = tabs \ {t}
  /\ UNCHANGED <<mode, born, sessionTab, frames, lines, sharedLine, refcount, buses,
                 strayed, plan, opening, acted>>

TabNext ==
  \/ UseShared \/ KeepTab \/ SessionFails \/ SessionOpens \/ Nest \/ Release
  \/ HandleTabs \/ SwitchTab \/ NewTabFails \/ CloseTab \/ RecoverReset
  \/ \E why \in {"tool", "hold"} : BeginSession(why)
  \/ \E t \in Tabs : AutoTab(t) \/ ReplaceTab(t) \/ NewTab(t) \/ TabOpens(t) \/ TabGoes(t)

TabSpec == TabInit /\ [][TabNext]_tabVars

-----------------------------------------------------------------------------
TabTypeOK ==
  /\ mode \in Modes /\ tabs \subseteq born /\ born \subseteq Tabs
  /\ sessionTab \in born \cup {NoTab}
  /\ frames \in Seq([owner : BOOLEAN, line : 1..MaxFrames]) /\ Len(frames) <= MaxFrames
  /\ lines \in [1..MaxFrames -> born \cup {NoTab}]
  /\ sharedLine \in 0..MaxFrames /\ refcount \in 0..MaxFrames
  /\ buses \subseteq born /\ strayed \subseteq born
  /\ plan \in Seq(TabOp) /\ Len(plan) <= 3
  /\ opening \in [why : {"none", "tool", "hold"}, tries : 0..2, tab : born \cup {NoTab}]
  /\ acted \in {"none", "session", "other"}

\* The shared connection is open exactly while blocks count on it, and the count
\* is that of the blocks entered since it was opened: a recovery inside nested
\* blocks neither leaks a connection nor lets an older block close a newer one
\* (shared_session, recover_reset).
SharedBalanced ==
  /\ {d \in DOMAIN lines : lines[d] # NoTab} = IF SharedActive THEN {sharedLine} ELSE {}
  /\ refcount > 0 =>
       /\ sharedLine \in DOMAIN frames /\ frames[sharedLine].owner
       /\ refcount = Len(frames) - sharedLine + 1

\* "Keep Tier-0 bus focused on the current session tab (avoid leaking threads)":
\* a bus runs for the session tab only, except those left behind where a lookup
\* gave the session tab up, or a tool worked on the tab of a shared connection
\* after the session had moved (switch_tab, new_tab, close_tab, recover_reset).
BusesFollowSession == buses \subseteq {sessionTab} \cup strayed

\* What a session opens it closes: its shared connection with the last block that counts
\* on it, its event bus when the session moves (session_manager.py).
NothingLeaks == SharedBalanced /\ BusesFollowSession

\* A tool works on the session's tab, "Auto-switch to a newly opened tab after
\* click-like actions" (docs/RUN_GUIDE.md:7).  In a run it does not: the shared
\* connection stays with the tab the run began on.
ActsOnSessionTab == acted # "other"
=============================================================================
