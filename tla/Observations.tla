---------------------------- MODULE Observations ----------------------------
(***************************************************************************)
(* What the server remembers of the pages it has looked at: the            *)
(* affordances that act(ref) and act(label) of a run resolve, and the      *)
(* navigation graph (session_manager.py, tools/page, flow/handler.py).     *)
(*                                                                         *)
(* An observation is several requests to a page that may move on between   *)
(* any two of them: to another document, or to one with the same address.  *)
(* One tab.  Of a graph's node the time it was last seen is kept, of an    *)
(* edge that of its last use; titles, counts and labels of edges are left  *)
(* out, and two observations are never in the same millisecond.            *)
(***************************************************************************)
EXTENDS Naturals, FiniteSets, TLC, Functions

CONSTANTS
  Docs,      \* documents
  Address,   \* document -> its URL
  Shows,     \* document -> refs of the actions it offers: hashes, ordered like numbers
  LinksTo,   \* document -> the URLs its links lead to
  LabelOf,   \* ref -> its label
  MaxNodes, MaxEdges,         \* max_nodes and max_edges of the graph
  MaxLooks, MaxMoves, MaxActs \* bounds: observations, moves of the page, act steps

Urls == {Address[d] : d \in Docs} \cup UNION {LinksTo[d] : d \in Docs}
Refs == UNION {Shows[d] : d \in Docs}
NoUrl == 0

ASSUME ObservationsAssumption ==
  /\ Urls \subseteq Nat \ {0} /\ Refs \subseteq Nat \ {0} /\ IsFiniteSet(Refs)
  /\ IsFiniteSet(Urls)
  /\ Docs = DOMAIN Address /\ Docs = DOMAIN Shows /\ Docs = DOMAIN LinksTo
  /\ Refs \subseteq DOMAIN LabelOf
  /\ MaxNodes \in Nat \ {0} /\ {MaxEdges, MaxLooks, MaxMoves, MaxActs} \subseteq Nat

VARIABLES
  shownDoc,        \* the document in the tab
  autoAff,    \* auto_affordances
  inRun, toldUrl, \* a run is on; tab_url of its session: the URL last navigated to, or NoUrl
  stored,     \* the affordances: refs, the URL they are said to be of, and the document they
              \* were found in (which the code does not know)
  look,       \* the observation: its kind, or "none", where it is, the URL it is of, and what
              \* it has found in which document
  act,        \* the act step: its mode, or "none", its ref or label, where it is, whether its
              \* ref was found stale, and what it resolved to
  nodes, edges, current, \* the graph: when each URL in it was seen last, when each edge in it
              \* was used last, and the URL it is at
  looks, moves, acts,
  \* history
  still,      \* the page has not moved since the act step began
  urlUnread,      \* the act step could not read the tab's URL
  crowded     \* an observation had more URLs than there is room for

runVars == <<autoAff, inRun, toldUrl>>
graphVars == <<nodes, edges, current, crowded>>
observationVars ==
  <<shownDoc, runVars, stored, look, act, graphVars, looks, moves, acts, still, urlUnread>>

NoLook == [kind |-> "none", at |-> "done", url |-> NoUrl, refs |-> {}, links |-> {}, of |-> NoUrl]
NoAct == [mode |-> "none", target |-> 0, at |-> "done", stale |-> FALSE, ref |-> 0]
EdgeIds == Urls \X Urls \X {"nav", "link"}

ObservationInit ==
  /\ shownDoc \in Docs /\ autoAff \in BOOLEAN /\ inRun = FALSE /\ toldUrl = NoUrl
  /\ stored = [refs |-> {}, url |-> NoUrl, of |-> shownDoc]
  /\ look = NoLook /\ act = NoAct
  /\ nodes = << >> /\ edges = << >> /\ current = NoUrl
  /\ looks = 0 /\ moves = 0 /\ acts = 0
  /\ still = TRUE /\ urlUnread = FALSE /\ crowded = FALSE

NothingOn == look.kind = "none" /\ act.mode = "none"
SomeUrl == {Address[shownDoc], NoUrl}

-----------------------------------------------------------------------------
(* The page and the run                                                    *)

\* A click leads on, the page redirects itself, the user goes somewhere.
PageMoves(d) ==
  /\ d # shownDoc /\ moves < MaxMoves /\ moves' = moves + 1
  /\ shownDoc' = d /\ still' = FALSE
  /\ UNCHANGED <<runVars, stored, look, act, graphVars, looks, acts, urlUnread>>

\* A run begins, or ends.
RunTurns ==
  /\ NothingOn /\ inRun' = ~inRun /\ toldUrl' = NoUrl
  /\ UNCHANGED <<shownDoc, autoAff, stored, look, act, graphVars, looks, moves, acts, still,
                 urlUnread>>

\* navigate, to a URL that may be another document's in the end.  Only the session of a run
\* outlives the call, and remembers the URL it was asked for.
NavigateTo(url, d) ==
  /\ NothingOn /\ moves < MaxMoves /\ moves' = moves + 1
  /\ shownDoc' = d /\ toldUrl' = IF inRun THEN url ELSE NoUrl
  /\ UNCHANGED <<autoAff, inRun, stored, look, act, graphVars, looks, acts, still, urlUnread>>

-----------------------------------------------------------------------------
(* The graph                                                               *)

\* The n that were seen last; among those seen at once the ids, which are hashes, decide.
LastSeen(times, n) ==
  LET seen == DOMAIN times
  IN {S \in SUBSET seen :
        /\ Cardinality(S) = n \/ (S = seen /\ Cardinality(S) < n)
        /\ \A x \in S, y \in seen \ S : times[x] >= times[y]}

\* Mutant: an edge stays with one of its nodes.
EdgesTouching(ns) == {e \in EdgeIds : e[1] \in ns \/ e[2] \in ns}

\* The edges that may stay when the nodes are cut down to ns.
EdgesWithin(ns) == {e \in EdgeIds : e[1] \in ns /\ e[2] \in ns}

\* The times of what was seen before, and now of what is in S.
Stamped(times, S, now) == [x \in S \cup DOMAIN times |-> IF x \in S THEN now ELSE times[x]]

\* note_nav_graph_observation: of a page at url, with links.
NoteGraph(url, links, now) ==
  LET seen == Stamped(nodes, links \cup {url}, now)
      used == Stamped(edges,
                      {<<url, to, "link">> : to \in links}
                        \cup {<<from, url, "nav">> : from \in {current} \ {NoUrl, url}}, now)
      over == Cardinality(DOMAIN seen) > MaxNodes
  IN /\ \E ns \in LastSeen(seen, MaxNodes) :
          /\ nodes' = Restrict(seen, ns)
          /\ LET left == IF over THEN Restrict(used, DOMAIN used \cap EdgesWithin(ns)) ELSE used
             IN \E es \in LastSeen(left, MaxEdges) : edges' = Restrict(left, es)
     /\ current' = url
     /\ crowded' = (crowded \/ Cardinality(links \cup {url}) > MaxNodes)

-----------------------------------------------------------------------------
(* Observations                                                            *)

\* page(detail="map"), "triage" or "locators": the first two read the page's URL first.
BeginLook(kind) ==
  /\ NothingOn /\ looks < MaxLooks /\ looks' = looks + 1
  /\ \E url \in IF kind = "locators" THEN {NoUrl} ELSE SomeUrl :
       look' = [NoLook EXCEPT !.kind = kind, !.at = "collect", !.url = url]
  /\ UNCHANGED <<shownDoc, runVars, stored, act, graphVars, moves, acts, still, urlUnread>>

\* The locators; none with a dialog open, or when scripts fail.
Collect ==
  /\ look.kind # "none" /\ look.at = "collect"
  /\ \E refs \in {Shows[shownDoc], {}} :
       look' = [look EXCEPT !.refs = refs, !.of = shownDoc,
                            !.links = IF refs = {} THEN {} ELSE LinksTo[shownDoc],
                            !.at = IF refs = {} THEN "note" ELSE "store"]
  /\ UNCHANGED <<shownDoc, runVars, stored, act, graphVars, looks, moves, acts, still, urlUnread>>

\* set_affordances, under the URL that the tab has now.
Store ==
  /\ look.at = "store"
  /\ \E url \in SomeUrl : stored' = [refs |-> look.refs, url |-> url, of |-> look.of]
  /\ look' = [look EXCEPT !.at = "note"]
  /\ UNCHANGED <<shownDoc, runVars, act, graphVars, looks, moves, acts, still, urlUnread>>

\* Of links only a map tells the graph.
EndLook ==
  /\ look.kind # "none" /\ look.at = "note" /\ look' = NoLook
  /\ IF look.url = NoUrl THEN UNCHANGED graphVars
     ELSE NoteGraph(look.url, IF look.kind = "map" THEN look.links ELSE {}, looks)
  /\ UNCHANGED <<shownDoc, runVars, stored, act, looks, moves, acts, still, urlUnread>>

\* page(detail="graph"): an empty graph begins with the page in the tab.
SeedGraph ==
  /\ NothingOn /\ looks < MaxLooks /\ looks' = looks + 1
  /\ IF current = NoUrl THEN NoteGraph(Address[shownDoc], {}, looks') ELSE UNCHANGED graphVars
  /\ UNCHANGED <<shownDoc, runVars, stored, look, act, moves, acts, still, urlUnread>>

-----------------------------------------------------------------------------
(* An act step of a run                                                    *)

Named(label) == {r \in stored.refs : LabelOf[r] = label}

\* resolve_affordance and resolve_affordance_by_label: a label must be that of one ref only,
\* unless an index is given (here the first).
Resolved(mode, target) ==
  CASE mode = "ref"   -> stored.refs \cap {target}
    [] mode = "label" -> {r \in Named(target) : Named(target) = {r}}
    [] mode = "first" -> {r \in Named(target) : \A q \in Named(target) : r <= q}

\* Mutant: the URL is not compared.
NeverStale(url) == FALSE

\* What is known is of another page than the one in the tab.
Stale(url) == autoAff /\ stored.url # NoUrl /\ url # NoUrl /\ url # stored.url

\* _current_tab_url: what the run's session was told, or what the page says.
CurrentUrl == IF toldUrl # NoUrl THEN {toldUrl} ELSE SomeUrl

ActTargets(mode) == IF mode = "ref" THEN Refs ELSE {LabelOf[r] : r \in Refs}

BeginAct(mode, target) ==
  /\ inRun /\ NothingOn /\ acts < MaxActs /\ acts' = acts + 1
  /\ \E url \in CurrentUrl :
       LET found == IF Stale(url) THEN {} ELSE Resolved(mode, target)
           step == [NoAct EXCEPT !.mode = mode, !.target = target, !.at = "refresh",
                                 !.stale = Stale(url)]
       IN /\ urlUnread' = (url = NoUrl)
          /\ act' \in IF found = {} THEN {step}
                      ELSE {[step EXCEPT !.at = "dispatch", !.ref = r] : r \in found}
  /\ still' = TRUE
  /\ UNCHANGED <<shownDoc, runVars, stored, look, graphVars, looks, moves>>

\* The locators are read again, unless a dialog is open or that fails.
Refresh ==
  /\ act.mode # "none" /\ act.at = "refresh"
  /\ \/ /\ look' = [NoLook EXCEPT !.kind = "locators", !.at = "collect"]
        /\ act' = [act EXCEPT !.at = "retry"]
     \/ look' = look /\ act' = NoAct
  /\ UNCHANGED <<shownDoc, runVars, stored, graphVars, looks, moves, acts, still, urlUnread>>

\* A ref that was found stale is not looked up again, a label is.
Retry ==
  /\ act.at = "retry" /\ look.kind = "none"
  /\ LET found == IF act.mode = "ref" /\ act.stale THEN {} ELSE Resolved(act.mode, act.target)
     IN act' \in IF found = {} THEN {NoAct}
                 ELSE {[act EXCEPT !.at = "dispatch", !.ref = r] : r \in found}
  /\ UNCHANGED <<shownDoc, runVars, stored, look, graphVars, looks, moves, acts, still,
                 urlUnread>>

\* The tool runs, and may lead to another page.
DispatchAct ==
  /\ act.mode # "none" /\ act.at = "dispatch" /\ act' = NoAct
  /\ \/ shownDoc' = shownDoc /\ moves' = moves
     \/ shownDoc' \in Docs /\ moves < MaxMoves /\ moves' = moves + 1
  /\ UNCHANGED <<runVars, stored, look, graphVars, looks, acts, still, urlUnread>>

ObservationNext ==
  \/ \E d \in Docs : PageMoves(d) \/ \E url \in Urls : NavigateTo(url, d)
  \/ RunTurns
  \/ \E kind \in {"map", "triage", "locators"} : BeginLook(kind)
  \/ Collect \/ Store \/ EndLook \/ SeedGraph
  \/ \E mode \in {"ref", "label", "first"} : \E target \in ActTargets(mode) : BeginAct(mode, target)
  \/ Refresh \/ Retry \/ DispatchAct

ObservationSpec == ObservationInit /\ [][ObservationNext]_observationVars

-----------------------------------------------------------------------------
ObservationTypeOK ==
  /\ shownDoc \in Docs /\ {autoAff, inRun, crowded, still, urlUnread} \subseteq BOOLEAN
  /\ toldUrl \in Urls \cup {NoUrl}
  /\ stored \in [refs : SUBSET Refs, url : Urls \cup {NoUrl}, of : Docs]
  /\ look.kind \in {"none", "map", "triage", "locators"}
  /\ look.at \in {"done", "collect", "store", "note"} /\ look.refs \subseteq Refs
  /\ act.mode \in {"none", "ref", "label", "first"}
  /\ act.at \in {"done", "refresh", "retry", "dispatch"} /\ act.ref \in Refs \cup {0}
  /\ DOMAIN nodes \subseteq Urls /\ DOMAIN edges \subseteq EdgeIds
  /\ current \in Urls \cup {NoUrl}
  /\ looks \in 0..MaxLooks /\ moves \in 0..MaxMoves /\ acts \in 0..MaxActs

\* Whoever follows the graph finds the page it is at, and both ends of each edge, whatever
\* has been cut from it; only an observation of more URLs than the graph holds may cost it
\* the page itself (session_manager.py:1085, 1116).
GraphIsClosed ==
  crowded \/ /\ current # NoUrl => current \in DOMAIN nodes
             /\ \A e \in DOMAIN edges : {e[1], e[2]} \subseteq DOMAIN nodes

\* The tool of an act step is called with an action that the page in the tab offers.
ActIsShown == act.mode # "none" /\ act.at = "dispatch" => act.ref \in Shows[shownDoc]

\* The page stood still, its URL could be read, what is known was stored under the URL it was
\* found at, a changed page has a changed URL, and where a change was noticed something has
\* been found anew: a page with nothing to act on leaves the actions of the last one stored.
Orderly ==
  /\ autoAff /\ still /\ ~urlUnread
  /\ act.stale => stored.of = shownDoc
  /\ stored.url = Address[stored.of]
  /\ shownDoc # stored.of => Address[shownDoc] # Address[stored.of]

\* Before it acts, a run notices that the tab shows another page than the one in which the
\* action was found, and looks again; unless its session has been told a URL that the tab
\* is no longer at.
ActsOnWhatIsShown == Orderly /\ toldUrl \in {NoUrl, Address[shownDoc]} => ActIsShown

\* "Keep auto_affordances=true (default) to make act(ref/label) resilient across navigation"
\* (docs/AGENT_PLAYBOOK.md:64).
ActsAcrossNavigation == Orderly => ActIsShown
=============================================================================
