----------------------------- MODULE PageProofs -----------------------------
(* Proofs about what a server makes of a page: the files its runs download *)
(* (Downloads), the actions and addresses it remembers (Observations), the *)
(* navigations it waits for (PageWait), what it inserts (AppInsert), the   *)
(* resources it lists (ResourceTimings), the events it keeps (Telemetry)   *)
(* and the errors its script records (PageDiagnostics), for all values of  *)
(* the constants.  Then their types and bounds, and at the end that the    *)
(* composition MCPage does what its parts do.                              *)
EXTENDS MCPage, PageInputProofs, TabProofs,
        SequenceTheorems, FiniteSetTheorems, WellFoundedInduction, TLAPS

-----------------------------------------------------------------------------
(* Downloads.                                                              *)

CapturesTyped ==
  /\ disk \in [Files -> {"none", "temp", "done"}] /\ step \in Nat
  /\ progress \in {"between", "plan", "wait", "polled", "end"}
  /\ candidate \subseteq Files /\ (\A f, g \in candidate : f = g) /\ old \subseteq Files
  /\ \A c \in captured : c.file \in Files /\ c.step \in Nat

\* What is complete stays so.
OldAreComplete == \A f \in old \cup {c.file : c \in captured} : disk[f] = "done"

\* While a step is on, what was captured was captured by earlier steps, and is old.
CapturedAreOld ==
  \A c \in captured :
    /\ c.step <= step
    /\ progress # "between" => c.step < step /\ c.file \in old

\* The baseline has the old files, and so they are no candidates.
DirEntry(f) == [name |-> f.name, temp |-> FALSE]
OldAreKnown ==
  /\ progress = "plan" /\ baseline # {} => \A f \in old : f.dir = "tab" => DirEntry(f) \in baseline
  /\ progress \in {"wait", "polled"} => \A f \in old : DirEntry(f) \in known[f.dir]
  /\ progress = "polled" => candidate \cap old = {}

DownloadInv ==
  CapturesTyped /\ OldAreComplete /\ CapturedAreOld /\ OldAreKnown /\ CapturedIsNew

LEMMA DownloadInitInv == DownloadInit => DownloadInv
BY DEF DownloadInit, DownloadInv, CapturesTyped, OldAreComplete, CapturedAreOld, OldAreKnown,
       CapturedIsNew

LEMMA ListedComplete ==
  ASSUME CapturesTyped, NEW f \in Files, disk[f] = "done"
  PROVE  f.dir \in Dirs /\ DirEntry(f) \in Listing(f.dir)
BY DEF CapturesTyped, Listing, DirEntry, Files

LEMMA FreshFacts ==
  ASSUME CapturesTyped, NEW d \in Dirs, NEW temp \in BOOLEAN, NEW f \in Fresh(d, temp)
  PROVE  /\ f \in Files /\ f.dir = d
         /\ temp => disk[f] = "temp"
         /\ ~temp => disk[f] = "done" /\ DirEntry(f) \notin known[d]
<1>1. f \in Files /\ f.dir = d /\ [name |-> f.name, temp |-> temp] \in Listing(d) \ known[d]
  BY DEF Fresh
<1>2. PICK g \in Files : /\ g.dir = d /\ disk[g] # "none"
                         /\ [name |-> f.name, temp |-> temp]
                              = [name |-> g.name, temp |-> disk[g] = "temp"]
  BY <1>1 DEF Listing
<1>3. f.name = g.name /\ temp = (disk[g] = "temp")
  BY <1>2
<1>4. f = g
  BY <1>1, <1>2, <1>3 DEF Files
<1> QED BY <1>1, <1>2, <1>3, <1>4 DEF CapturesTyped, DirEntry

\* The browser's files.
LEMMA DiskInv ==
  ASSUME DownloadInv,
         UNCHANGED <<step, progress, baseline, known, candidate, old, captured>>,
         NEW f \in Files, disk[f] # "done", NEW to \in {"none", "temp", "done"},
         disk' = [disk EXCEPT ![f] = to]
  PROVE  DownloadInv'
BY DEF DownloadInv, CapturesTyped, OldAreComplete, CapturedAreOld, OldAreKnown, CapturedIsNew,
       DirEntry

\* The end of a step, in which f may have been captured.
LEMMA StepOverInv ==
  ASSUME DownloadInv, StepOver, UNCHANGED <<step, old>>, progress # "between",
         NEW files \in SUBSET Files, \A f \in files : f \notin old /\ disk'[f] = "done",
         disk' \in [Files -> {"none", "temp", "done"}],
         \A f \in Files : disk[f] = "done" => disk'[f] = "done",
         \A c \in captured' \ captured : c.step = step /\ c.file \in files,
         \A f, g \in files : f = g
  PROVE  DownloadInv'
<1> USE DEF DownloadInv
<1>1. CapturesTyped' /\ OldAreComplete'
  BY DEF CapturesTyped, OldAreComplete, StepOver
<1>2. CapturedAreOld' /\ OldAreKnown'
  BY DEF CapturesTyped, CapturedAreOld, OldAreKnown, StepOver
<1>3. CapturedIsNew'
  BY DEF CapturesTyped, CapturedAreOld, CapturedIsNew
<1> QED BY <1>1, <1>2, <1>3

LEMMA PlanInv ==
  ASSUME DownloadInv, NEW t, PlanDownload(t)
  PROVE  DownloadInv'
<1> USE DEF DownloadInv
<1>1. /\ step' = step + 1 /\ old' = Complete /\ progress' = "plan"
      /\ UNCHANGED <<disk, captured, candidate>> /\ baseline' \in {Listing("tab"), {}}
  BY DEF PlanDownload, waitingVars
<1>2. CapturesTyped' /\ OldAreComplete' /\ CapturedAreOld' /\ CapturedIsNew'
  BY <1>1 DEF CapturesTyped, OldAreComplete, CapturedAreOld, CapturedIsNew, Complete
<1>3. OldAreKnown'
  <2>1. \A f \in Complete : DirEntry(f) \in Listing(f.dir)
    BY ListedComplete DEF Complete
  <2> QED BY <1>1, <2>1 DEF OldAreKnown, DirEntry
<1> QED BY <1>2, <1>3

LEMMA WaitInv ==
  ASSUME DownloadInv, WaitForDownload
  PROVE  DownloadInv'
<1> USE DEF DownloadInv
<1>1. /\ progress = "plan" /\ progress' = "wait" /\ candidate' = {}
      /\ known' = [d \in Dirs |-> IF d = "tab" THEN WaitBaseline ELSE Listing(d)]
      /\ UNCHANGED <<disk, step, baseline, old, captured>>
  BY DEF WaitForDownload
<1>2. CapturesTyped' /\ OldAreComplete' /\ CapturedAreOld' /\ CapturedIsNew'
  BY <1>1 DEF CapturesTyped, OldAreComplete, CapturedAreOld, CapturedIsNew
<1>3. ASSUME NEW f \in old PROVE DirEntry(f) \in known'[f.dir]
  <2>1. f.dir \in Dirs /\ DirEntry(f) \in Listing(f.dir)
    BY ListedComplete DEF CapturesTyped, OldAreComplete
  <2>2. f.dir = "tab" => DirEntry(f) \in WaitBaseline
    BY <1>1, <2>1 DEF OldAreKnown, WaitBaseline
  <2> QED BY <1>1, <2>1, <2>2
<1>4. OldAreKnown'
  BY <1>1, <1>3 DEF OldAreKnown, DirEntry
<1> QED BY <1>2, <1>4

LEMMA PollInv ==
  ASSUME DownloadInv, PollDirectories
  PROVE  DownloadInv'
<1> USE DEF DownloadInv
<1>1. /\ progress \in {"wait", "polled"} /\ progress' = "polled"
      /\ UNCHANGED <<disk, step, baseline, known, old, captured>>
      /\ candidate' \subseteq Picks("tab") \cup Picks("default")
      /\ \A f, g \in candidate' : f = g
  BY DEF PollDirectories, diskVars
<1>2. ASSUME NEW d \in Dirs, NEW f \in Picks(d) PROVE f \in Files /\ f \notin old
  <2>1. PICK temp \in BOOLEAN : f \in Fresh(d, temp)
    BY DEF Picks
  <2> QED BY <1>1, <2>1, FreshFacts DEF OldAreComplete, OldAreKnown
<1>3. candidate' \subseteq Files \ old
  BY <1>1, <1>2 DEF Dirs
<1> QED
  BY <1>1, <1>3
  DEF CapturesTyped, OldAreComplete, CapturedAreOld, OldAreKnown, CapturedIsNew, DirEntry

LEMMA DownloadNextInv ==
  ASSUME DownloadInv, [DownloadNext]_downloadVars
  PROVE  DownloadInv'
<1> USE DEF DownloadInv
<1>1. CASE \E f \in Files : DownloadStarts(f) \/ \E to \in {"done", "none"} : DownloadEnds(f, to)
  BY <1>1, DiskInv DEF DownloadStarts, DownloadEnds, waitingVars
<1>2. ASSUME NEW f \in Files, PollTrips(f) PROVE DownloadInv'
  <2>1. /\ disk' = [disk EXCEPT ![f] = "done"] /\ StepOver /\ UNCHANGED <<step, old, captured>>
        /\ progress # "between"
    BY <1>2 DEF PollTrips
  <2> QED BY <2>1, StepOverInv, {} \in SUBSET Files DEF CapturesTyped
<1>3. ASSUME NEW f \in Files, FetchInstead(f) PROVE DownloadInv'
  <2>1. /\ disk' = [disk EXCEPT ![f] = "done"] /\ StepOver /\ UNCHANGED <<step, old>>
        /\ progress # "between" /\ disk[f] = "none"
        /\ captured' = captured \cup {[step |-> step, file |-> f, stored |-> f]}
    BY <1>3 DEF FetchInstead
  <2>2. \A c \in captured' \ captured : c.step = step /\ c.file \in {f}
    BY <2>1
  <2>3. f \notin old /\ disk'[f] = "done" /\ {f} \in SUBSET Files
    BY <2>1 DEF OldAreComplete, CapturesTyped
  <2>4. /\ disk' \in [Files -> {"none", "temp", "done"}]
        /\ \A g \in Files : disk[g] = "done" => disk'[g] = "done"
    BY <2>1 DEF CapturesTyped
  <2> QED BY <2>1, <2>2, <2>3, <2>4, StepOverInv
<1>4. CASE ClickFails \/ NothingCaptured
  <2>1. /\ StepOver /\ UNCHANGED <<disk, step, old, captured>> /\ progress # "between"
    BY <1>4 DEF ClickFails, NothingCaptured, diskVars
  <2> QED BY <2>1, StepOverInv, {} \in SUBSET Files DEF CapturesTyped
<1>5. CASE Capture
  <2>1. /\ StepOver /\ UNCHANGED <<disk, step, old>> /\ progress = "polled"
        /\ captured' = captured
             \cup {[step |-> step, file |-> f, stored |-> Stored(f)] : f \in candidate}
    BY <1>5 DEF Capture, diskVars
  <2>2. \A f \in candidate : disk[f] = "done"
    BY <1>5 DEF Capture, CapturesTyped
  <2>3. candidate \in SUBSET Files /\ candidate \cap old = {}
    BY <2>1 DEF CapturesTyped, OldAreKnown
  <2>4. \A c \in captured' \ captured : c.step = step /\ c.file \in candidate
    BY <2>1
  <2> QED BY <2>1, <2>2, <2>3, <2>4, StepOverInv DEF CapturesTyped
<1>6. CASE TimedOut
  BY <1>6
  DEF TimedOut, diskVars, waitingVars, CapturesTyped, OldAreComplete, CapturedAreOld, OldAreKnown,
      CapturedIsNew, DirEntry
<1>7. CASE UNCHANGED downloadVars
  BY <1>7
  DEF downloadVars, diskVars, waitingVars, CapturesTyped, OldAreComplete, CapturedAreOld,
      OldAreKnown, CapturedIsNew, DirEntry
<1> QED
  BY <1>1, <1>2, <1>3, <1>4, <1>5, <1>6, <1>7, PlanInv, WaitInv, PollInv DEF DownloadNext

\* Whatever happens in the directories, and whichever listings fail: what a step of a run
\* reports as its download was not complete before the step began (flow/handler.py:1810,
\* tools/downloads.py:330), so no file is reported by two steps.
THEOREM CapturesCorrect == DownloadSpec => []CapturedIsNew
BY DownloadInitInv, DownloadNextInv, PTL DEF DownloadSpec, DownloadInv

-----------------------------------------------------------------------------
(* Acting on what is shown.                                                *)

\* Refs are known, and looked up, of the document they were found in.
RefsTyped ==
  /\ shownDoc \in Docs /\ stored.of \in Docs
  /\ DOMAIN look = {"kind", "at", "url", "refs", "links", "of"}
  /\ DOMAIN act = {"mode", "target", "at", "stale", "ref"}
  /\ act.mode = "none" => act.at = "done"
  /\ act.mode \in {"none", "ref", "label", "first"}
  /\ stored.refs \subseteq Shows[stored.of]
  /\ look.at = "store" => look.of \in Docs /\ look.refs \subseteq Shows[look.of]
  /\ look.kind = "none" => look.at = "done"

\* An act step resolves to what is known, and looks again in the document it began in.
ActsOnKnown ==
  act.mode # "none" =>
    /\ act.at = "dispatch" => act.ref \in stored.refs
    /\ act.at # "retry" => look.kind = "none"
    /\ still /\ look.at = "store" => look.of = shownDoc

\* One that was not stale began at the page in the tab, as far as its URL tells.
FreshIsShown ==
  act.mode # "none" /\ autoAff /\ still /\ ~urlUnread /\ ~act.stale
      /\ toldUrl \in {NoUrl, Address[shownDoc]}
    => stored.of = shownDoc \/ stored.url \in {NoUrl, Address[shownDoc]}

ActInv == RefsTyped /\ ActsOnKnown /\ FreshIsShown

LEMMA ActInitInv == ObservationInit => ActInv
BY DEF ObservationInit, ActInv, RefsTyped, ActsOnKnown, FreshIsShown, NoLook, NoAct

LEMMA ActNextInv ==
  ASSUME ActInv, [ObservationNext]_observationVars
  PROVE  ActInv'
<1> USE DEF ActInv, RefsTyped, ActsOnKnown, FreshIsShown
<1>1. ASSUME NEW d \in Docs, PageMoves(d) PROVE ActInv'
  BY <1>1 DEF PageMoves, runVars
<1>2. ASSUME NEW d \in Docs, NEW u \in Urls, NavigateTo(u, d) PROVE ActInv'
  BY <1>2 DEF NavigateTo, NothingOn
<1>3. CASE RunTurns
  BY <1>3 DEF RunTurns, NothingOn
<1>4. ASSUME NEW kind \in {"map", "triage", "locators"}, BeginLook(kind) PROVE ActInv'
  BY <1>4 DEF BeginLook, NothingOn, NoLook, runVars
<1>5. CASE Collect
  BY <1>5 DEF Collect, runVars
<1>6. CASE Store
  BY <1>6 DEF Store, runVars
<1>7. CASE EndLook
  BY <1>7 DEF EndLook, NoLook, runVars
<1>8. CASE SeedGraph
  BY <1>8 DEF SeedGraph, runVars
<1>9. ASSUME NEW m \in {"ref", "label", "first"}, NEW t \in ActTargets(m), BeginAct(m, t)
      PROVE  ActInv'
  <2> DEFINE begun(u) == [NoAct EXCEPT !.mode = m, !.target = t, !.at = "refresh",
                                        !.stale = Stale(u)]
  <2>1. PICK u \in CurrentUrl :
          /\ urlUnread' = (u = NoUrl)
          /\ \/ act' = begun(u)
             \/ ~Stale(u) /\ \E r \in Resolved(m, t) :
                  act' = [begun(u) EXCEPT !.at = "dispatch", !.ref = r]
    BY <1>9 DEF BeginAct
  <2>2. /\ look.kind = "none" /\ look.at = "done"
        /\ UNCHANGED <<shownDoc, autoAff, toldUrl, stored, look>>
    BY <1>9 DEF BeginAct, NothingOn, runVars
  <2>3. Resolved(m, t) \subseteq stored.refs
    BY DEF Resolved, Named
  <2>4. /\ DOMAIN act' = {"mode", "target", "at", "stale", "ref"}
        /\ act'.stale = Stale(u) /\ act'.at \in {"refresh", "dispatch"}
        /\ act'.mode = m
        /\ act'.at = "dispatch" => act'.ref \in stored.refs
    BY <2>1, <2>3 DEF NoAct
  <2>5. urlUnread' \/ ~autoAff \/ Stale(u)
          \/ toldUrl \notin {NoUrl, Address[shownDoc]} \/ stored.url \in {NoUrl, Address[shownDoc]}
    BY <2>1 DEF Stale, CurrentUrl, SomeUrl
  <2> QED BY <2>2, <2>4, <2>5
<1>10. CASE Refresh
  <2>1. UNCHANGED <<shownDoc, autoAff, toldUrl, stored, still, urlUnread>>
    BY <1>10 DEF Refresh, runVars
  <2>2. CASE look' = look /\ act' = NoAct
    BY <2>1, <2>2 DEF NoAct
  <2>3. CASE /\ look' = [NoLook EXCEPT !.kind = "locators", !.at = "collect"]
             /\ act' = [act EXCEPT !.at = "retry"]
    <3>1. /\ look'.kind = "locators" /\ look'.at = "collect"
          /\ DOMAIN look' = {"kind", "at", "url", "refs", "links", "of"}
      BY <2>3 DEF NoLook
    <3>2. /\ act'.at = "retry" /\ act'.mode = act.mode /\ act'.stale = act.stale
          /\ act.mode # "none" /\ DOMAIN act' = {"mode", "target", "at", "stale", "ref"}
      BY <1>10, <2>3 DEF Refresh
    <3> QED BY <2>1, <3>1, <3>2
  <2> QED BY <1>10, <2>2, <2>3 DEF Refresh
<1>11. CASE Retry
  <2>1. UNCHANGED <<shownDoc, autoAff, toldUrl, stored, still, urlUnread, look>>
    BY <1>11 DEF Retry, runVars
  <2>5. act.mode # "none"
    BY <1>11 DEF Retry
  <2>2. Resolved(act.mode, act.target) \subseteq stored.refs
    BY <2>5 DEF Resolved, Named
  <2>3. CASE act' = NoAct
    BY <2>1, <2>3 DEF NoAct
  <2>4. ASSUME NEW r \in Resolved(act.mode, act.target),
               act' = [act EXCEPT !.at = "dispatch", !.ref = r]
        PROVE  ActInv'
    <3>1. /\ act'.at = "dispatch" /\ act'.stale = act.stale /\ act'.ref \in stored.refs
          /\ act'.mode = act.mode /\ DOMAIN act' = {"mode", "target", "at", "stale", "ref"}
      BY <2>2, <2>4
    <3>2. look.kind = "none" /\ act.mode # "none" /\ look.at = "done"
      BY <1>11 DEF Retry
    <3>3. RefsTyped' /\ ActsOnKnown'
      BY <2>1, <3>1, <3>2
    <3>4. FreshIsShown'
      BY <2>1, <3>1, <3>2
    <3> QED BY <3>3, <3>4
  <2> QED BY <1>11, <2>3, <2>4 DEF Retry
<1>12. CASE DispatchAct
  BY <1>12 DEF DispatchAct, NoAct, runVars
<1>13. CASE UNCHANGED observationVars
  BY <1>13 DEF observationVars, runVars
<1> QED
  BY <1>1, <1>2, <1>3, <1>4, <1>5, <1>6, <1>7, <1>8, <1>9, <1>10, <1>11, <1>12, <1>13
  DEF ObservationNext

\* An act step of a run calls its tool with an action the page in the tab offers, or has
\* looked again, as long as the tab's URL tells its documents apart (flow/handler.py:1655):
\* for all documents, refs and labels, and however often the page moved before the step.
THEOREM ActsCorrect == ObservationSpec => []ActsOnWhatIsShown
<1>1. ActInv => ActsOnWhatIsShown
  <2>1. \A d \in Docs : Address[d] \in Urls /\ Address[d] # NoUrl
    BY ObservationsAssumption DEF Urls, NoUrl
  <2> QED
    BY <2>1 DEF ActInv, RefsTyped, ActsOnKnown, FreshIsShown, ActsOnWhatIsShown, ActIsShown, Orderly
<1> QED BY <1>1, ActInitInv, ActNextInv, PTL DEF ObservationSpec

-----------------------------------------------------------------------------
(* The graph.                                                              *)

\* Nodes were seen no later than the last observation, and before the one that is on.
NodesTyped ==
  /\ DOMAIN nodes \subseteq Urls /\ DOMAIN edges \subseteq EdgeIds
  /\ current \in Urls \cup {NoUrl} /\ looks \in Nat
  /\ \A x \in DOMAIN nodes : nodes[x] \in Nat /\ nodes[x] <= looks
LookTyped ==
  /\ shownDoc \in Docs
  /\ DOMAIN look = {"kind", "at", "url", "refs", "links", "of"}
  /\ look.url \in Urls \cup {NoUrl} /\ look.links \subseteq Urls
  /\ look.kind = "none" => look.url = NoUrl
  /\ look.url # NoUrl => \A x \in DOMAIN nodes : nodes[x] < looks

GraphInv == NodesTyped /\ LookTyped /\ GraphIsClosed

LEMMA AddressIsUrl ==
  \A d \in Docs : Address[d] \in Urls /\ Address[d] # NoUrl /\ LinksTo[d] \subseteq Urls
BY ObservationsAssumption DEF Urls, NoUrl

LEMMA GraphInitInv == ObservationInit => GraphInv
BY DEF ObservationInit, GraphInv, NodesTyped, LookTyped, GraphIsClosed, NoLook

LEMMA NoteGraphInv ==
  ASSUME NodesTyped, GraphIsClosed, NEW u \in Urls, NEW tos \in SUBSET Urls, NEW stamp \in Nat,
         \A x \in DOMAIN nodes : nodes[x] < stamp,
         NoteGraph(u, tos, stamp)
  PROVE  /\ GraphIsClosed' /\ current' = u
         /\ DOMAIN nodes' \subseteq Urls /\ DOMAIN edges' \subseteq EdgeIds
         /\ \A x \in DOMAIN nodes' : nodes'[x] \in Nat /\ nodes'[x] <= stamp
<1> DEFINE here == tos \cup {u}
           seen == Stamped(nodes, here, stamp)
           new == {<<u, to, "link">> : to \in tos}
                    \cup {<<from, u, "nav">> : from \in {current} \ {NoUrl, u}}
           used == Stamped(edges, new, stamp)
           over == Cardinality(DOMAIN seen) > MaxNodes
<1>1. /\ DOMAIN seen = here \cup DOMAIN nodes
      /\ \A x \in DOMAIN seen : seen[x] = IF x \in here THEN stamp ELSE nodes[x]
  BY DEF Stamped
<1>2. DOMAIN used = new \cup DOMAIN edges
  BY DEF Stamped
<1>3. new \subseteq EdgeIds
  BY DEF NodesTyped, EdgeIds
<1>4. /\ current' = u /\ crowded' = (crowded \/ Cardinality(here) > MaxNodes)
      /\ \E ns \in LastSeen(seen, MaxNodes) :
           /\ nodes' = Restrict(seen, ns)
           /\ LET left == IF over THEN Restrict(used, DOMAIN used \cap EdgesWithin(ns)) ELSE used
              IN  \E es \in LastSeen(left, MaxEdges) : edges' = Restrict(left, es)
  BY DEF NoteGraph
<1> HIDE DEF seen, used, over
<1>5. PICK ns \in LastSeen(seen, MaxNodes) :
        /\ nodes' = Restrict(seen, ns)
        /\ LET left == IF over THEN Restrict(used, DOMAIN used \cap EdgesWithin(ns)) ELSE used
           IN  \E es \in LastSeen(left, MaxEdges) : edges' = Restrict(left, es)
  BY <1>4
<1>6. /\ ns \subseteq DOMAIN seen
      /\ \/ Cardinality(ns) = MaxNodes
         \/ ns = DOMAIN seen
      /\ \A x \in ns, y \in DOMAIN seen \ ns : seen[x] >= seen[y]
  BY DEF LastSeen
<1>7. /\ DOMAIN nodes' = ns /\ ns \subseteq Urls
      /\ \A x \in ns : nodes'[x] = seen[x]
  BY <1>1, <1>5, <1>6 DEF Restrict, NodesTyped
<1>8. \A x \in ns : nodes'[x] \in Nat /\ nodes'[x] <= stamp
  BY <1>1, <1>6, <1>7 DEF NodesTyped
<1>9. /\ DOMAIN edges' \subseteq DOMAIN used
      /\ over => DOMAIN edges' \subseteq EdgesWithin(ns)
  BY <1>5 DEF Restrict, LastSeen
<1>10. DOMAIN edges' \subseteq EdgeIds
  BY <1>2, <1>3, <1>9 DEF NodesTyped
<1>11. IsFiniteSet(here) /\ IsFiniteSet(DOMAIN seen) /\ IsFiniteSet(ns)
  <2>1. here \subseteq Urls /\ DOMAIN seen \subseteq Urls /\ ns \subseteq Urls
    BY <1>1, <1>7 DEF NodesTyped
  <2> HIDE DEF here
  <2> QED BY <2>1, FS_Subset, ObservationsAssumption
<1>12. u \in ns \/ Cardinality(here) > MaxNodes
  <2> SUFFICES ASSUME u \notin ns PROVE Cardinality(here) > MaxNodes
    OBVIOUS
  <2>1. u \in DOMAIN seen /\ seen[u] = stamp
    BY <1>1
  <2>2. Cardinality(ns) = MaxNodes
    BY <1>6, <2>1
  <2>3. ASSUME NEW x \in ns PROVE x \in here \ {u}
    BY <1>1, <1>6, <2>1 DEF NodesTyped
  <2>4. IsFiniteSet(here \ {u}) /\ Cardinality(here \ {u}) = Cardinality(here) - 1
    BY <1>11, FS_RemoveElement
  <2>5. Cardinality(ns) <= Cardinality(here \ {u})
    BY <2>3, <2>4, FS_Subset
  <2> QED BY <1>11, <2>2, <2>4, <2>5, FS_CardinalityType, ObservationsAssumption
<1>13. ~over => ns = DOMAIN seen
  <2> SUFFICES ASSUME ~over, Cardinality(ns) = MaxNodes PROVE ns = DOMAIN seen
    BY <1>6
  <2>1. Cardinality(ns) <= Cardinality(DOMAIN seen)
    BY <1>6, <1>11, FS_Subset
  <2>2. Cardinality(ns) = Cardinality(DOMAIN seen)
    BY <1>11, <2>1, FS_CardinalityType, ObservationsAssumption DEF over
  <2> QED BY <1>6, <1>11, <2>2, FS_Subset
<1>14. ASSUME ~crowded, NEW e \in DOMAIN edges' PROVE {e[1], e[2]} \subseteq ns
  <2>1. CASE over
    BY <1>9, <2>1 DEF EdgesWithin
  <2>2. CASE ~over
    <3>1. e \in new \/ e \in DOMAIN edges
      BY <1>2, <1>9
    <3>2. CASE e \in DOMAIN edges
      BY <1>1, <1>13, <1>14, <2>2, <3>2 DEF GraphIsClosed
    <3>3. CASE e \in new
      BY <1>1, <1>13, <1>14, <2>2, <3>3 DEF GraphIsClosed
    <3> QED BY <3>1, <3>2, <3>3
  <2> QED BY <2>1, <2>2
<1>15. GraphIsClosed'
  BY <1>4, <1>7, <1>12, <1>14 DEF GraphIsClosed
<1> QED BY <1>4, <1>7, <1>8, <1>10, <1>15

LEMMA GraphNextInv ==
  ASSUME GraphInv, [ObservationNext]_observationVars
  PROVE  GraphInv'
<1> USE DEF GraphInv
<1>1. ASSUME UNCHANGED graphVars, looks' = looks, shownDoc' \in Docs,
             \/ look' = look
             \/ /\ DOMAIN look' = {"kind", "at", "url", "refs", "links", "of"}
                /\ look'.url \in {look.url, NoUrl} /\ look'.links \subseteq Urls
                /\ look'.kind = look.kind \/ look'.url = NoUrl
      PROVE  GraphInv'
  BY <1>1 DEF graphVars, NodesTyped, LookTyped, GraphIsClosed
<1>2. CASE \/ RunTurns \/ Store \/ Retry \/ DispatchAct \/ UNCHANGED observationVars
           \/ \E d \in Docs : PageMoves(d) \/ \E u \in Urls : NavigateTo(u, d)
           \/ \E m \in {"ref", "label", "first"} : \E t \in ActTargets(m) : BeginAct(m, t)
  <2>1. UNCHANGED graphVars /\ looks' = looks /\ shownDoc' \in Docs
    BY <1>2
    DEF RunTurns, Store, Retry, DispatchAct, observationVars, PageMoves, NavigateTo, BeginAct,
        LookTyped
  <2>2. look' = look \/ look' = [look EXCEPT !.at = "note"]
    BY <1>2
    DEF RunTurns, Store, Retry, DispatchAct, observationVars, PageMoves, NavigateTo, BeginAct
  <2> QED BY <1>1, <2>1, <2>2 DEF LookTyped
<1>3. CASE Refresh
  BY <1>1, <1>3 DEF Refresh, NoLook, LookTyped
<1>4. CASE Collect
  <2>1. LinksTo[shownDoc] \subseteq Urls
    BY AddressIsUrl DEF LookTyped
  <2> QED BY <1>1, <1>4, <2>1 DEF Collect, LookTyped
<1>5. ASSUME NEW kind \in {"map", "triage", "locators"}, BeginLook(kind) PROVE GraphInv'
  <2>1. /\ looks' = looks + 1 /\ UNCHANGED <<shownDoc, graphVars>>
        /\ DOMAIN look' = {"kind", "at", "url", "refs", "links", "of"}
        /\ look'.url \in SomeUrl /\ look'.links = {} /\ look'.kind # "none"
    BY <1>5 DEF BeginLook, NoLook, SomeUrl
  <2> QED
    BY <2>1, AddressIsUrl DEF graphVars, NodesTyped, LookTyped, GraphIsClosed, SomeUrl
<1>6. CASE EndLook
  <2>1. look' = NoLook /\ UNCHANGED <<shownDoc, looks>>
    BY <1>6 DEF EndLook
  <2>2. CASE look.url = NoUrl
    BY <1>1, <1>6, <2>1, <2>2 DEF EndLook, NoLook, LookTyped
  <2>3. CASE look.url # NoUrl
    <3> DEFINE tos == IF look.kind = "map" THEN look.links ELSE {}
    <3>1. look.url \in Urls /\ tos \in SUBSET Urls /\ NoteGraph(look.url, tos, looks)
      BY <1>6, <2>3 DEF EndLook, LookTyped
    <3> HIDE DEF tos
    <3>2. /\ GraphIsClosed' /\ current' = look.url
          /\ DOMAIN nodes' \subseteq Urls /\ DOMAIN edges' \subseteq EdgeIds
          /\ \A x \in DOMAIN nodes' : nodes'[x] \in Nat /\ nodes'[x] <= looks
      BY <2>3, <3>1, NoteGraphInv DEF LookTyped, NodesTyped
    <3>3. look'.url = NoUrl /\ look'.links = {} /\ DOMAIN look' = DOMAIN look
      BY <2>1 DEF NoLook, LookTyped
    <3> QED BY <2>1, <3>1, <3>2, <3>3 DEF LookTyped, NodesTyped
  <2> QED BY <2>2, <2>3
<1>7. CASE SeedGraph
  <2>1. looks' = looks + 1 /\ UNCHANGED <<shownDoc, look>> /\ look.kind = "none"
    BY <1>7 DEF SeedGraph, NothingOn
  <2>2. CASE current # NoUrl
    <3>1. UNCHANGED graphVars
      BY <1>7, <2>2 DEF SeedGraph
    <3> QED BY <2>1, <3>1 DEF graphVars, NodesTyped, LookTyped, GraphIsClosed
  <2>3. CASE current = NoUrl
    <3>1. NoteGraph(Address[shownDoc], {}, looks') /\ Address[shownDoc] \in Urls
      BY <1>7, <2>3, AddressIsUrl DEF SeedGraph, LookTyped
    <3>2. looks' \in Nat /\ \A x \in DOMAIN nodes : nodes[x] < looks'
      BY <2>1 DEF NodesTyped
    <3>3. /\ GraphIsClosed' /\ current' = Address[shownDoc]
          /\ DOMAIN nodes' \subseteq Urls /\ DOMAIN edges' \subseteq EdgeIds
          /\ \A x \in DOMAIN nodes' : nodes'[x] \in Nat /\ nodes'[x] <= looks'
      BY <3>1, <3>2, NoteGraphInv
    <3> QED BY <2>1, <3>1, <3>2, <3>3 DEF LookTyped, NodesTyped
  <2> QED BY <2>2, <2>3
<1> QED BY <1>2, <1>3, <1>4, <1>5, <1>6, <1>7 DEF ObservationNext

\* Cutting the navigation graph down to its bounds leaves the page it is at in it, and no
\* edge without its ends (session_manager.py:1085, 1116), for all bounds and all pages; an
\* observation of more URLs than there is room for is the exception.
THEOREM GraphCorrect == ObservationSpec => []GraphIsClosed
BY GraphInitInv, GraphNextInv, PTL DEF ObservationSpec, GraphInv

-----------------------------------------------------------------------------
(* Waiting for a navigation.                                               *)

LEMMA FirstFacts ==
  ASSUME NEW q \in Seq(PageEvent), NEW ks, Has(q, ks)
  PROVE  /\ First(q, ks) \in DOMAIN q /\ q[First(q, ks)] \in ks
         /\ ~Has(SubSeq(q, 1, First(q, ks) - 1), ks)
<1> DEFINE T == {i \in DOMAIN q : q[i] \in ks}
<1>1. T \in SUBSET Nat /\ T # {}
  BY DEF Has
<1>2. PICK x \in T : \A y \in T : x <= y
  BY <1>1, LeastOf
<1>3. ~Has(SubSeq(q, 1, x - 1), ks)
  BY <1>2 DEF Has
<1> QED BY <1>2, <1>3 DEF First

LEMMA ConcatHas ==
  ASSUME NEW q \in Seq(PageEvent), NEW c \in Seq(PageEvent), NEW ks
  PROVE  /\ q \o c \in Seq(PageEvent)
         /\ Has(q \o c, ks) <=> Has(q, ks) \/ Has(c, ks)
<1>1. Len(q \o c) = Len(q) + Len(c) /\ q \o c \in Seq(PageEvent)
  BY ConcatProperties
<1>2. ASSUME NEW i \in DOMAIN q, q[i] \in ks PROVE Has(q \o c, ks)
  <2>1. i \in DOMAIN (q \o c) /\ (q \o c)[i] = q[i]
    BY <1>1
  <2> QED BY <1>2, <2>1 DEF Has
<1>3. ASSUME NEW i \in DOMAIN c, c[i] \in ks PROVE Has(q \o c, ks)
  <2>1. Len(q) + i \in DOMAIN (q \o c) /\ (q \o c)[Len(q) + i] = c[i]
    BY <1>1
  <2> QED BY <1>3, <2>1 DEF Has
<1>4. ASSUME NEW i \in DOMAIN (q \o c), (q \o c)[i] \in ks PROVE Has(q, ks) \/ Has(c, ks)
  <2>1. CASE i <= Len(q)
    BY <1>1, <1>4, <2>1 DEF Has
  <2>2. CASE i > Len(q)
    <3>1. i - Len(q) \in DOMAIN c /\ (q \o c)[i] = c[i - Len(q)]
      BY <1>1, <2>2
    <3> QED BY <1>4, <3>1 DEF Has
  <2> QED BY <1>1, <2>1, <2>2
<1> QED BY <1>1, <1>2, <1>3, <1>4 DEF Has

\* Cut in two at i, of which q loses the event.
LEMMA SplitHas ==
  ASSUME NEW q \in Seq(PageEvent), NEW i \in DOMAIN q, NEW ks
  PROVE  /\ SubSeq(q, 1, i - 1) \in Seq(PageEvent) /\ SubSeq(q, i + 1, Len(q)) \in Seq(PageEvent)
         /\ Has(q, ks) <=> \/ Has(SubSeq(q, 1, i - 1), ks)
                              \/ Has(SubSeq(q, i + 1, Len(q)), ks)
                              \/ q[i] \in ks
<1>1. SubSeq(q, 1, i - 1) \in Seq(PageEvent) /\ SubSeq(q, i + 1, Len(q)) \in Seq(PageEvent)
  BY SubSeqProperties
<1>2. /\ Len(SubSeq(q, 1, i - 1)) = i - 1
      /\ \A j \in 1..i - 1 : SubSeq(q, 1, i - 1)[j] = q[j]
  BY SubSeqProperties
<1>3. /\ Len(SubSeq(q, i + 1, Len(q))) = Len(q) - i
      /\ \A j \in 1..Len(q) - i : SubSeq(q, i + 1, Len(q))[j] = q[i + j]
  <2> DEFINE n == i + 1
  <2>1. n \in 1..Len(q) + 1 /\ Len(q) \in n - 1..Len(q)
    OBVIOUS
  <2> QED BY <2>1, SubSeqProperties
<1>4. ASSUME NEW j \in DOMAIN q, q[j] \in ks
      PROVE  \/ Has(SubSeq(q, 1, i - 1), ks)
             \/ Has(SubSeq(q, i + 1, Len(q)), ks)
             \/ q[i] \in ks
  <2>1. CASE j < i
    <3>1. j \in DOMAIN SubSeq(q, 1, i - 1) /\ SubSeq(q, 1, i - 1)[j] = q[j]
      BY <1>1, <1>2, <2>1
    <3> QED BY <1>4, <3>1 DEF Has
  <2>2. CASE j > i
    <3>1. /\ j - i \in DOMAIN SubSeq(q, i + 1, Len(q))
          /\ SubSeq(q, i + 1, Len(q))[j - i] = q[j]
      BY <1>1, <1>3, <2>2
    <3> QED BY <1>4, <3>1 DEF Has
  <2> QED BY <1>4, <2>1, <2>2
<1>5. Has(SubSeq(q, 1, i - 1), ks) => Has(q, ks)
  BY <1>1, <1>2 DEF Has
<1>6. Has(SubSeq(q, i + 1, Len(q)), ks) => Has(q, ks)
  <2> SUFFICES ASSUME NEW j \in DOMAIN SubSeq(q, i + 1, Len(q)),
                      SubSeq(q, i + 1, Len(q))[j] \in ks
               PROVE  Has(q, ks)
    BY DEF Has
  <2>1. j \in 1..Len(q) - i /\ q[i + j] \in ks /\ i + j \in DOMAIN q
    BY <1>1, <1>3
  <2> QED BY <2>1 DEF Has
<1>7. q[i] \in ks => Has(q, ks)
  BY DEF Has
<1> QED BY <1>1, <1>4, <1>5, <1>6, <1>7 DEF Has

LEMMA EmptyHas == \A ks : ~Has(<< >>, ks)
BY DEF Has

LEMMA AppendHas ==
  ASSUME NEW q \in Seq(PageEvent), NEW e \in PageEvent, NEW ks
  PROVE  /\ Append(q, e) \in Seq(PageEvent)
         /\ Has(Append(q, e), ks) <=> Has(q, ks) \/ e \in ks
<1>1. /\ Append(q, e) \in Seq(PageEvent) /\ Len(Append(q, e)) = Len(q) + 1
      /\ Append(q, e)[Len(q) + 1] = e /\ \A i \in 1..Len(q) : Append(q, e)[i] = q[i]
  BY AppendProperties
<1> QED BY <1>1 DEF Has

LEMMA PoppedHas ==
  ASSUME NEW q \in Seq(PageEvent), NEW ks, Has(q, ks), NEW others
  PROVE  /\ Popped(q, ks) \in Seq(PageEvent)
         /\ Has(Popped(q, ks), others) => Has(q, others)
         /\ Has(q, others) => Has(Popped(q, ks), others) \/ q[First(q, ks)] \in others
<1>1. First(q, ks) \in DOMAIN q
  BY FirstFacts
<1> DEFINE i == First(q, ks)
<1> HIDE DEF i
<1>2. i \in DOMAIN q
  BY <1>1 DEF i
<1>3. /\ SubSeq(q, 1, i - 1) \in Seq(PageEvent) /\ SubSeq(q, i + 1, Len(q)) \in Seq(PageEvent)
      /\ Has(q, others) <=> \/ Has(SubSeq(q, 1, i - 1), others)
                            \/ Has(SubSeq(q, i + 1, Len(q)), others)
                            \/ q[i] \in others
  BY <1>2, SplitHas
<1>4. /\ Popped(q, ks) \in Seq(PageEvent)
      /\ Has(Popped(q, ks), others) <=> \/ Has(SubSeq(q, 1, i - 1), others)
                                          \/ Has(SubSeq(q, i + 1, Len(q)), others)
  BY <1>3, ConcatHas DEF Popped, i
<1> QED BY <1>3, <1>4 DEF i

\* An event of a kind is still to be read, or read and not taken.
Signs(ks) == Has(queue, ks) \/ Has(coming, ks)

LEMMA AwaitFacts ==
  ASSUME queue \in Seq(PageEvent), coming \in Seq(PageEvent), NEW ks, "none" \notin ks,
         AwaitEvent(ks)
  PROVE  /\ queue' \in Seq(PageEvent) /\ coming' \in Seq(PageEvent)
         /\ Awaited(ks) \in ks \cup {"none"}
         /\ Awaited(ks) = "none" => ~Has(queue', ks) /\ coming' = << >>
         /\ \A others : /\ Signs(others)' => Signs(others)
                        /\ Awaited(ks) \in others \ {"none"} => Signs(others)
                        /\ Signs(others) => Signs(others)' \/ Awaited(ks) \in others
<1>1. CASE Has(queue, ks)
  <2>1. /\ queue' = Popped(queue, ks) /\ coming' = coming
        /\ Awaited(ks) = queue[First(queue, ks)] /\ Awaited(ks) \in ks
    BY <1>1, FirstFacts DEF AwaitEvent, Awaited
  <2>2. \A others : Awaited(ks) \in others => Has(queue, others)
    BY <1>1, <2>1, FirstFacts DEF Has
  <2> QED BY <1>1, <2>1, <2>2, PoppedHas DEF Signs
<1>2. CASE ~Has(queue, ks) /\ Has(coming, ks)
  <2> DEFINE i == First(coming, ks)
  <2>1. /\ queue' = queue \o SubSeq(coming, 1, i - 1)
        /\ coming' = SubSeq(coming, i + 1, Len(coming))
        /\ Awaited(ks) = coming[i] /\ i \in DOMAIN coming /\ Awaited(ks) \in ks
    BY <1>2, FirstFacts DEF AwaitEvent, Awaited
  <2> HIDE DEF i
  <2>2. SubSeq(coming, 1, i - 1) \in Seq(PageEvent) /\ coming' \in Seq(PageEvent)
    BY <2>1, SplitHas
  <2>3. ASSUME NEW others
        PROVE  /\ Signs(others)' => Signs(others)
               /\ Awaited(ks) \in others => Signs(others)
               /\ Signs(others) => Signs(others)' \/ Awaited(ks) \in others
    <3>1. Has(coming, others) <=> \/ Has(SubSeq(coming, 1, i - 1), others)
                                  \/ Has(coming', others) \/ Awaited(ks) \in others
      BY <2>1, SplitHas
    <3>2. Has(queue', others) <=> Has(queue, others) \/ Has(SubSeq(coming, 1, i - 1), others)
      BY <2>1, <2>2, ConcatHas, ZenonT(60)
    <3> QED BY <3>1, <3>2 DEF Signs
  <2>4. queue' \in Seq(PageEvent)
    BY <2>1, <2>2, ConcatHas
  <2> QED BY <2>1, <2>2, <2>3, <2>4
<1>3. CASE ~Has(queue, ks) /\ ~Has(coming, ks)
  <2>1. queue' = queue \o coming /\ coming' = << >> /\ Awaited(ks) = "none"
    BY <1>3 DEF AwaitEvent, Awaited
  <2> QED BY <1>3, <2>1, ConcatHas, EmptyHas DEF Signs
<1> QED BY <1>1, <1>2, <1>3

WaitTyped ==
  /\ queue \in Seq(PageEvent) /\ coming \in Seq(PageEvent)
  /\ doc \in Nat /\ url \in Nat /\ navs \in Nat /\ told \in Nat /\ since \in Nat
  /\ url <= navs + 1 /\ told <= navs /\ since <= navs
  /\ DOMAIN base = {"url", "doc"} /\ base.url \in Nat /\ base.doc \in Nat
  /\ base.url <= navs + 1 /\ base.doc <= doc
  /\ phase \in {"idle", "acted", "base", "round", "commits", "spa", "poll", "load"}
  /\ job \in {"none", "click", "navigate"}

\* Only a click gets as far as the rounds, and it loads when it has found a change.
PhasesTyped ==
  /\ phase \in {"acted", "base", "round", "commits", "spa", "poll"} => changed = "none"
  /\ phase \in {"base", "round", "commits", "spa", "poll"} => job = "click" /\ before
  /\ phase = "load" /\ job = "click" => changed = "yes"

\* What the click compares with was there when it acted, and since then the page has stood
\* still or differs from it.
BaseIsOld ==
  base.url <= since + 1 /\ (navs = since \/ doc > base.doc \/ url = navs + 1)

\* A navigation since the click has left its event; in a round in which none came for the
\* top frame, a change of its URL or nothing that is not in the frame itself.
SignsAreLeft ==
  shared /\ before /\ job = "click" =>
    /\ phase \in {"acted", "base", "round", "commits", "spa", "poll"} /\ navs > since
         => Signs(Navigation)
    /\ phase = "spa" /\ silent => ~Has(queue, {"commit"}) /\ (Has(queue, {"spa"}) \/ BaseIsOld)
    /\ phase = "poll" /\ silent => BaseIsOld

MissedInv == WaitTyped /\ PhasesTyped /\ SignsAreLeft /\ NavigationNotMissed

LEMMA WaitInitInv == WaitInit => MissedInv
BY DEF WaitInit, MissedInv, WaitTyped, PhasesTyped, SignsAreLeft, NavigationNotMissed, NoBase

\* An event of the page.
LEMMA EmitFacts ==
  ASSUME WaitTyped, NEW e \in PageEvent, Emit(e)
  PROVE  /\ coming' \in Seq(PageEvent)
         /\ \A ks : Has(coming', ks) => Has(coming, ks) \/ e \in ks
         /\ shared => \A ks : Has(coming', ks) <=> Has(coming, ks) \/ e \in ks
BY AppendHas DEF WaitTyped, Emit

LEMMA PageInv ==
  ASSUME MissedInv, Commit \/ ChangeUrl \/ Load \/ Noise
  PROVE  MissedInv'
<1> USE DEF MissedInv
<1>1. CASE Commit
  <2>1. /\ Emit("commit") /\ navs' = navs + 1 /\ doc' = doc + 1 /\ url' \in {url, navs + 2}
        /\ UNCHANGED <<shared, queue, told, recent, before, job, since, stale, phase, base,
                       changed, silent, polled>>
    BY <1>1 DEF Commit, telemetryVars, jobVars, callVars
  <2>2. /\ coming' \in Seq(PageEvent)
        /\ shared => Has(coming', Navigation)
    BY <2>1, EmitFacts DEF PageEvent, Navigation
  <2>3. WaitTyped'
    BY <2>1, <2>2 DEF WaitTyped
  <2>4. PhasesTyped' /\ NavigationNotMissed'
    BY <2>1 DEF PhasesTyped, NavigationNotMissed
  <2>5. BaseIsOld => BaseIsOld'
    BY <2>1 DEF BaseIsOld, WaitTyped
  <2>6. SignsAreLeft'
    BY <2>1, <2>2, <2>5 DEF SignsAreLeft, Signs
  <2> QED BY <2>3, <2>4, <2>6
<1>2. CASE ChangeUrl
  <2>1. /\ Emit("spa") /\ navs' = navs + 1 /\ doc' = doc /\ url' = navs + 2
        /\ UNCHANGED <<shared, queue, told, recent, before, job, since, stale, phase, base,
                       changed, silent, polled>>
    BY <1>2 DEF ChangeUrl, telemetryVars, jobVars, callVars
  <2>2. /\ coming' \in Seq(PageEvent)
        /\ shared => Has(coming', Navigation)
    BY <2>1, EmitFacts DEF PageEvent, Navigation
  <2>3. WaitTyped'
    BY <2>1, <2>2 DEF WaitTyped
  <2>4. PhasesTyped' /\ NavigationNotMissed'
    BY <2>1 DEF PhasesTyped, NavigationNotMissed
  <2>5. BaseIsOld => BaseIsOld'
    BY <2>1 DEF BaseIsOld, WaitTyped
  <2>6. SignsAreLeft'
    BY <2>1, <2>2, <2>5 DEF SignsAreLeft, Signs
  <2> QED BY <2>3, <2>4, <2>6
<1>3. CASE Load \/ Noise
  <2>1. PICK e \in PageEvent : Emit(e)
    BY <1>3 DEF Load, Noise, PageEvent
  <2>2. UNCHANGED <<shared, doc, url, navs, queue, telemetryVars, jobVars>>
    BY <1>3 DEF Load, Noise
  <2>3. /\ coming' \in Seq(PageEvent)
        /\ shared => (Has(coming, Navigation) => Has(coming', Navigation))
    BY <2>1, EmitFacts
  <2> QED
    BY <2>2, <2>3
    DEF WaitTyped, PhasesTyped, NavigationNotMissed, SignsAreLeft, Signs, BaseIsOld,
        telemetryVars, jobVars, callVars
<1> QED BY <1>1, <1>2, <1>3

\* A tool takes events and leaves the others.
LEMMA ToolSigns ==
  ASSUME WaitTyped, ToolStep, NEW ks
  PROVE  Signs(ks)' => Signs(ks)
<1>1. CASE AskCommits
  BY <1>1, AwaitFacts DEF AskCommits, WaitTyped, FrameNavigated
<1>2. CASE AskSpa
  BY <1>2, PoppedHas DEF AskSpa, Found, WaitTyped, Signs
<1>3. CASE FoundDialog
  BY <1>3, PoppedHas, EmptyHas DEF FoundDialog, Leave, WaitTyped, Signs
<1>4. CASE Poll
  BY <1>4, EmptyHas DEF Poll, Leave, Signs
<1>5. CASE LoadRound
  <2> DEFINE q == queue \o coming
  <2>1. \/ AwaitEvent({"load"})
        \/ Leave(<<>>, <<>>)
        \/ Has(q, {"dialog"}) /\ Leave(Popped(q, {"dialog"}), <<>>)
        \/ Leave(q, <<>>)
        \/ queue' = q /\ coming' = <<>>
    BY <1>5 DEF LoadRound
  <2> HIDE DEF q
  <2>2. q \in Seq(PageEvent) /\ (Has(q, ks) => Signs(ks))
    BY ConcatHas DEF q, WaitTyped, Signs
  <2>3. Has(q, {"dialog"}) => (Has(Popped(q, {"dialog"}), ks) => Has(q, ks))
    BY <2>2, PoppedHas
  <2>4. CASE AwaitEvent({"load"})
    BY <2>4, AwaitFacts DEF WaitTyped
  <2> QED BY <2>1, <2>2, <2>3, <2>4, EmptyHas DEF Leave, Signs
<1>6. CASE DoesNotWait \/ ReadUrl \/ ReadDoc \/ AskTelemetry \/ PollUrl
  BY <1>6 DEF DoesNotWait, ReadUrl, ReadDoc, AskTelemetry, PollUrl, Signs
<1> QED BY <1>1, <1>2, <1>3, <1>4, <1>5, <1>6 DEF ToolStep

LEMMA ToolInv ==
  ASSUME MissedInv, ToolStep
  PROVE  MissedInv'
<1> USE DEF MissedInv
<1>0. UNCHANGED <<shared, doc, url, navs, told, recent, before, job, since, stale>>
  BY DEF ToolStep, DoesNotWait, ReadUrl, ReadDoc, FoundDialog, AskTelemetry, AskCommits, AskSpa,
         Poll, PollUrl, LoadRound, Ends, Goes, Found, NoneFound, pageVars, callVars, telemetryVars
\* The tool is through with its rounds.
<1>1. ASSUME phase' \in {"idle", "load"}, queue' \in Seq(PageEvent), coming' \in Seq(PageEvent),
             base' \in {base, NoBase}, polled' = polled,
             \/ changed' = "yes" \/ changed' = "dialog"
             \/ changed' = changed /\ phase = "load" /\ (changed = "yes" \/ job # "click")
             \/ changed' = "no" /\ (~before \/ job # "click"),
             phase' = "load" /\ job = "click" => changed' = "yes"
      PROVE  MissedInv'
  <2>1. WaitTyped'
    BY <1>0, <1>1 DEF WaitTyped, NoBase
  <2> QED BY <1>0, <1>1, <2>1 DEF WaitTyped, PhasesTyped, NavigationNotMissed, SignsAreLeft
<1>2. CASE DoesNotWait
  <2>1. /\ ~before /\ UNCHANGED <<coming, queue, polled>> /\ changed' = "no"
        /\ IF job = "click" THEN phase' = "idle" /\ base' = NoBase
           ELSE phase' = "load" /\ base' = base
    BY <1>2 DEF DoesNotWait, Ends, NoneFound
  <2> QED BY <1>1, <2>1 DEF WaitTyped
<1>3. CASE ReadUrl
  <2>1. /\ phase = "acted" /\ before /\ job = "click" /\ base' = [base EXCEPT !.url = url]
        /\ phase' = "base" /\ UNCHANGED <<coming, queue, changed, silent, polled>>
    BY <1>3 DEF ReadUrl
  <2> QED
    BY <1>0, <2>1 DEF WaitTyped, PhasesTyped, NavigationNotMissed, SignsAreLeft, Signs
<1>4. CASE ReadDoc
  <2>1. /\ phase = "base" /\ base' = [base EXCEPT !.doc = doc] /\ polled' = navs
        /\ phase' = "round" /\ UNCHANGED <<coming, queue, changed, silent>>
    BY <1>4 DEF ReadDoc
  <2> QED
    BY <1>0, <2>1 DEF WaitTyped, PhasesTyped, NavigationNotMissed, SignsAreLeft, Signs
<1>5. CASE FoundDialog
  <2>1. /\ Leave(Popped(queue, {"dialog"}), coming) /\ Has(queue, {"dialog"})
        /\ changed' = "dialog" /\ phase' = "idle" /\ base' = NoBase /\ polled' = polled
    BY <1>5 DEF FoundDialog, Ends
  <2>2. queue' \in Seq(PageEvent) /\ coming' \in Seq(PageEvent)
    BY <2>1, PoppedHas DEF Leave, WaitTyped
  <2> QED BY <1>1, <2>1, <2>2
<1>6. CASE AskTelemetry
  <2>1. /\ phase = "round" /\ UNCHANGED <<queue, coming, base, silent, polled>>
        /\ \/ changed' = "yes" /\ phase' = "load"
           \/ changed' = changed /\ phase' = "commits"
    BY <1>6 DEF AskTelemetry, Found, Goes
  <2>2. CASE phase' = "load"
    BY <1>1, <2>1, <2>2 DEF WaitTyped
  <2>3. CASE phase' = "commits"
    BY <1>0, <2>1, <2>3 DEF WaitTyped, PhasesTyped, NavigationNotMissed, SignsAreLeft, Signs
  <2> QED BY <2>1, <2>2, <2>3
<1>7. CASE AskCommits
  <2>1. /\ phase = "commits" /\ AwaitEvent(FrameNavigated) /\ UNCHANGED <<base, polled>>
        /\ silent' = (Awaited(FrameNavigated) = "none")
        /\ \/ /\ Awaited(FrameNavigated) = "commit" /\ changed' = "yes" /\ phase' = "load"
           \/ /\ Awaited(FrameNavigated) # "commit" /\ changed' = changed /\ phase' = "spa"
    BY <1>7 DEF AskCommits, OfTopFrame
  <2>2. /\ queue' \in Seq(PageEvent) /\ coming' \in Seq(PageEvent)
        /\ Awaited(FrameNavigated) \in FrameNavigated \cup {"none"}
        /\ Awaited(FrameNavigated) = "none" => ~Has(queue', FrameNavigated) /\ coming' = << >>
        /\ Signs(Navigation) => Signs(Navigation)' \/ Awaited(FrameNavigated) \in Navigation
    BY <2>1, AwaitFacts DEF WaitTyped, FrameNavigated
  <2>3. CASE phase' = "load"
    BY <1>1, <2>1, <2>2, <2>3
  <2>4. CASE phase' = "spa"
    <3>1. Signs(Navigation) => Signs(Navigation)'
      BY <2>1, <2>2, <2>4 DEF FrameNavigated, Navigation
    <3>2. WaitTyped' /\ PhasesTyped' /\ NavigationNotMissed'
      BY <1>0, <2>1, <2>2, <2>4 DEF WaitTyped, PhasesTyped, NavigationNotMissed
    <3>3. silent' => ~Has(queue', {"commit"})
      BY <2>1, <2>2 DEF Has, FrameNavigated
    <3>4. silent' => ~Has(coming', Navigation)
      BY <2>1, <2>2, EmptyHas
    <3>5. silent' /\ Signs(Navigation)' => Has(queue', {"spa"})
      BY <3>3, <3>4 DEF Has, Signs, Navigation
    <3>6. navs = since => BaseIsOld'
      BY <1>0, <2>1 DEF WaitTyped, BaseIsOld
    <3>7. navs > since \/ navs = since
      BY DEF WaitTyped
    <3>8. shared /\ before /\ job = "click" /\ navs > since => Signs(Navigation)'
      BY <2>1, <3>1 DEF SignsAreLeft
    <3> HIDE DEF MissedInv
    <3>9. SignsAreLeft'
      BY <1>0, <2>4, <3>3, <3>5, <3>6, <3>7, <3>8 DEF SignsAreLeft
    <3> QED BY <3>2, <3>9 DEF MissedInv
  <2> QED BY <2>1, <2>3, <2>4
<1>8. CASE AskSpa
  <2>1. /\ phase = "spa" /\ UNCHANGED <<coming, base, polled>>
        /\ \/ /\ Has(queue, {"spa"}) /\ queue' = Popped(queue, {"spa"})
              /\ changed' = "yes" /\ phase' = "load"
           \/ /\ ~Has(queue, {"spa"}) /\ queue' = queue
              /\ changed' = changed /\ phase' = "poll" /\ silent' = silent
    BY <1>8 DEF AskSpa, Found, Goes
  <2>2. CASE phase' = "load"
    BY <1>1, <2>1, <2>2, PoppedHas DEF WaitTyped
  <2>3. CASE phase' = "poll"
    <3>1. WaitTyped' /\ PhasesTyped' /\ NavigationNotMissed'
      BY <1>0, <2>1, <2>3 DEF WaitTyped, PhasesTyped, NavigationNotMissed
    <3> QED BY <1>0, <2>1, <2>3, <3>1 DEF SignsAreLeft, Signs, BaseIsOld
  <2> QED BY <2>1, <2>2, <2>3
<1>9. CASE Poll
  <2>1. CASE FrameDiffers
    <3>1. UNCHANGED <<queue, coming, base, polled>> /\ changed' = "yes" /\ phase' = "load"
      BY <1>9, <2>1 DEF Poll, Found
    <3> QED BY <1>1, <3>1 DEF WaitTyped
  <2>2. CASE ~FrameDiffers
    <3>1. phase = "poll" /\ polled' = navs
      BY <1>9, <2>2 DEF Poll
    <3>2. CASE phase' = "round" /\ UNCHANGED <<changed, base, silent, queue, coming>>
      BY <1>0, <3>1, <3>2 DEF WaitTyped, PhasesTyped, NavigationNotMissed, SignsAreLeft, Signs
    <3>3. CASE /\ silent /\ Leave(queue, coming)
               /\ phase' = "idle" /\ changed' = "no" /\ base' = NoBase /\ silent' = FALSE
      <4>1. WaitTyped' /\ PhasesTyped' /\ SignsAreLeft'
        BY <1>0, <3>1, <3>3, EmptySeq
        DEF WaitTyped, PhasesTyped, SignsAreLeft, NoBase, Leave
      <4>2. shared => navs = since
        BY <2>2, <3>1, <3>3 DEF SignsAreLeft, PhasesTyped, BaseIsOld, FrameDiffers, WaitTyped
      <4> QED BY <1>0, <3>1, <4>1, <4>2 DEF NavigationNotMissed
    <3> QED BY <1>9, <2>2, <3>2, <3>3 DEF Poll
  <2> QED BY <2>1, <2>2
<1>10. CASE PollUrl
  <2>1. /\ job = "navigate" /\ UNCHANGED <<queue, coming, base, polled>>
        /\ changed' \in {"yes", "no"} /\ phase' = "load"
    BY <1>10 DEF PollUrl, Found, NoneFound
  <2> QED BY <1>1, <2>1 DEF WaitTyped
<1>11. CASE LoadRound
  <2>1. /\ phase = "load" /\ changed' = changed /\ phase' \in {"idle", "load"}
        /\ base' \in {base, NoBase} /\ polled' = polled
    BY <1>11 DEF LoadRound, Ends, Goes
  <2>2. queue \o coming \in Seq(PageEvent)
    BY ConcatHas DEF WaitTyped
  <2>3. queue' \in Seq(PageEvent) /\ coming' \in Seq(PageEvent)
    <3> DEFINE q == queue \o coming
    <3>1. CASE AwaitEvent({"load"})
      BY <3>1, AwaitFacts DEF WaitTyped
    <3>2. \/ AwaitEvent({"load"})
          \/ Leave(<<>>, <<>>)
          \/ Has(q, {"dialog"}) /\ Leave(Popped(q, {"dialog"}), <<>>)
          \/ Leave(q, <<>>)
          \/ queue' = q /\ coming' = <<>>
      BY <1>11 DEF LoadRound
    <3> HIDE DEF q
    <3>3. q \in Seq(PageEvent) /\ <<>> \in Seq(PageEvent)
      BY <2>2, EmptySeq DEF q
    <3>4. Has(q, {"dialog"}) => Popped(q, {"dialog"}) \in Seq(PageEvent)
      BY <3>3, PoppedHas
    <3> QED BY <3>1, <3>2, <3>3, <3>4 DEF Leave
  <2>4. changed = "yes" \/ job # "click"
    BY <2>1 DEF PhasesTyped
  <2> QED BY <1>1, <2>1, <2>3, <2>4
<1> QED
  BY <1>2, <1>3, <1>4, <1>5, <1>6, <1>7, <1>8, <1>9, <1>10, <1>11 DEF ToolStep

LEMMA WaitNextInv ==
  ASSUME MissedInv, [WaitNext]_waitVars
  PROVE  MissedInv'
<1> USE DEF MissedInv
<1>1. CASE TelemetryHears \/ Age \/ UNCHANGED waitVars
  <2>1. /\ UNCHANGED <<shared, doc, url, navs, coming, queue, job, phase, base, changed, before,
                       silent, since, polled>>
        /\ told' = told \/ (told < navs /\ told' = told + 1)
    BY <1>1
    DEF TelemetryHears, Age, waitVars, pageVars, telemetryVars, jobVars, callVars
  <2> QED
    BY <2>1
    DEF WaitTyped, PhasesTyped, NavigationNotMissed, SignsAreLeft, Signs, BaseIsOld
<1>2. ASSUME NEW j \in {"click", "navigate"}, Act(j) PROVE MissedInv'
  <2>1. /\ job' = j /\ phase' = "acted" /\ changed' = "none" /\ since' = navs /\ polled' = navs
        /\ base' = [url |-> IF j = "navigate" /\ before' THEN url ELSE 0, doc |-> 0]
        /\ UNCHANGED <<shared, doc, url, navs, coming, queue, told>>
    BY <1>2 DEF Act, pageVars, telemetryVars
  <2> QED
    BY <2>1 DEF WaitTyped, PhasesTyped, NavigationNotMissed, SignsAreLeft
<1> QED BY <1>1, <1>2, PageInv, ToolInv DEF WaitNext

\* In a run a click that reports no change has watched a page that stood still up to the
\* last poll, wherever between the click, the reads of its URL and document and the rounds of
\* the wait the page navigated, and however its events were queued (tools/page/wait.py).
THEOREM NoNavigationMissed == WaitSpec => []NavigationNotMissed
BY WaitInitInv, WaitNextInv, PTL DEF WaitSpec, MissedInv

\* While the page stands still there is no sign that it does not.
NoFalseSigns ==
  ~stale /\ navs = since =>
    /\ told = navs /\ ~recent /\ ~Signs(Navigation) /\ changed # "yes"
    /\ phase \in {"base", "round", "commits", "spa", "poll"} => base.url = url
    /\ phase \in {"round", "commits", "spa", "poll"} => base.doc = doc
    /\ phase = "acted" /\ job = "navigate" /\ before => base.url = url

ChangedInv == MissedInv /\ NoFalseSigns

LEMMA ChangedInitInv == WaitInit => ChangedInv
BY WaitInitInv, EmptyHas DEF WaitInit, ChangedInv, NoFalseSigns, Signs

LEMMA ChangedNextInv ==
  ASSUME ChangedInv, [WaitNext]_waitVars
  PROVE  ChangedInv'
<1> USE DEF ChangedInv
<1>1. MissedInv'
  BY WaitNextInv
<1>2. WaitTyped /\ PhasesTyped
  BY DEF MissedInv
<1> HIDE DEF ChangedInv
<1>3. NoFalseSigns
  BY DEF ChangedInv
<1>4. NoFalseSigns'
  <2>1. CASE Commit \/ ChangeUrl
    <3>1. navs' = navs + 1 /\ since' = since
      BY <2>1 DEF Commit, ChangeUrl, jobVars, callVars
    <3> QED BY <1>2, <3>1 DEF NoFalseSigns, WaitTyped
  <2>2. CASE Load \/ Noise
    <3>1. PICK e \in PageEvent \ Navigation : Emit(e)
      BY <2>2 DEF Load, Noise, PageEvent, Navigation
    <3>2. UNCHANGED <<doc, url, navs, queue, told, recent, phase, base, changed, job, before,
                      since, stale>>
      BY <2>2 DEF Load, Noise, telemetryVars, jobVars, callVars
    <3>3. Has(coming', Navigation) => Has(coming, Navigation)
      BY <1>2, <3>1, EmitFacts
    <3> QED BY <1>3, <3>2, <3>3 DEF NoFalseSigns, Signs
  <2>3. CASE TelemetryHears \/ Age \/ UNCHANGED waitVars
    <3>1. /\ UNCHANGED <<doc, url, navs, coming, queue, job, phase, base, changed, before, since,
                         stale>>
          /\ \/ told < navs
             \/ told' = told /\ (recent' = recent \/ recent' = FALSE)
      BY <2>3 DEF TelemetryHears, Age, waitVars, pageVars, telemetryVars, jobVars, callVars
    <3> QED BY <1>2, <1>3, <3>1 DEF NoFalseSigns, Signs, WaitTyped
  <2>4. ASSUME NEW j \in {"click", "navigate"}, Act(j) PROVE NoFalseSigns'
    <3>1. /\ job' = j /\ phase' = "acted" /\ changed' = "none" /\ since' = navs
          /\ base' = [url |-> IF j = "navigate" /\ before' THEN url ELSE 0, doc |-> 0]
          /\ stale' = (recent \/ told < navs \/ Has(queue \o coming, Navigation))
          /\ UNCHANGED <<doc, url, navs, coming, queue, told, recent>>
      BY <2>4 DEF Act, pageVars, telemetryVars
    <3>2. Has(queue \o coming, Navigation) <=> Signs(Navigation)
      BY <1>2, ConcatHas DEF Signs, WaitTyped
    <3>3. ~stale' => ~recent /\ ~(told < navs) /\ ~Signs(Navigation)
      BY <3>1, <3>2, Zenon
    <3>4. ~(told < navs) => told = navs
      BY <1>2 DEF WaitTyped
    <3> QED BY <3>1, <3>3, <3>4 DEF NoFalseSigns, Signs
  <2>5. CASE ToolStep
    <3> SUFFICES ASSUME ~stale, navs = since,
                        UNCHANGED <<doc, url, navs, told, recent, before, job>>
                 PROVE  NoFalseSigns'
      BY <2>5
      DEF NoFalseSigns, ToolStep, DoesNotWait, ReadUrl, ReadDoc, FoundDialog, AskTelemetry,
          AskCommits, AskSpa, Poll, PollUrl, LoadRound, Ends, Goes, Found, NoneFound, pageVars,
          callVars, telemetryVars
    <3>1. told = navs /\ ~recent /\ ~Signs(Navigation) /\ changed # "yes"
      BY <1>3 DEF NoFalseSigns
    <3>2. Signs(Navigation)' => Signs(Navigation)
      BY <1>2, <2>5, ToolSigns
    <3>3. changed' # "yes"
      <4>1. CASE AskCommits
        <5>1. Awaited(FrameNavigated) \in {"none", "frame"}
          BY <1>2, <3>1, <4>1, AwaitFacts DEF AskCommits, WaitTyped, FrameNavigated, Navigation
        <5> QED BY <3>1, <4>1, <5>1 DEF AskCommits, OfTopFrame
      <4>2. CASE AskSpa
        BY <3>1, <4>2 DEF AskSpa, Signs, Has, Navigation, Goes
      <4>3. CASE Poll
        BY <1>3, <3>1, <4>3 DEF Poll, NoFalseSigns, FrameDiffers
      <4>4. CASE PollUrl
        BY <1>3, <3>1, <4>4 DEF PollUrl, NoFalseSigns, NoneFound
      <4>5. CASE DoesNotWait \/ ReadUrl \/ ReadDoc \/ FoundDialog \/ AskTelemetry \/ LoadRound
        BY <3>1, <4>5
        DEF DoesNotWait, ReadUrl, ReadDoc, FoundDialog, AskTelemetry, LoadRound, Ends, Goes,
            NoneFound
      <4> QED BY <2>5, <4>1, <4>2, <4>3, <4>4, <4>5 DEF ToolStep
    <3>4. /\ phase' \in {"base", "round", "commits", "spa", "poll"} => base'.url = url
          /\ phase' \in {"round", "commits", "spa", "poll"} => base'.doc = doc
          /\ phase' # "acted"
      BY <1>2, <1>3, <2>5
      DEF NoFalseSigns, PhasesTyped, WaitTyped, ToolStep, DoesNotWait, ReadUrl, ReadDoc,
          FoundDialog, AskTelemetry, AskCommits, AskSpa, Poll, PollUrl, LoadRound, Ends, Goes,
          Found, NoneFound
    <3> QED BY <3>1, <3>2, <3>3, <3>4 DEF NoFalseSigns
  <2> QED BY <2>1, <2>2, <2>3, <2>4, <2>5 DEF WaitNext
<1> QED BY <1>1, <1>4 DEF ChangedInv

\* A change that a tool reports is one of the page since the tool acted, not another frame's,
\* if no sign of an earlier navigation was left when it began; with a connection of its own
\* or a shared one (tools/page/wait.py, server/handlers/unified.py).
THEOREM ChangesAreReal == WaitSpec => []ChangedUnlessStale
<1>1. ChangedInv => ChangedUnlessStale
  BY DEF ChangedInv, MissedInv, WaitTyped, NoFalseSigns, ChangedUnlessStale
<1> QED BY <1>1, ChangedInitInv, ChangedNextInv, PTL DEF WaitSpec

-----------------------------------------------------------------------------
(* Insertions.                                                             *)

\* An attempt may bring about a copy from these phases only.
Trying == {"clipboard", "focus", "keys", "drop", "dropped", "intercept", "trigger", "chooser"}

InsertTyped ==
  /\ number \in 0..MaxAppCalls
  /\ appPhase # "idle" => number \in CallNumbers
  /\ due \in [CallNumbers -> Nat] /\ copies \in [CallNumbers -> Nat]

\* Later calls have brought about nothing, and the current one nothing that was seen, as long
\* as it tries.
NothingYet ==
  /\ \A n \in CallNumbers : n > number => due[n] + copies[n] = 0
  /\ appPhase \in Trying => due[number] + copies[number] = 0 \/ number \in unseen

InsertInv == InsertTyped /\ NothingYet /\ OneCopyUnlessUnseen

LEMMA InsertInitInv == AppInit => InsertInv
BY AppAssumption DEF AppInit, InsertInv, InsertTyped, NothingYet, OneCopyUnlessUnseen, CallNumbers,
   Trying

\* What the page does leaves the number of copies as it is.
LEMMA InsertKept ==
  ASSUME InsertInv, UNCHANGED number, InsertTyped',
         \A n \in CallNumbers : due'[n] + copies'[n] = due[n] + copies[n],
         unseen \subseteq unseen',
         appPhase' \in Trying =>
           \/ appPhase \in Trying \/ due[number] + copies[number] = 0 \/ number \in unseen'
  PROVE  InsertInv'
BY DEF InsertInv, InsertTyped, NothingYet, OneCopyUnlessUnseen, Trying

\* An attempt brings about one copy at most; if it does and the call goes on it was not seen.
LEMMA TriesOnce ==
  ASSUME InsertInv, UNCHANGED number, appPhase \in Trying, Takes,
         \/ appPhase' \in {"settle", "release"} /\ unseen' = unseen
         \/ /\ appPhase' \in Trying \cup {"idle"}
            /\ unseen' = IF Took THEN unseen \cup {number} ELSE unseen
  PROVE  InsertInv'
<1>1. InsertTyped /\ number \in CallNumbers
  BY DEF InsertInv, InsertTyped, Trying
<1>2. /\ InsertTyped' /\ due'[number] + copies'[number] \in Nat
      /\ due'[number] + copies'[number] <= due[number] + copies[number] + 1
      /\ \A n \in CallNumbers \ {number} : due'[n] + copies'[n] = due[n] + copies[n]
  BY <1>1 DEF InsertTyped, Takes
<1>3. number \in unseen' \/ ~Took \/ appPhase' \notin Trying \cup {"idle"}
  BY DEF Trying
<1>4. unseen \subseteq unseen'
  OBVIOUS
<1>5. ~Took => due'[number] + copies'[number] = due[number] + copies[number]
  BY DEF Took
<1>6. NothingYet'
  BY <1>1, <1>2, <1>3, <1>4, <1>5 DEF InsertInv, NothingYet, InsertTyped, CallNumbers
<1>7. OneCopyUnlessUnseen'
  BY <1>1, <1>2, <1>4 DEF InsertInv, NothingYet, OneCopyUnlessUnseen, InsertTyped
<1> QED BY <1>2, <1>6, <1>7 DEF InsertInv

LEMMA InsertNextInv ==
  ASSUME InsertInv, [AppNext]_appVars
  PROVE  InsertInv'
<1>1. InsertTyped /\ NothingYet /\ (appPhase \in Trying => number \in CallNumbers)
  BY DEF InsertInv, InsertTyped, Trying
<1>2. ASSUME NEW c \in AppCalls, BeginApp(c) PROVE InsertInv'
  <2> MaxAppCalls \in Nat
    BY AppAssumption
  <2>1. /\ number' = number + 1 /\ number' \in CallNumbers
        /\ UNCHANGED <<due, copies, unseen>>
    BY <1>1, <1>2 DEF BeginApp, appPage, InsertTyped, CallNumbers
  <2>2. InsertTyped'
    BY <1>1, <2>1 DEF InsertTyped, CallNumbers
  <2>3. \A n \in CallNumbers : n >= number' => due[n] + copies[n] = 0
    BY <1>1, <2>1 DEF InsertTyped, NothingYet, CallNumbers
  <2>4. NothingYet'
    BY <1>1, <2>1, <2>3 DEF InsertTyped, NothingYet, CallNumbers
  <2> QED BY <2>1, <2>2, <2>4 DEF InsertInv, OneCopyUnlessUnseen
<1>3. ASSUME \/ WriteClipboard \/ FocusCanvas \/ NoKeyWorks \/ BeginDrop \/ BeginImport
             \/ TriggerChooser \/ NoChooser \/ NothingTriggers
      PROVE  InsertInv'
  <2>1. /\ appPhase \in Trying /\ UNCHANGED <<number, due, copies, unseen>>
    BY <1>3 DEF WriteClipboard, FocusCanvas, NoKeyWorks, BeginDrop, BeginImport, TriggerChooser,
                NoChooser, NothingTriggers, appCall, appPage, Trying
  <2>2. InsertTyped'
    BY <1>1, <2>1 DEF InsertTyped
  <2> QED BY <2>1, <2>2, InsertKept
<1>4. ASSUME PressPaste \/ DropFiles \/ AcceptChooser PROVE InsertInv'
  <2>1. appPhase \in Trying /\ Takes /\ UNCHANGED number
    BY <1>4 DEF PressPaste, DropFiles, AcceptChooser, appCall, Trying
  <2>2. \/ appPhase' \in {"settle", "release"} /\ unseen' = unseen
        \/ /\ appPhase' \in Trying \cup {"idle"}
           /\ unseen' = IF Took THEN unseen \cup {number} ELSE unseen
    BY <1>4 DEF PressPaste, DropFiles, AcceptChooser, DropFails, AppEnds, Trying
  <2> QED BY <2>1, <2>2, TriesOnce
<1>5. ASSUME NEW differs \in BOOLEAN, Judge(differs) PROVE InsertInv'
  <2>1. /\ appPhase = "settle" /\ UNCHANGED <<number, due, copies>> /\ unseen \subseteq unseen'
    BY <1>5 DEF Judge, appCall
  <2>2. \/ appPhase' = "idle"
        \/ unseen' = IF due[number] + copies[number] > 0 THEN unseen \cup {number} ELSE unseen
    BY <1>5 DEF Judge, Content, AppEnds
  <2>3. InsertTyped' /\ due[number] + copies[number] \in Nat
    BY <1>1, <2>1 DEF InsertTyped
  <2> QED BY <2>1, <2>2, <2>3, InsertKept DEF Trying
<1>6. ASSUME ReleaseChooser \/ ChooserOpensLate PROVE InsertInv'
  <2>1. /\ UNCHANGED <<number, due, copies, unseen>> /\ appPhase' \in {appPhase, "idle"}
    BY <1>6 DEF ReleaseChooser, ChooserOpensLate, AppEnds, appCall
  <2>2. InsertTyped'
    BY <1>1, <2>1 DEF InsertTyped
  <2> QED BY <2>1, <2>2, InsertKept DEF Trying
<1>7. ASSUME NEW n \in CallNumbers, CopyAppears(n) PROVE InsertInv'
  <2>1. /\ due[n] > 0 /\ due' = [due EXCEPT ![n] = @ - 1]
        /\ copies' = [copies EXCEPT ![n] = @ + 1] /\ UNCHANGED <<number, appPhase, unseen>>
    BY <1>7 DEF CopyAppears, appCall
  <2>2. InsertTyped' /\ \A m \in CallNumbers : due'[m] + copies'[m] = due[m] + copies[m]
    BY <1>1, <2>1 DEF InsertTyped
  <2> QED BY <2>1, <2>2, InsertKept
<1>8. CASE UNCHANGED appVars
  <2>1. UNCHANGED <<number, due, copies, unseen, appPhase>>
    BY <1>8 DEF appVars, appCall, appPage
  <2> QED BY <2>1 DEF InsertInv, InsertTyped, NothingYet, OneCopyUnlessUnseen
<1> QED BY <1>2, <1>3, <1>4, <1>5, <1>6, <1>7, <1>8 DEF AppNext

\* However the ways to insert follow one another, fail and come too late, an insertion brings
\* about two copies only if the first was one that the server did not see (apps/insert.py).
THEOREM OneCopyCorrect == AppSpec => []OneCopyUnlessUnseen
BY InsertInitInv, InsertNextInv, PTL DEF AppSpec, InsertInv

-----------------------------------------------------------------------------
(* Resource timings.                                                       *)

Timing == [id : Nat, at : Nat]
Cache == [mapped : Seq(Timing), builtAt : Nat, made : BOOLEAN, sorted : [SortOrders -> Seq(Timing)]]

\* What is kept is the beginning of what the page has, unless the page has cleared that.
CacheIsPrefix ==
  cache.made /\ ~emptied =>
    /\ Len(cache.mapped) <= Len(timings)
    /\ \A i \in 1..Len(cache.mapped) : cache.mapped[i] = timings[i]

\* A sorted copy is one of the list that is kept.
CopiesOf(c) == \A o \in SortOrders : c.sorted[o] \in {NoList, Ordered(c.mapped, o)}

TimingsTyped ==
  /\ timingTime \in Nat /\ fetchedCount \in Nat /\ timings \in Seq(Timing) /\ cache \in Cache
  /\ emptied \in BOOLEAN

TimingInv == TimingsTyped /\ CacheIsPrefix /\ CopiesOf(cache) /\ ListIsCurrent

LEMMA TimingInitInv == TimingInit => TimingInv
<1> SUFFICES ASSUME TimingInit PROVE TimingInv
  OBVIOUS
<1>1. /\ NoCache \in Cache /\ ~NoCache.made /\ CopiesOf(NoCache) /\ << >> \in Seq(Timing)
  BY DEF NoCache, NoList, Cache, CopiesOf
<1>2. TimingsTyped
  BY <1>1 DEF TimingInit, TimingsTyped
<1>3. CacheIsPrefix /\ CopiesOf(cache) /\ ListIsCurrent
  BY <1>1 DEF TimingInit, CacheIsPrefix, ListIsCurrent
<1> QED BY <1>2, <1>3 DEF TimingInv

LEMMA OrderedTyped ==
  ASSUME NEW q \in Seq(Timing), NEW o \in SortOrders
  PROVE  Ordered(q, o) \in Seq(Timing)
<1>1. ASSUME NEW i \in 1..Len(q) PROVE Len(q) + 1 - i \in 1..Len(q)
  OBVIOUS
<1>2. \A i \in 1..Len(q) : q[Len(q) + 1 - i] \in Timing
  BY <1>1, ElementOfSeq
<1> DEFINE r == [i \in 1..Len(q) |-> q[Len(q) + 1 - i]]
<1>3. r \in Seq(Timing)
  BY <1>2, IsASeq
<1> QED BY <1>3 DEF Ordered

\* Where the kept list is used it is the list of now.
LEMMA CurrentFacts ==
  ASSUME TimingInv
  PROVE  /\ Current \in Cache /\ CopiesOf(Current) /\ Current.made
         /\ ~(CanUseCache /\ emptied) => Current.mapped = timings
<1>1. CASE CanUseCache
  <2>1. Len(cache.mapped) = Len(timings) /\ cache.made /\ Current = cache
    BY <1>1 DEF CanUseCache, Current
  <2>2. ~emptied => cache.mapped = timings
    <3> SUFFICES ASSUME ~emptied PROVE cache.mapped = timings
      OBVIOUS
    <3>1. \A i \in 1..Len(timings) : cache.mapped[i] = timings[i]
      BY <2>1 DEF TimingInv, CacheIsPrefix
    <3>2. cache.mapped \in Seq(Timing) /\ timings \in Seq(Timing)
      BY DEF TimingInv, TimingsTyped, Cache
    <3> QED BY <2>1, <3>1, <3>2, SeqEqual
  <2> QED BY <1>1, <2>1, <2>2 DEF TimingInv, TimingsTyped
<1>2. CASE ~CanUseCache
  <2>1. Current = Rebuilt
    BY <1>2 DEF Current
  <2>2. << >> \in Seq(Timing)
    OBVIOUS
  <2>3. Rebuilt \in Cache
    BY <2>2 DEF Rebuilt, TimingInv, TimingsTyped, Cache, NoList
  <2> QED BY <1>2, <2>1, <2>3 DEF Rebuilt, CopiesOf
<1> QED BY <1>1, <1>2

LEMMA TimingNextInv ==
  ASSUME TimingInv, [TimingNext]_timingVars
  PROVE  TimingInv'
<1>1. TimingsTyped /\ CacheIsPrefix /\ CopiesOf(cache) /\ ListIsCurrent
  BY DEF TimingInv
<1>2. CASE ResourceLoads
  <2>1. /\ fetchedCount' = fetchedCount + 1 /\ UNCHANGED <<timingTime, cache, emptied, listing>>
    BY <1>2 DEF ResourceLoads
  <2>2. CASE timings' = timings
    BY <1>1, <2>1, <2>2
    DEF TimingInv, TimingsTyped, CacheIsPrefix, CopiesOf, ListIsCurrent
  <2>3. CASE timings' = Append(timings, [id |-> fetchedCount', at |-> timingTime])
    <3> DEFINE e == [id |-> fetchedCount', at |-> timingTime]
    <3>1. e \in Timing
      BY <1>1, <2>1 DEF TimingsTyped, Timing
    <3> HIDE DEF e
    <3>2. /\ timings' \in Seq(Timing) /\ Len(timings') = Len(timings) + 1
          /\ \A i \in 1..Len(timings) : timings'[i] = timings[i]
      BY <1>1, <2>3, <3>1, AppendProperties DEF TimingsTyped, e
    <3>3. CacheIsPrefix'
      <4> SUFFICES ASSUME cache.made, ~emptied
                   PROVE  /\ Len(cache.mapped) <= Len(timings')
                          /\ \A i \in 1..Len(cache.mapped) : cache.mapped[i] = timings'[i]
        BY <2>1 DEF CacheIsPrefix
      <4>1. Len(cache.mapped) \in Nat /\ Len(timings) \in Nat
        BY <1>1 DEF TimingsTyped, Cache
      <4> QED BY <1>1, <3>2, <4>1 DEF CacheIsPrefix
    <3> QED BY <1>1, <2>1, <3>2, <3>3 DEF TimingInv, TimingsTyped, CopiesOf, ListIsCurrent
  <2> QED BY <1>2, <2>2, <2>3 DEF ResourceLoads
<1>3. CASE PageClearsTimings
  <2>1. /\ timings' = << >> /\ emptied' = TRUE /\ UNCHANGED <<timingTime, cache, fetchedCount, listing>>
    BY <1>3 DEF PageClearsTimings
  <2> QED BY <1>1, <2>1 DEF TimingInv, TimingsTyped, CacheIsPrefix, CopiesOf, ListIsCurrent
<1>4. CASE NextPage
  <2>1. /\ timings' = << >> /\ emptied' = FALSE /\ cache' = NoCache
        /\ UNCHANGED <<timingTime, fetchedCount, listing>>
    BY <1>4 DEF NextPage
  <2>2. NoCache \in Cache /\ ~NoCache.made /\ CopiesOf(NoCache) /\ << >> \in Seq(Timing)
    BY DEF NoCache, NoList, Cache, CopiesOf
  <2>3. TimingsTyped'
    BY <1>1, <2>1, <2>2 DEF TimingsTyped
  <2>4. CacheIsPrefix' /\ CopiesOf(cache)' /\ ListIsCurrent'
    BY <1>1, <2>1, <2>2 DEF CacheIsPrefix, CopiesOf, ListIsCurrent
  <2> QED BY <2>3, <2>4 DEF TimingInv
<1>5. CASE TimingTick \/ AskWithoutScript \/ UNCHANGED timingVars
  <2>1. /\ timingTime' \in {timingTime, timingTime + 1}
        /\ UNCHANGED <<timings, cache, fetchedCount, emptied>>
        /\ listing' = listing \/ listing'.items = listing'.due
    BY <1>5 DEF TimingTick, AskWithoutScript, timingVars
  <2>2. TimingsTyped'
    BY <1>1, <2>1 DEF TimingsTyped
  <2>3. CacheIsPrefix' /\ CopiesOf(cache)'
    BY <1>1, <2>1 DEF CacheIsPrefix, CopiesOf
  <2>4. ListIsCurrent'
    BY <1>1, <2>1 DEF ListIsCurrent
  <2> QED BY <2>2, <2>3, <2>4 DEF TimingInv
<1>6. ASSUME NEW order \in SortOrders, NEW after \in 0..MaxTimingTime, AskResources(order, after)
      PROVE  TimingInv'
  <2> DEFINE list == InOrder(Current, order)
  <2>1. /\ cache' = [Current EXCEPT !.sorted[order] = list]
        /\ emptied' = (CanUseCache /\ emptied)
        /\ listing' = [items |-> NewerThan(list, after),
                       due |-> NewerThan(Ordered(timings, order), after), emptied |-> emptied']
        /\ UNCHANGED <<timingTime, timings, fetchedCount>>
    BY <1>6 DEF AskResources
  <2>2. list = Ordered(Current.mapped, order)
    BY CurrentFacts DEF InOrder, CopiesOf
  <2>3. list \in Seq(Timing)
    BY <2>2, CurrentFacts, OrderedTyped DEF Cache
  <2> HIDE DEF list
  <2>4. /\ cache' \in Cache /\ cache'.mapped = Current.mapped /\ cache'.made
        /\ cache'.sorted = [Current.sorted EXCEPT ![order] = list]
    BY <2>1, <2>3, CurrentFacts DEF Cache
  <2>5. CopiesOf(cache)'
    BY <2>2, <2>4, CurrentFacts DEF CopiesOf, Cache
  <2>6. ~emptied' => Current.mapped = timings
    BY <2>1, CurrentFacts
  <2>7. CacheIsPrefix'
    BY <1>1, <2>1, <2>4, <2>6 DEF CacheIsPrefix, TimingsTyped
  <2>8. ListIsCurrent'
    BY <2>1, <2>2, <2>6 DEF ListIsCurrent
  <2> QED BY <1>1, <2>1, <2>4, <2>5, <2>7, <2>8 DEF TimingInv, TimingsTyped
<1> QED BY <1>2, <1>3, <1>4, <1>5, <1>6 DEF TimingNext

\* The list of resources that is answered has every timing the page has, in the order asked
\* for, unless the page cleared its timings after it was made (diagnostics.py).
THEOREM ListCorrect == TimingSpec => []ListIsCurrent
BY TimingInitInv, TimingNextInv, PTL DEF TimingSpec, TimingInv

-----------------------------------------------------------------------------
(* Lists that pass a filter (Filters): the k-th entry that passes is that   *)
(* at the k-th of the indices, and every index is one of them.              *)

LEMMA RankTyped ==
  ASSUME NEW I \in SUBSET Nat, IsFiniteSet(I), NEW i \in I
  PROVE  Rank(I, i) \in 1..Cardinality(I)
<1> DEFINE upto == {j \in I : j <= i}
<1>1. upto \in SUBSET I /\ i \in upto
  OBVIOUS
<1>2. /\ IsFiniteSet(upto) /\ Cardinality(upto) <= Cardinality(I)
      /\ Cardinality(upto) \in Nat /\ Cardinality(I) \in Nat
  BY <1>1, FS_Subset, FS_CardinalityType
<1>3. Cardinality(upto) # 0
  BY <1>1, <1>2, FS_EmptySet
<1> QED BY <1>2, <1>3 DEF Rank

LEMMA RankGrows ==
  ASSUME NEW I \in SUBSET Nat, IsFiniteSet(I), NEW i \in I, NEW m \in I, i < m
  PROVE  Rank(I, i) < Rank(I, m)
<1> DEFINE low == {j \in I : j <= i}
           high == {j \in I : j <= m}
<1>1. low \in SUBSET I /\ high \in SUBSET I /\ m \notin low /\ low \cup {m} \in SUBSET high
  <2>1. \A j \in low : j \in I /\ j < m /\ j \in high
    OBVIOUS
  <2>2. m \in high /\ m \notin low
    OBVIOUS
  <2> QED BY <2>1, <2>2
<1>2. /\ IsFiniteSet(low) /\ IsFiniteSet(high)
      /\ Cardinality(low) \in Nat /\ Cardinality(high) \in Nat
  BY <1>1, FS_Subset, FS_CardinalityType
<1>3. Cardinality(low \cup {m}) = Cardinality(low) + 1
  BY <1>1, <1>2, FS_AddElement
<1>4. Cardinality(low \cup {m}) <= Cardinality(high)
  BY <1>1, <1>2, FS_Subset
<1> QED BY <1>2, <1>3, <1>4 DEF Rank

LEMMA RankReached ==
  ASSUME NEW I \in SUBSET Nat, IsFiniteSet(I), NEW k \in 1..Cardinality(I)
  PROVE  \E i \in I : Rank(I, i) = k
<1> DEFINE n == Cardinality(I)
           f == [i \in I |-> Rank(I, i)]
<1>1. n \in Nat
  BY FS_CardinalityType
<1>2. IsFiniteSet(1..n) /\ Cardinality(1..n) = n
  BY <1>1, FS_Interval
<1>3. f \in [I -> 1..n]
  BY RankTyped
<1>4. ASSUME NEW i \in I, NEW m \in I, f[i] = f[m] PROVE i = m
  <2>1. ~(Rank(I, i) < Rank(I, m)) /\ ~(Rank(I, m) < Rank(I, i))
    BY <1>1, <1>3, <1>4
  <2>2. ~(i < m) /\ ~(m < i)
    BY <2>1, RankGrows
  <2> QED BY <2>2
<1>5. f \in Injection(I, 1..n)
  BY <1>3, <1>4 DEF Injection, IsInjective
<1>6. f \in Surjection(I, 1..n)
  BY <1>2, <1>5, FS_Injection
<1> QED BY <1>6 DEF Surjection

LEMMA FilteredFacts ==
  ASSUME NEW q, NEW I \in SUBSET Nat, IsFiniteSet(I)
  PROVE  /\ Cardinality(I) \in Nat
         /\ DOMAIN Filtered(q, I) = 1..Cardinality(I) /\ Len(Filtered(q, I)) = Cardinality(I)
         /\ \A i \in I : /\ Rank(I, i) \in 1..Cardinality(I)
                         /\ Filtered(q, I)[Rank(I, i)] = q[i]
         /\ \A k \in 1..Cardinality(I) :
              \E i \in I : Rank(I, i) = k /\ Filtered(q, I)[k] = q[i]
<1>1. Cardinality(I) \in Nat
  BY FS_CardinalityType
<1>2. DOMAIN Filtered(q, I) = 1..Cardinality(I)
  BY DEF Filtered
<1>3. Len(Filtered(q, I)) = Cardinality(I)
  BY <1>1, <1>2, LenProperties DEF Filtered
<1>4. \A i, m \in I : Rank(I, i) = Rank(I, m) => i = m
  <2> SUFFICES ASSUME NEW i \in I, NEW m \in I, Rank(I, i) = Rank(I, m) PROVE i = m
    OBVIOUS
  <2>1. Rank(I, i) \in Nat
    BY <1>1, RankTyped
  <2>2. ~(i < m) /\ ~(m < i)
    BY <2>1, RankGrows
  <2> QED BY <2>2
<1>5. ASSUME NEW i \in I
      PROVE  Rank(I, i) \in 1..Cardinality(I) /\ Filtered(q, I)[Rank(I, i)] = q[i]
  <2>1. Rank(I, i) \in 1..Cardinality(I)
    BY RankTyped
  <2>2. (CHOOSE j \in I : Rank(I, j) = Rank(I, i)) = i
    BY <1>4
  <2> QED BY <2>1, <2>2 DEF Filtered
<1>6. ASSUME NEW k \in 1..Cardinality(I)
      PROVE  \E i \in I : Rank(I, i) = k /\ Filtered(q, I)[k] = q[i]
  BY <1>5, RankReached
<1> QED BY <1>1, <1>2, <1>3, <1>5, <1>6

LEMMA FilteredIsList ==
  ASSUME NEW q, NEW I
  PROVE  Filtered(q, I) = [k \in DOMAIN Filtered(q, I) |-> Filtered(q, I)[k]]
  BY DEF Filtered

\* An entry more: it passes as the last one, or not.
LEMMA FilteredGrows ==
  ASSUME NEW S, NEW q \in Seq(S), NEW e \in S, NEW I \in SUBSET (1..Len(q))
  PROVE  /\ Filtered(q, I) \in Seq(S)
         /\ Filtered(Append(q, e), I) = Filtered(q, I)
         /\ Filtered(Append(q, e), I \cup {Len(q) + 1}) = Append(Filtered(q, I), e)
<1> DEFINE n == Len(q) + 1
           J == I \cup {n}
           more == Append(q, e)
           c == Cardinality(I)
           F == Filtered(q, I)
           G == Filtered(more, J)
<1>1. /\ n \in Nat /\ n \notin I /\ Len(q) \in Nat
      /\ \A i \in I : more[i] = q[i] /\ q[i] \in S /\ i < n /\ i \in Nat
      /\ more[n] = e
  OBVIOUS
<1>2. I \in SUBSET Nat /\ J \in SUBSET Nat /\ IsFiniteSet(I)
  <2>1. IsFiniteSet(1..Len(q))
    BY <1>1, FS_Interval
  <2>2. IsFiniteSet(I)
    BY <2>1, FS_Subset
  <2> QED BY <1>1, <2>2
<1>3. IsFiniteSet(J) /\ Cardinality(J) = c + 1
  BY <1>1, <1>2, FS_AddElement
<1>4. /\ c \in Nat /\ DOMAIN F = 1..c /\ Len(F) = c
      /\ \A k \in 1..c : \E i \in I : Rank(I, i) = k /\ F[k] = q[i]
  BY <1>2, FilteredFacts
<1>5. /\ DOMAIN Filtered(more, I) = 1..c
      /\ \A i \in I : Filtered(more, I)[Rank(I, i)] = more[i]
  BY <1>2, FilteredFacts
<1>6. /\ DOMAIN G = 1..(c + 1) /\ Len(G) = c + 1
      /\ \A i \in J : G[Rank(J, i)] = more[i]
  BY <1>2, <1>3, FilteredFacts
<1>7. \A i \in I : Rank(J, i) = Rank(I, i)
  <2> TAKE i \in I
  <2>1. {j \in J : j <= i} = {j \in I : j <= i}
    BY <1>1
  <2> QED BY <2>1 DEF Rank
<1>8. Rank(J, n) = c + 1
  <2>1. \A j \in J : j <= n
    BY <1>1
  <2>2. {j \in J : j <= n} = J
    BY <2>1
  <2> HIDE DEF J, n
  <2> QED BY <1>3, <2>2 DEF Rank
<1>9. F = [k \in 1..c |-> F[k]] /\ Filtered(more, I) = [k \in 1..c |-> Filtered(more, I)[k]]
      /\ G = [k \in 1..(c + 1) |-> G[k]]
  <2>1. F = [k \in DOMAIN F |-> F[k]]
    BY FilteredIsList
  <2>2. Filtered(more, I) = [k \in DOMAIN Filtered(more, I) |-> Filtered(more, I)[k]]
    BY FilteredIsList
  <2>3. G = [k \in DOMAIN G |-> G[k]]
    BY FilteredIsList
  <2> HIDE DEF F, G, c, more, J, n
  <2> QED BY <1>4, <1>5, <1>6, <2>1, <2>2, <2>3
<1> HIDE DEF F, G, c, more, J, n
<1>10. F \in Seq(S)
  <2>1. \A k \in 1..c : F[k] \in S
    BY <1>1, <1>4
  <2>2. F \in [1..c -> S]
    BY <1>9, <2>1
  <2> QED BY <1>4, <2>2
<1>11. Filtered(more, I) = F
  <2>1. ASSUME NEW k \in 1..c PROVE Filtered(more, I)[k] = F[k]
    <3>1. PICK i \in I : Rank(I, i) = k /\ F[k] = q[i]
      BY <1>4
    <3>2. Filtered(more, I)[Rank(I, i)] = more[i] /\ more[i] = q[i]
      BY <1>1, <1>5
    <3> QED BY <3>1, <3>2
  <2> QED BY <1>9, <2>1
<1>12. G = Append(F, e)
  <2>1. /\ Append(F, e) = [k \in 1..(c + 1) |-> Append(F, e)[k]]
        /\ Append(F, e)[c + 1] = e
        /\ \A k \in 1..c : Append(F, e)[k] = F[k]
    <3>1. /\ Append(F, e) \in Seq(S) /\ Len(Append(F, e)) = Len(F) + 1
          /\ Append(F, e)[Len(F) + 1] = e
          /\ \A k \in 1..Len(F) : Append(F, e)[k] = F[k]
      BY <1>10, AppendProperties
    <3>2. \A s \in Seq(S) : s = [k \in 1..Len(s) |-> s[k]]
      OBVIOUS
    <3> QED BY <1>4, <3>1, <3>2
  <2>2. \A k \in 1..c : G[k] = F[k]
    <3> TAKE k \in 1..c
    <3>1. PICK i \in I : Rank(I, i) = k /\ F[k] = q[i]
      BY <1>4
    <3>2. i \in J /\ Rank(J, i) = k
      BY <1>7, <3>1 DEF J
    <3> QED BY <1>1, <1>6, <3>1, <3>2
  <2>3. G[c + 1] = e
    <3>1. n \in J
      BY DEF J
    <3> QED BY <1>1, <1>6, <1>8, <3>1
  <2>4. \A k \in 1..(c + 1) : k \in 1..c \/ k = c + 1
    BY <1>4
  <2>5. \A k \in 1..(c + 1) : G[k] = Append(F, e)[k]
    BY <2>1, <2>2, <2>3, <2>4
  <2> QED BY <1>9, <2>1, <2>5
<1> QED BY <1>10, <1>11, <1>12 DEF F, G, c, more, J, n

-----------------------------------------------------------------------------
(* Telemetry: the buffer. Its entries are numbered in order and carry times *)
(* up to the cursor; those later than what the reader got last are newer    *)
(* than all it was given.                                                   *)

HarTyped ==
  /\ now \in Nat \ {0} /\ cursor \in 0..now /\ readTo \in 0..now /\ pushed \in Nat
  /\ har \in Seq([no : Nat, ts : Nat]) /\ given \in Seq(Nat)

HarOrdered ==
  /\ \A i \in DOMAIN har : har[i].no \in 1..pushed /\ har[i].ts \in 1..cursor
  /\ \A i, j \in DOMAIN har : i < j => har[i].no < har[j].no

GivenOrdered ==
  /\ \A i \in DOMAIN given : given[i] <= pushed
  /\ \A i, j \in DOMAIN given : i < j => given[i] < given[j]

NewAreUngiven ==
  \A i \in DOMAIN har : har[i].ts > readTo => \A j \in DOMAIN given : given[j] < har[i].no

Waiting(n) == \E i \in DOMAIN har : har[i].no = n /\ har[i].ts > readTo

NothingLost == \A n \in 1..pushed : Reported(n) \/ n \in gone \cup blind \/ Waiting(n)

HarInv == HarTyped /\ HarOrdered /\ GivenOrdered /\ NewAreUngiven /\ NothingLost

LEMMA NewestFacts ==
  ASSUME NEW S, NEW q \in Seq(S), NEW n \in Nat \ {0}
  PROVE  /\ Newest(q, n) \in Seq(S)
         /\ \E d \in 0..Len(q) :
              /\ Len(Newest(q, n)) = Len(q) - d /\ (q # <<>> => d < Len(q))
              /\ \A i \in 1..(Len(q) - d) : Newest(q, n)[i] = q[i + d]
<1>1. CASE Len(q) <= n
  BY <1>1 DEF Newest
<1>2. CASE Len(q) > n
  <2> DEFINE d == Len(q) - n
  <2>1. /\ Newest(q, n) = SubSeq(q, d + 1, Len(q)) /\ d \in 0..Len(q) /\ d < Len(q)
        /\ d + 1 \in 1..Len(q) /\ Len(q) - d = n
    BY <1>2 DEF Newest
  <2>2. /\ SubSeq(q, d + 1, Len(q)) \in Seq(S)
        /\ Len(SubSeq(q, d + 1, Len(q))) = Len(q) - d
        /\ \A i \in 1..(Len(q) - d) : SubSeq(q, d + 1, Len(q))[i] = q[i + d]
    BY <2>1
  <2> QED BY <2>1, <2>2
<1> QED BY <1>1, <1>2

LEMMA HarInit == TelemetryInit => HarInv
  BY DEF TelemetryInit, HarInv, HarTyped, HarOrdered, GivenOrdered, NewAreUngiven, NothingLost

LEMMA HarRests ==
  ASSUME HarInv, UNCHANGED <<har, pushed, gone, blind, readTo, given>>,
         now' \in Nat, now' >= now, cursor' \in {cursor, now}
  PROVE  HarInv'
<1>1. HarTyped'
  BY DEF HarInv, HarTyped
<1>2. HarOrdered'
  <2>1. cursor <= cursor' /\ cursor \in Nat /\ cursor' \in Nat
    BY DEF HarInv, HarTyped
  <2> QED BY <2>1 DEF HarInv, HarTyped, HarOrdered
<1>3. GivenOrdered' /\ NewAreUngiven' /\ NothingLost'
  BY DEF HarInv, GivenOrdered, NewAreUngiven, NothingLost, Waiting, Reported
<1> QED BY <1>1, <1>2, <1>3 DEF HarInv

LEMMA HarCleared ==
  ASSUME HarInv, har' = <<>>, gone' = gone \cup {n \in Left(har, <<>>) : ~Reported(n)},
         UNCHANGED <<now, cursor, pushed, blind, readTo, given>>
  PROVE  HarInv'
<1>1. HarTyped' /\ HarOrdered' /\ GivenOrdered' /\ NewAreUngiven'
  BY DEF HarInv, HarTyped, HarOrdered, GivenOrdered, NewAreUngiven
<1>2. ASSUME NEW n \in 1..pushed PROVE Reported(n)' \/ n \in gone' \cup blind'
  <2>1. CASE Waiting(n)
    <3>1. n \in Left(har, <<>>)
      BY <2>1 DEF Waiting, Left
    <3> QED BY <3>1 DEF Reported
  <2>2. CASE ~Waiting(n)
    BY <2>2 DEF HarInv, NothingLost, Reported
  <2> QED BY <2>1, <2>2
<1> QED BY <1>1, <1>2 DEF HarInv, NothingLost

LEMMA HarPushed ==
  ASSUME HarInv, PushHar, cursor' = now, UNCHANGED <<now, readTo, given>>
  PROVE  HarInv'
<1> DEFINE new == [no |-> pushed + 1, ts |-> now]
           all == Append(har, new)
<1>1. /\ har' = Newest(all, MaxBuffer) /\ pushed' = pushed + 1
      /\ gone' = gone \cup {n \in Left(all, har') : ~Reported(n)}
      /\ blind' = IF now = readTo THEN blind \cup {pushed + 1} ELSE blind
  BY DEF PushHar
<1>2. /\ now \in Nat \ {0} /\ cursor \in 0..now /\ readTo \in 0..now /\ pushed \in Nat
      /\ har \in Seq([no : Nat, ts : Nat]) /\ given \in Seq(Nat) /\ Len(har) \in Nat
      /\ DOMAIN har = 1..Len(har)
  BY DEF HarInv, HarTyped
<1>3. /\ all \in Seq([no : Nat, ts : Nat]) /\ Len(all) = Len(har) + 1
      /\ \A i \in 1..Len(har) : all[i] = har[i]
      /\ all[Len(har) + 1] = new
      /\ new.no = pushed + 1 /\ new.ts = now
  BY <1>2
<1> HIDE DEF all, new
<1>4. PICK d \in 0..Len(all) :
        /\ Len(har') = Len(all) - d /\ d < Len(all)
        /\ \A i \in 1..(Len(all) - d) : har'[i] = all[i + d]
  <2>1. all # <<>>
    BY <1>2, <1>3
  <2>2. MaxBuffer \in Nat \ {0}
    BY TelemetryAssumption
  <2>3. \E d \in 0..Len(all) :
          /\ Len(Newest(all, MaxBuffer)) = Len(all) - d /\ (all # <<>> => d < Len(all))
          /\ \A i \in 1..(Len(all) - d) : Newest(all, MaxBuffer)[i] = all[i + d]
    <3>1. all \in Seq([no : Nat, ts : Nat])
      BY <1>3
    <3> QED BY ONLY <2>2, <3>1, NewestFacts, ZenonT(60)
  <2>4. har' = Newest(all, MaxBuffer)
    BY <1>1 DEF all, new
  <2> QED BY ONLY <2>1, <2>3, <2>4
<1>5. har' \in Seq([no : Nat, ts : Nat])
  <2>1. MaxBuffer \in Nat \ {0}
    BY TelemetryAssumption
  <2>2. Newest(all, MaxBuffer) \in Seq([no : Nat, ts : Nat])
    BY <1>3, <2>1, NewestFacts
  <2> QED BY <1>1, <2>2 DEF all, new
<1>6. /\ \A i \in 1..Len(all) : all[i].no \in 1..(pushed + 1) /\ all[i].ts \in 1..now
      /\ \A i, j \in 1..Len(all) : i < j => all[i].no < all[j].no
  <2>1. \A i \in 1..Len(har) : har[i].no \in 1..pushed /\ har[i].ts \in 1..now
    <3>1. \A i \in DOMAIN har : har[i].no \in 1..pushed /\ har[i].ts \in 1..cursor
      BY DEF HarInv, HarOrdered
    <3>2. \A x \in 1..cursor : x \in 1..now
      BY <1>2
    <3>3. DOMAIN har = 1..Len(har)
      BY <1>2
    <3> QED BY ONLY <3>1, <3>2, <3>3
  <2>2. new.no = pushed + 1 /\ new.ts = now
    BY <1>3
  <2>3. \A i, j \in 1..Len(har) : i < j => har[i].no < har[j].no
    BY <1>2 DEF HarInv, HarOrdered
  <2>4. ASSUME NEW i \in 1..Len(all)
        PROVE  all[i].no \in 1..(pushed + 1) /\ all[i].ts \in 1..now
    <3>1. CASE i \in 1..Len(har)
      <4>1. all[i] = har[i] /\ har[i].no \in 1..pushed /\ har[i].ts \in 1..now
        BY <1>3, <2>1, <3>1
      <4> QED BY <1>2, <4>1
    <3>2. CASE i = Len(har) + 1
      BY <1>2, <1>3, <2>2, <3>2
    <3> QED BY <1>2, <1>3, <3>1, <3>2
  <2>5. ASSUME NEW i \in 1..Len(all), NEW j \in 1..Len(all), i < j
        PROVE  all[i].no < all[j].no
    <3>1. i \in 1..Len(har) /\ all[i] = har[i] /\ har[i].no <= pushed
      <4>1. i \in 1..Len(har)
        BY <1>2, <1>3, <2>5
      <4>2. all[i] = har[i] /\ har[i].no \in 1..pushed
        BY <1>3, <2>1, <4>1
      <4> QED BY <1>2, <4>1, <4>2
    <3>2. CASE j \in 1..Len(har)
      BY <1>3, <2>3, <2>5, <3>1, <3>2
    <3>3. CASE j = Len(har) + 1
      <4>1. all[j].no = pushed + 1 /\ har[i].no \in Nat
        BY <1>3, <2>1, <2>2, <3>1, <3>3
      <4> QED BY <1>2, <3>1, <4>1
    <3> QED BY <1>2, <1>3, <3>2, <3>3
  <2> QED BY <2>4, <2>5
<1>7. \A i \in DOMAIN har' : i + d \in 1..Len(all) /\ har'[i] = all[i + d]
  <2>1. DOMAIN har' = 1..(Len(all) - d) /\ Len(all) \in Nat
    BY <1>2, <1>3, <1>4, <1>5
  <2> TAKE i \in DOMAIN har'
  <2>2. i \in 1..(Len(all) - d)
    BY <2>1
  <2>3. har'[i] = all[i + d]
    BY <1>4, <2>2
  <2>4. i + d \in 1..Len(all)
    BY <2>1, <2>2
  <2> QED BY <2>3, <2>4
<1>8. HarTyped'
  BY <1>1, <1>2, <1>5 DEF HarTyped
<1>9. HarOrdered'
  <2>1. ASSUME NEW i \in DOMAIN har' PROVE har'[i].no \in 1..pushed' /\ har'[i].ts \in 1..cursor'
    BY <1>1, <1>6, <1>7
  <2>2. ASSUME NEW i \in DOMAIN har', NEW j \in DOMAIN har', i < j PROVE har'[i].no < har'[j].no
    <3>1. i + d \in 1..Len(all) /\ j + d \in 1..Len(all) /\ i + d < j + d
      BY <1>3, <1>4, <1>5, <1>7, <2>2
    <3> QED BY <1>6, <1>7, <3>1
  <2> QED BY <2>1, <2>2 DEF HarOrdered
<1>10. GivenOrdered'
  <2>1. \A i \in DOMAIN given : given[i] <= pushed /\ given[i] \in Nat
    BY <1>2 DEF HarInv, GivenOrdered
  <2> QED BY <1>1, <1>2, <2>1 DEF HarInv, GivenOrdered
<1>11. NewAreUngiven'
  <2> SUFFICES ASSUME NEW i \in DOMAIN har', har'[i].ts > readTo, NEW j \in DOMAIN given
               PROVE  given[j] < har'[i].no
    BY DEF NewAreUngiven
  <2>1. i + d \in 1..Len(all) /\ har'[i] = all[i + d]
    BY <1>7
  <2>2. CASE i + d \in 1..Len(har)
    <3>1. har'[i] = har[i + d]
      BY <1>3, <2>1, <2>2
    <3>2. i + d \in DOMAIN har
      BY <1>2, <2>2
    <3> QED BY <3>1, <3>2 DEF HarInv, NewAreUngiven
  <2>3. CASE i + d = Len(har) + 1
    <3>1. har'[i].no = pushed + 1
      BY <1>3, <2>1, <2>3
    <3>2. given[j] <= pushed /\ given[j] \in Nat
      BY <1>2 DEF HarInv, GivenOrdered
    <3> QED BY <1>2, <3>1, <3>2
  <2> QED BY <1>2, <1>3, <2>1, <2>2, <2>3
<1>12. NothingLost'
  <2> SUFFICES ASSUME NEW n \in 1..(pushed + 1)
               PROVE  Reported(n) \/ n \in gone' \cup blind' \/ Waiting(n)'
    BY <1>1 DEF NothingLost, Reported
  <2>1. ASSUME NEW i \in 1..Len(all), all[i].no = n, all[i].ts > readTo
        PROVE  Reported(n) \/ n \in gone' \/ Waiting(n)'
    <3>1. CASE \E k \in DOMAIN har' : har'[k].no = n
      <4>1. PICK k \in DOMAIN har' : har'[k].no = n
        BY <3>1
      <4>2. k + d \in 1..Len(all) /\ har'[k] = all[k + d] /\ k + d \in Nat /\ i \in Nat
        BY <1>7, <1>2, <1>3
      <4>3. ~(k + d < i) /\ ~(i < k + d)
        <5>1. all[k + d].no = n /\ n \in Nat /\ all[i].no = n
          BY <1>2, <2>1, <4>1, <4>2
        <5>2. ~(n < n)
          BY <5>1
        <5> QED BY <1>6, <4>2, <5>1, <5>2
      <4>4. k + d = i
        BY <4>2, <4>3
      <4> QED BY <2>1, <4>1, <4>2, <4>4 DEF Waiting
    <3>2. CASE ~\E k \in DOMAIN har' : har'[k].no = n
      <4>1. n \in Left(all, har')
        <5>1. i \in DOMAIN all
          BY <1>3
        <5> QED BY <2>1, <3>2, <5>1 DEF Left
      <4> QED BY <1>1, <4>1
    <3> QED BY <3>1, <3>2
  <2>2. CASE n = pushed + 1
    <3>1. CASE now = readTo
      BY <1>1, <2>2, <3>1
    <3>2. CASE now # readTo
      <4>1. now > readTo /\ Len(har) + 1 \in 1..Len(all)
        BY <1>2, <1>3, <3>2
      <4>2. all[Len(har) + 1].no = n /\ all[Len(har) + 1].ts > readTo
        BY <1>3, <2>2, <4>1
      <4> QED BY <2>1, <4>1, <4>2
    <3> QED BY <3>1, <3>2
  <2>3. CASE n \in 1..pushed
    <3>1. CASE Waiting(n)
      <4>1. PICK i \in DOMAIN har : har[i].no = n /\ har[i].ts > readTo
        BY <3>1 DEF Waiting
      <4>2. i \in 1..Len(har)
        BY <1>2
      <4>3. i \in 1..Len(all)
        BY <1>2, <1>3, <4>2
      <4>4. all[i] = har[i]
        BY <1>3, <4>2
      <4> QED BY <2>1, <4>1, <4>3, <4>4
    <3>2. CASE ~Waiting(n)
      BY <1>1, <2>3, <3>2 DEF HarInv, NothingLost
    <3> QED BY <3>1, <3>2
  <2> QED BY <1>2, <2>2, <2>3
<1> QED BY <1>8, <1>9, <1>10, <1>11, <1>12 DEF HarInv

\* What the reader gets is all that is new to it, in order.
LEMMA HarGiven ==
  ASSUME HarInv, NEW clear, HarLite(clear)
  PROVE  HarInv'
<1> DEFINE later == {i \in DOMAIN har : har[i].ts > readTo}
           delta == [i \in DOMAIN Since |-> Since[i].no]
<1>1. /\ given' = given \o delta /\ readTo' = CursorNow
      /\ UNCHANGED <<now, har, cursor, pushed, gone, blind>>
  BY DEF HarLite, bufferVars
<1>2. /\ now \in Nat \ {0} /\ cursor \in 0..now /\ readTo \in 0..now /\ pushed \in Nat
      /\ har \in Seq([no : Nat, ts : Nat]) /\ given \in Seq(Nat) /\ Len(har) \in Nat
      /\ DOMAIN har = 1..Len(har)
  BY DEF HarInv, HarTyped
<1>3. later \in SUBSET Nat /\ IsFiniteSet(later)
  <2>1. later \in SUBSET (1..Len(har)) /\ IsFiniteSet(1..Len(har))
    BY <1>2, FS_Interval
  <2> QED BY <2>1, FS_Subset
<1>4. /\ Cardinality(later) \in Nat
      /\ DOMAIN Since = 1..Cardinality(later)
      /\ \A i \in later : Rank(later, i) \in 1..Cardinality(later) /\ Since[Rank(later, i)] = har[i]
      /\ \A k \in 1..Cardinality(later) : \E i \in later : Rank(later, i) = k /\ Since[k] = har[i]
  BY <1>3, FilteredFacts DEF Since
<1> DEFINE n == Cardinality(later)
<1>5. \A k \in 1..n : \E i \in later : Rank(later, i) = k /\ delta[k] = har[i].no
  BY <1>4
<1>6. \A i \in later : Rank(later, i) \in 1..n /\ delta[Rank(later, i)] = har[i].no
  BY <1>4
<1>7. DOMAIN delta = 1..n /\ n \in Nat
  BY <1>4
<1>8. \A i \in later : har[i].no \in 1..pushed
  BY DEF HarInv, HarOrdered
<1>9. delta \in [1..n -> Nat]
  <2>1. ASSUME NEW k \in 1..n PROVE delta[k] \in Nat
    <3>1. PICK i \in later : delta[k] = har[i].no
      BY <1>5
    <3>2. har[i].no \in 1..pushed
      BY <1>8
    <3> HIDE DEF delta, n
    <3> QED BY <1>2, <3>1, <3>2
  <2> QED BY <1>7, <2>1
<1> HIDE DEF delta, n
<1>10. delta \in Seq(Nat) /\ Len(delta) = n
  BY <1>7, <1>9
<1>11. /\ given' \in Seq(Nat) /\ Len(given') = Len(given) + n
       /\ \A i \in 1..Len(given) : given'[i] = given[i]
       /\ \A k \in 1..n : given'[Len(given) + k] = delta[k]
  <2>1. \A s, t \in Seq(Nat) :
          /\ s \o t \in Seq(Nat) /\ Len(s \o t) = Len(s) + Len(t)
          /\ \A i \in 1..Len(s) : (s \o t)[i] = s[i]
          /\ \A k \in 1..Len(t) : (s \o t)[Len(s) + k] = t[k]
    OBVIOUS
  <2> QED BY <1>1, <1>2, <1>10, <2>1 DEF delta
<1>12. Len(given) \in Nat /\ DOMAIN given = 1..Len(given) /\ DOMAIN given' = 1..(Len(given) + n)
  BY <1>2, <1>7, <1>11
<1>13. ASSUME NEW k \in DOMAIN given' 
       PROVE  \/ k \in 1..Len(given) /\ given'[k] = given[k]
              \/ \E j \in 1..n : k = Len(given) + j /\ given'[k] = delta[j]
  <2>1. CASE k <= Len(given)
    BY <1>11, <1>12, <2>1
  <2>2. CASE k > Len(given)
    <3>1. k - Len(given) \in 1..n /\ k = Len(given) + (k - Len(given))
      BY <1>7, <1>12, <2>2
    <3> QED BY <1>11, <3>1
  <2> QED BY <1>7, <1>12, <2>1, <2>2
<1>14. CursorNow \in 0..now /\ cursor <= CursorNow
  BY <1>2 DEF CursorNow
<1>15. HarTyped'
  BY <1>1, <1>2, <1>11, <1>14 DEF HarTyped
<1>16. HarOrdered'
  BY <1>1 DEF HarInv, HarOrdered
<1>17. NewAreUngiven'
  <2>1. \A i \in DOMAIN har : ~(har[i].ts > CursorNow)
    <3> TAKE i \in DOMAIN har
    <3>1. har[i].ts \in 1..cursor
      BY DEF HarInv, HarOrdered
    <3> QED BY <1>2, <1>14, <3>1
  <2> QED BY <1>1, <2>1 DEF NewAreUngiven
<1>18. \A i, j \in 1..n : i < j => delta[i] < delta[j]
  <2> SUFFICES ASSUME NEW i \in 1..n, NEW j \in 1..n, i < j PROVE delta[i] < delta[j]
    OBVIOUS
  <2>1. PICK a \in later : Rank(later, a) = i /\ delta[i] = har[a].no
    BY <1>5
  <2>2. PICK b \in later : Rank(later, b) = j /\ delta[j] = har[b].no
    BY <1>5
  <2>3. ~(b < a) /\ b # a
    <3>1. b # a
      BY <1>7, <2>1, <2>2
    <3>2. b < a => j < i
      BY <1>3, <2>1, <2>2, RankGrows
    <3> QED BY <1>7, <3>1, <3>2
  <2>4. a < b /\ a \in DOMAIN har /\ b \in DOMAIN har
    BY <1>2, <2>3
  <2> QED BY <2>1, <2>2, <2>4 DEF HarInv, HarOrdered
<1>19. GivenOrdered'
  <2>1. ASSUME NEW j \in 1..n PROVE delta[j] \in 1..pushed /\ \A i \in DOMAIN given : given[i] < delta[j]
    <3>1. PICK a \in later : delta[j] = har[a].no
      BY <1>5
    <3> QED BY <1>8, <3>1 DEF HarInv, NewAreUngiven
  <2>2. ASSUME NEW i \in DOMAIN given' PROVE given'[i] <= pushed
    <3>1. CASE i \in 1..Len(given) /\ given'[i] = given[i]
      BY <1>12, <3>1 DEF HarInv, GivenOrdered
    <3>2. CASE \E j \in 1..n : given'[i] = delta[j]
      BY <1>2, <2>1, <3>2
    <3> QED BY <1>13, <3>1, <3>2
  <2>3. ASSUME NEW i \in DOMAIN given', NEW j \in DOMAIN given', i < j PROVE given'[i] < given'[j]
    <3>1. CASE j \in 1..Len(given) /\ given'[j] = given[j]
      <4>1. i \in 1..Len(given) /\ given'[i] = given[i]
        BY <1>7, <1>11, <1>12, <2>3, <3>1
      <4> QED BY <1>12, <2>3, <3>1, <4>1 DEF HarInv, GivenOrdered
    <3>2. CASE \E m \in 1..n : j = Len(given) + m /\ given'[j] = delta[m]
      <4>1. PICK m \in 1..n : j = Len(given) + m /\ given'[j] = delta[m]
        BY <3>2
      <4>2. CASE i \in 1..Len(given) /\ given'[i] = given[i]
        BY <1>12, <2>1, <4>1, <4>2
      <4>3. CASE \E l \in 1..n : i = Len(given) + l /\ given'[i] = delta[l]
        <5>1. PICK l \in 1..n : i = Len(given) + l /\ given'[i] = delta[l]
          BY <4>3
        <5>2. l < m
          BY <1>7, <1>12, <2>3, <4>1, <5>1
        <5> QED BY <1>18, <4>1, <5>1, <5>2
      <4> QED BY <1>13, <4>2, <4>3
    <3> QED BY <1>13, <3>1, <3>2
  <2> QED BY <1>1, <2>2, <2>3 DEF GivenOrdered
<1>20. NothingLost'
  <2> SUFFICES ASSUME NEW m \in 1..pushed PROVE Reported(m)' \/ m \in gone \cup blind
    BY <1>1 DEF NothingLost
  <2>1. CASE Reported(m)
    BY <1>11, <1>12, <1>7, <2>1 DEF Reported
  <2>2. CASE Waiting(m)
    <3>1. PICK i \in later : har[i].no = m
      BY <2>2 DEF Waiting
    <3>2. Rank(later, i) \in 1..n /\ delta[Rank(later, i)] = m
      BY <1>6, <3>1
    <3>3. Len(given) + Rank(later, i) \in DOMAIN given'
          /\ given'[Len(given) + Rank(later, i)] = m
      BY <1>7, <1>11, <1>12, <3>2
    <3> QED BY <3>3 DEF Reported
  <2> QED BY <2>1, <2>2 DEF HarInv, NothingLost
<1> QED BY <1>15, <1>16, <1>17, <1>19, <1>20 DEF HarInv

LEMMA HarNext == HarInv /\ [TelemetryNext]_telemetryTabVars => HarInv'
<1> SUFFICES ASSUME HarInv, [TelemetryNext]_telemetryTabVars PROVE HarInv'
  OBVIOUS
<1>1. now \in Nat /\ cursor \in Nat
  BY DEF HarInv, HarTyped
<1>2. CASE UNCHANGED telemetryTabVars
  BY <1>1, <1>2, HarRests DEF telemetryTabVars, bufferVars, readerVars
<1>3. ASSUME NEW r \in Requests, RequestWillBeSent(r) \/ ResponseReceived(r)
      PROVE  HarInv'
  <2>1. UNCHANGED <<har, pushed, gone, blind, readTo, given, now>> /\ cursor' \in {cursor, now}
    BY <1>3 DEF RequestWillBeSent, ResponseReceived, Tick, NoPush, Misses, Quiet, bufferVars,
                readerVars
  <2> QED BY <1>1, <2>1, HarRests
<1>4. ASSUME NEW r \in Requests, NEW fails \in BOOLEAN, RequestEnds(r, fails)
      PROVE  HarInv'
  <2>1. UNCHANGED <<readTo, given, now>>
    BY <1>4 DEF RequestEnds, Quiet, readerVars
  <2>2. \/ cursor' = now /\ PushHar
        \/ UNCHANGED <<har, pushed, gone, blind>> /\ cursor' \in {cursor, now}
    BY <1>4 DEF RequestEnds, Tick, NoPush, Misses, bufferVars
  <2> QED BY <1>1, <2>1, <2>2, HarRests, HarPushed
<1>5. CASE OtherEvent \/ TimePasses
  <2>1. /\ UNCHANGED <<har, pushed, gone, blind, readTo, given>> /\ cursor' \in {cursor, now}
        /\ now' \in {now, now + 1}
    BY <1>5 DEF OtherEvent, TimePasses, Tick, NoPush, Quiet, bufferVars, readerVars
  <2> QED BY <1>1, <2>1, HarRests
<1>6. CASE ClearHarLite \/ ClearTelemetry
  BY <1>6, HarCleared DEF ClearHarLite, ClearTelemetry, readerVars
<1>7. CASE TraceLists \/ \E clear \in BOOLEAN : TraceReports(clear)
  <2>1. UNCHANGED <<har, pushed, gone, blind, readTo, given, now, cursor>>
    BY <1>7 DEF TraceLists, TraceReports, bufferVars
  <2> QED BY <1>1, <2>1, HarRests
<1>8. CASE \E clear \in BOOLEAN : HarLite(clear)
  BY <1>8, HarGiven
<1> QED BY <1>2, <1>3, <1>4, <1>5, <1>6, <1>7, <1>8 DEF TelemetryNext

\* A reader that passes every cursor on is given each entry of harLite once, in
\* order, but for those that left the buffer or came in the millisecond of a cursor.
THEOREM DeltasCorrect == TelemetrySpec => []DeltasAreComplete
<1>1. HarInv => DeltasAreComplete
  BY DEF HarInv, GivenOrdered, NothingLost, Waiting, DeltasAreComplete
<1> QED BY <1>1, HarInit, HarNext, PTL DEF TelemetrySpec

-----------------------------------------------------------------------------
(* Telemetry: the maps of requests. What they have of a request whose       *)
(* events were all heard is of its last hop; a request ends once, so that   *)
(* the finished map has one record of it, and for ever the same.            *)

NetRecord == [id : Requests, hop : Nat, status : Nat]

MapsTyped ==
  /\ page \in [Requests -> [stage : Stage, hop : Nat]]
  /\ req \in Seq(NetRecord) /\ reqDone \in Seq(NetRecord)

HopNow(m) == m.id \notin deaf => m.hop = page[m.id].hop /\ m.status \in {0, m.hop}

OfOneRequest(m) ==
  m.id \notin deaf => m.hop \in {0, page[m.id].hop} /\ m.status \in {0, m.hop}

FinishedOnce ==
  /\ \A i \in DOMAIN reqDone : page[reqDone[i].id].stage = "over"
  /\ \A i, j \in DOMAIN reqDone : reqDone[i].id = reqDone[j].id => i = j

TracedStays ==
  \A m \in tracing :
    /\ m \in NetRecord /\ page[m.id].stage = "over"
    /\ \A i \in DOMAIN reqDone : reqDone[i].id = m.id => reqDone[i] = m

RecordsInv ==
  /\ MapsTyped /\ FinishedOnce /\ TracedStays
  /\ \A i \in DOMAIN req : HopNow(req[i])
  /\ \A i \in DOMAIN reqDone : OfOneRequest(reqDone[i])

LEMMA PutFacts ==
  ASSUME NEW map \in Seq(NetRecord), NEW meta \in NetRecord
  PROVE  /\ Put(map, meta) \in Seq(NetRecord)
         /\ \A i \in DOMAIN Put(map, meta) :
              \/ Put(map, meta)[i] = meta
              \/ i \in DOMAIN map /\ Put(map, meta)[i] = map[i] /\ map[i].id # meta.id
<1>1. DOMAIN map = 1..Len(map) /\ Len(map) \in Nat /\ \A i \in 1..Len(map) : map[i] \in NetRecord
  OBVIOUS
<1>2. CASE Place(map, meta.id) = {}
  <2>1. Put(map, meta) = Append(map, meta)
    BY <1>2 DEF Put
  <2>2. /\ Append(map, meta) \in Seq(NetRecord) /\ Len(Append(map, meta)) = Len(map) + 1
        /\ \A i \in 1..Len(map) : Append(map, meta)[i] = map[i]
        /\ Append(map, meta)[Len(map) + 1] = meta
    OBVIOUS
  <2>3. \A i \in DOMAIN map : map[i].id # meta.id
    BY <1>2 DEF Place
  <2>4. DOMAIN Append(map, meta) = 1..(Len(map) + 1)
    BY <2>2
  <2>5. \A i \in 1..(Len(map) + 1) : i \in 1..Len(map) \/ i = Len(map) + 1
    BY <1>1
  <2> QED BY <1>1, <2>1, <2>2, <2>3, <2>4, <2>5
<1>3. CASE Place(map, meta.id) # {}
  <2> DEFINE f == [i \in DOMAIN map |-> IF map[i].id = meta.id THEN meta ELSE map[i]]
  <2>1. Put(map, meta) = f
    BY <1>3 DEF Put
  <2>2. f \in [1..Len(map) -> NetRecord]
    BY <1>1
  <2>3. f \in Seq(NetRecord)
    BY <1>1, <2>2
  <2> QED BY <2>1, <2>3
<1> QED BY <1>2, <1>3

\* A map that got a record, and no more records than it may have.
LEMMA RememberedFacts ==
  ASSUME NEW map \in Seq(NetRecord), NEW meta \in NetRecord
  PROVE  /\ Newest(Put(map, meta), MaxRequestMap) \in Seq(NetRecord)
         /\ \A i \in DOMAIN Newest(Put(map, meta), MaxRequestMap) :
              \/ Newest(Put(map, meta), MaxRequestMap)[i] = meta
              \/ \E j \in DOMAIN map :
                   /\ Newest(Put(map, meta), MaxRequestMap)[i] = map[j]
                   /\ map[j].id # meta.id
<1> DEFINE put == Put(map, meta)
           new == Newest(put, MaxRequestMap)
<1>1. /\ put \in Seq(NetRecord)
      /\ \A i \in DOMAIN put : \/ put[i] = meta
                               \/ i \in DOMAIN map /\ put[i] = map[i] /\ map[i].id # meta.id
  BY PutFacts
<1>2. MaxRequestMap \in Nat \ {0}
  BY TelemetryAssumption
<1> HIDE DEF put
<1>3. new \in Seq(NetRecord)
  BY <1>1, <1>2, NewestFacts
<1>4. PICK d \in 0..Len(put) : /\ Len(new) = Len(put) - d
                               /\ \A i \in 1..(Len(put) - d) : new[i] = put[i + d]
  <2>1. \E d \in 0..Len(put) :
              /\ Len(new) = Len(put) - d /\ (put # <<>> => d < Len(put))
              /\ \A i \in 1..(Len(put) - d) : new[i] = put[i + d]
    BY <1>1, <1>2, NewestFacts
  <2> QED BY <2>1
<1> HIDE DEF new
<1>5. ASSUME NEW i \in DOMAIN new PROVE i + d \in DOMAIN put /\ new[i] = put[i + d]
  <2>1. i \in 1..(Len(put) - d) /\ Len(put) \in Nat /\ DOMAIN put = 1..Len(put)
    BY <1>1, <1>3, <1>4
  <2>2. i + d \in 1..Len(put)
    BY <2>1
  <2> QED BY <1>4, <2>1, <2>2
<1>6. \A i \in DOMAIN new :
        new[i] = meta \/ \E j \in DOMAIN map : new[i] = map[j] /\ map[j].id # meta.id
  BY <1>1, <1>5
<1> QED BY <1>3, <1>6 DEF new, put

\* One record more of a request that had none: still one of each.
LEMMA RememberedOnce ==
  ASSUME NEW map \in Seq(NetRecord), NEW meta \in NetRecord,
         \A i, j \in DOMAIN map : map[i].id = map[j].id => i = j,
         \A i \in DOMAIN map : map[i].id # meta.id
  PROVE  \A i, j \in DOMAIN Newest(Put(map, meta), MaxRequestMap) :
           Newest(Put(map, meta), MaxRequestMap)[i].id = Newest(Put(map, meta), MaxRequestMap)[j].id
             => i = j
<1> DEFINE put == Append(map, meta)
           new == Newest(put, MaxRequestMap)
<1>1. Put(map, meta) = put
  BY DEF Put, Place
<1>2. /\ put \in Seq(NetRecord) /\ Len(put) = Len(map) + 1 /\ Len(map) \in Nat
      /\ \A i \in 1..Len(map) : put[i] = map[i]
      /\ put[Len(map) + 1] = meta /\ DOMAIN map = 1..Len(map)
  OBVIOUS
<1> HIDE DEF put
<1>3. ASSUME NEW i \in 1..Len(put), NEW j \in 1..Len(put), put[i].id = put[j].id PROVE i = j
  <2>1. i \in 1..Len(map) \/ i = Len(map) + 1
    BY <1>2
  <2>2. j \in 1..Len(map) \/ j = Len(map) + 1
    BY <1>2
  <2> QED BY <1>2, <1>3, <2>1, <2>2
<1>4. MaxRequestMap \in Nat \ {0}
  BY TelemetryAssumption
<1>5. new \in Seq(NetRecord)
  BY <1>2, <1>4, NewestFacts
<1>6. PICK d \in 0..Len(put) : /\ Len(new) = Len(put) - d
                               /\ \A i \in 1..(Len(put) - d) : new[i] = put[i + d]
  <2>1. \E d \in 0..Len(put) :
              /\ Len(new) = Len(put) - d /\ (put # <<>> => d < Len(put))
              /\ \A i \in 1..(Len(put) - d) : new[i] = put[i + d]
    <3>1. put \in Seq(NetRecord)
      BY <1>2
    <3> QED BY <1>4, <3>1, NewestFacts
  <2> QED BY <2>1
<1> HIDE DEF new
<1>7. \A i \in DOMAIN new : i \in Nat /\ i + d \in 1..Len(put) /\ new[i] = put[i + d]
  <2> TAKE i \in DOMAIN new
  <2>1. i \in 1..(Len(put) - d) /\ Len(put) \in Nat
    BY <1>2, <1>5, <1>6
  <2>2. i \in Nat /\ i + d \in 1..Len(put)
    BY <2>1
  <2> QED BY <1>6, <2>1, <2>2
<1>8. \A i, j \in DOMAIN new : new[i].id = new[j].id => i = j
  <2> SUFFICES ASSUME NEW i \in DOMAIN new, NEW j \in DOMAIN new, new[i].id = new[j].id
               PROVE  i = j
    OBVIOUS
  <2>1. i + d = j + d /\ i \in Nat /\ j \in Nat
    BY <1>3, <1>7
  <2> QED BY <2>1
<1> QED BY <1>1, <1>8 DEF new

LEMMA WithoutFacts ==
  ASSUME NEW map \in Seq(NetRecord), NEW r
  PROVE  /\ Without(map, r) \in Seq(NetRecord)
         /\ \A k \in DOMAIN Without(map, r) : \E i \in DOMAIN map : Without(map, r)[k] = map[i]
<1> DEFINE rest == DOMAIN map \ Place(map, r)
<1>1. rest \in SUBSET (1..Len(map)) /\ Len(map) \in Nat /\ \A i \in rest : map[i] \in NetRecord
  BY DEF Place
<1>2. rest \in SUBSET Nat /\ IsFiniteSet(rest)
  <2>1. IsFiniteSet(1..Len(map))
    BY <1>1, FS_Interval
  <2> QED BY <1>1, <2>1, FS_Subset
<1>3. /\ Cardinality(rest) \in Nat /\ DOMAIN Without(map, r) = 1..Cardinality(rest)
      /\ \A k \in 1..Cardinality(rest) : \E i \in rest : Without(map, r)[k] = map[i]
  <2>1. Without(map, r) = Filtered(map, rest)
    BY DEF Without
  <2> HIDE DEF rest
  <2>2. /\ Cardinality(rest) \in Nat /\ DOMAIN Filtered(map, rest) = 1..Cardinality(rest)
        /\ \A k \in 1..Cardinality(rest) :
             \E i \in rest : Rank(rest, i) = k /\ Filtered(map, rest)[k] = map[i]
    BY ONLY <1>2, FilteredFacts
  <2> QED BY <2>1, <2>2
<1>4. \A k \in 1..Cardinality(rest) : Without(map, r)[k] \in NetRecord
  BY <1>1, <1>3
<1>5. Without(map, r) \in [1..Cardinality(rest) -> NetRecord]
  <2>1. Without(map, r) = [k \in 1..Cardinality(rest) |-> Without(map, r)[k]]
    BY DEF Without, Filtered
  <2> QED BY <1>4, <2>1
<1>6. Without(map, r) \in Seq(NetRecord)
  <2>1. \A n \in Nat : \A f \in [1..n -> NetRecord] : f \in Seq(NetRecord)
    OBVIOUS
  <2> QED BY <1>3, <1>5, <2>1
<1> QED BY <1>1, <1>3, <1>6

\* What is known of a request that has its events heard.
LEMMA KnownFacts ==
  ASSUME RecordsInv, NEW r \in Requests
  PROVE  /\ Known(r) \in NetRecord /\ Known(r).id = r
         /\ Known(r).hop # 0 => HopNow(Known(r))
         /\ OfOneRequest(Known(r))
<1>1. CASE Place(req, r) = {}
  <2>1. Known(r) = [id |-> r, hop |-> 0, status |-> 0]
    BY <1>1 DEF Known, Unknown
  <2>2. /\ Known(r) \in NetRecord /\ Known(r).id = r /\ Known(r).hop = 0 /\ Known(r).status = 0
    BY <2>1 DEF NetRecord
  <2> QED BY <2>2 DEF OfOneRequest
<1>2. CASE Place(req, r) # {}
  <2>1. PICK i \in DOMAIN req : req[i].id = r /\ Known(r) = req[i]
    BY <1>2 DEF Known, Place
  <2>2. req[i] \in NetRecord /\ HopNow(req[i])
    BY DEF RecordsInv, MapsTyped
  <2> QED BY <2>1, <2>2 DEF HopNow, OfOneRequest
<1> QED BY <1>1, <1>2

LEMMA RecordsInit == TelemetryInit => RecordsInv
  BY DEF TelemetryInit, RecordsInv, MapsTyped, Stage, FinishedOnce, TracedStays

\* A step of a request that does not end it: finished ones are left alone.
LEMMA RequestGoesOn ==
  ASSUME RecordsInv, NEW r \in Requests, page[r].stage # "over",
         page' = [page EXCEPT ![r] = page'[r]], page'[r] \in [stage : Stage, hop : Nat],
         deaf \subseteq deaf', UNCHANGED <<reqDone, tracing>>,
         req' \in Seq(NetRecord),
         \A i \in DOMAIN req' : \/ HopNow(req[i])'
                                \/ \E j \in DOMAIN req : req'[i] = req[j] /\ req[j].id # r
  PROVE  RecordsInv'
<1>1. \A q \in Requests : q # r => page'[q] = page[q]
  BY DEF RecordsInv, MapsTyped
<1>2. MapsTyped'
  BY DEF RecordsInv, MapsTyped
<1>3. \A i \in DOMAIN reqDone : reqDone[i] \in NetRecord /\ reqDone[i].id # r
  BY DEF RecordsInv, MapsTyped, FinishedOnce
<1>4. \A i \in DOMAIN reqDone : page'[reqDone[i].id] = page[reqDone[i].id]
  BY <1>1, <1>3 DEF NetRecord
<1>5. FinishedOnce'
  BY <1>4 DEF RecordsInv, FinishedOnce
<1>6. TracedStays'
  <2> SUFFICES ASSUME NEW m \in tracing
               PROVE  page'[m.id].stage = "over"
    BY DEF RecordsInv, TracedStays
  <2>1. m \in NetRecord /\ page[m.id].stage = "over" /\ m.id # r
    BY DEF RecordsInv, TracedStays
  <2> QED BY <1>1, <2>1 DEF NetRecord
<1>7. ASSUME NEW i \in DOMAIN req' PROVE HopNow(req[i])'
  <2>1. CASE \E j \in DOMAIN req : req'[i] = req[j] /\ req[j].id # r
    <3>1. PICK j \in DOMAIN req : req'[i] = req[j] /\ req[j].id # r
      BY <2>1
    <3>2. req[j] \in NetRecord /\ HopNow(req[j])
      BY DEF RecordsInv, MapsTyped
    <3>3. page'[req[j].id] = page[req[j].id]
      BY <1>1, <3>1, <3>2 DEF NetRecord
    <3> QED BY <3>1, <3>2, <3>3 DEF HopNow
  <2> QED BY <2>1
<1>8. ASSUME NEW i \in DOMAIN reqDone PROVE OfOneRequest(reqDone[i])'
  BY <1>4 DEF RecordsInv, OfOneRequest
<1> QED BY <1>2, <1>5, <1>6, <1>7, <1>8 DEF RecordsInv

LEMMA SentRecords ==
  ASSUME RecordsInv, NEW r \in Requests, RequestWillBeSent(r)
  PROVE  RecordsInv'
<1> DEFINE meta == [id |-> r, hop |-> page[r].hop + 1, status |-> 0]
<1>1. /\ page[r].stage \in {"new", "sent"} /\ page[r].hop \in Nat /\ page[r].stage # "over"
      /\ page' = [page EXCEPT ![r] = [stage |-> "sent", hop |-> page[r].hop + 1]]
      /\ page'[r] = [stage |-> "sent", hop |-> page[r].hop + 1]
      /\ UNCHANGED tracing
  BY DEF RequestWillBeSent, RecordsInv, MapsTyped, Quiet, readerVars
<1>2. page'[r] \in [stage : Stage, hop : Nat]
  BY <1>1 DEF Stage
<1>3. meta \in NetRecord /\ meta.id = r /\ meta.hop = page'[r].hop /\ meta.status = 0
  BY <1>1 DEF NetRecord
<1>4. CASE Hears(r) /\ RememberRequest(meta) /\ UNCHANGED reqDone
  <2>1. deaf' = deaf /\ req' = Newest(Put(req, meta), MaxRequestMap)
    BY <1>4 DEF Hears, RememberRequest
  <2>2. req \in Seq(NetRecord)
    BY DEF RecordsInv, MapsTyped
  <2> HIDE DEF meta
  <2>6. PICK c \in NetRecord : c = meta
    BY <1>3
  <2>3. /\ req' \in Seq(NetRecord)
        /\ \A i \in DOMAIN req' :
             req'[i] = c \/ \E j \in DOMAIN req : req'[i] = req[j] /\ req[j].id # c.id
    BY <2>1, <2>2, <2>6, RememberedFacts
  <2>7. HopNow(c)'
    BY <1>3, <2>6 DEF HopNow
  <2>4. \A i \in DOMAIN req' : \/ HopNow(req[i])'
                               \/ \E j \in DOMAIN req : req'[i] = req[j] /\ req[j].id # r
    BY <1>3, <2>3, <2>6, <2>7 DEF HopNow
  <2>5. page' = [page EXCEPT ![r] = page'[r]]
    BY <1>1
  <2> QED BY <1>1, <1>2, <1>4, <2>1, <2>3, <2>4, <2>5, RequestGoesOn
<1>5. CASE Misses(r)
  <2>1. deaf' = deaf \cup {r} /\ UNCHANGED <<req, reqDone>>
    BY <1>5 DEF Misses
  <2>2. \A i \in DOMAIN req' : \/ HopNow(req[i])'
                               \/ \E j \in DOMAIN req : req'[i] = req[j] /\ req[j].id # r
    BY <2>1 DEF HopNow
  <2>3. req' \in Seq(NetRecord)
    BY <2>1 DEF RecordsInv, MapsTyped
  <2>4. page' = [page EXCEPT ![r] = page'[r]]
    BY <1>1
  <2> QED BY <1>1, <1>2, <2>1, <2>2, <2>3, <2>4, RequestGoesOn
<1> QED BY <1>4, <1>5 DEF RequestWillBeSent

LEMMA AnsweredRecords ==
  ASSUME RecordsInv, NEW r \in Requests, ResponseReceived(r)
  PROVE  RecordsInv'
<1> DEFINE meta == [Known(r) EXCEPT !.status = page[r].hop]
<1>1. /\ page[r].stage = "sent" /\ page[r] \in [stage : Stage, hop : Nat]
      /\ page' = [page EXCEPT ![r].stage = "answered"] /\ UNCHANGED <<reqDone, tracing>>
      /\ page'[r] = [page[r] EXCEPT !.stage = "answered"]
      /\ req \in Seq(NetRecord)
  BY DEF ResponseReceived, RecordsInv, MapsTyped, Quiet, readerVars, Misses
<1>2. /\ page'[r] \in [stage : Stage, hop : Nat] /\ page'[r].hop = page[r].hop
      /\ page[r].hop \in Nat /\ page[r].stage # "over"
  BY <1>1 DEF Stage
<1>3. page' = [page EXCEPT ![r] = page'[r]]
  BY <1>1
<1>4. Known(r) \in NetRecord /\ Known(r).id = r /\ (Known(r).hop # 0 => HopNow(Known(r)))
  BY KnownFacts
<1>5. /\ meta \in NetRecord /\ meta.id = r /\ meta.hop = Known(r).hop /\ meta.status = page[r].hop
  BY <1>2, <1>4 DEF NetRecord
<1>6. ASSUME UNCHANGED <<req, deaf>>, NEW i \in DOMAIN req, req[i].id = r
      PROVE  HopNow(req[i])'
  <2>1. HopNow(req[i])
    BY DEF RecordsInv
  <2> QED BY <1>2, <1>6, <2>1 DEF HopNow
<1>7. CASE deaf' = deaf /\ UNCHANGED req
  <2>1. \A i \in DOMAIN req' : \/ HopNow(req[i])'
                               \/ \E j \in DOMAIN req : req'[i] = req[j] /\ req[j].id # r
    BY <1>6, <1>7
  <2> QED BY <1>1, <1>2, <1>3, <1>7, <2>1, RequestGoesOn
<1>8. CASE deaf' = deaf /\ Known(r).hop # 0 /\ req' = Put(req, meta)
  <2> HIDE DEF meta
  <2>4. PICK c \in NetRecord : c = meta
    BY <1>5
  <2>5. /\ Put(req, c) \in Seq(NetRecord)
        /\ \A i \in DOMAIN Put(req, c) :
             \/ Put(req, c)[i] = c
             \/ i \in DOMAIN req /\ Put(req, c)[i] = req[i] /\ req[i].id # c.id
    BY <1>1, PutFacts
  <2>1. /\ req' \in Seq(NetRecord)
        /\ \A i \in DOMAIN req' :
             \/ req'[i] = c
             \/ i \in DOMAIN req /\ req'[i] = req[i] /\ req[i].id # c.id
    <3>1. req' = Put(req, c)
      BY <1>8, <2>4 DEF meta
    <3> QED BY ONLY <2>5, <3>1
  <2>2. HopNow(c)'
    <3>1. c.id = r /\ c.hop = Known(r).hop /\ c.status = page[r].hop
      BY <1>5, <2>4
    <3>2. r \notin deaf => Known(r).hop = page[r].hop
      BY <1>4, <1>8 DEF HopNow
    <3> QED BY <1>2, <1>8, <3>1, <3>2 DEF HopNow
  <2>3. \A i \in DOMAIN req' : \/ HopNow(req[i])'
                               \/ \E j \in DOMAIN req : req'[i] = req[j] /\ req[j].id # r
    BY <1>5, <2>1, <2>2, <2>4 DEF HopNow
  <2> QED BY <1>1, <1>2, <1>3, <1>8, <2>1, <2>3, RequestGoesOn
<1>9. CASE deaf' = deaf \cup {r} /\ UNCHANGED req
  <2>1. \A i \in DOMAIN req' : \/ HopNow(req[i])'
                               \/ \E j \in DOMAIN req : req'[i] = req[j] /\ req[j].id # r
    BY <1>9 DEF HopNow
  <2> QED BY <1>1, <1>2, <1>3, <1>9, <2>1, RequestGoesOn
<1>10. \/ deaf' = deaf /\ UNCHANGED req
       \/ deaf' = deaf /\ Known(r).hop # 0 /\ req' = Put(req, meta)
       \/ deaf' = deaf \cup {r} /\ UNCHANGED req
  BY DEF ResponseReceived, Hears, Misses
<1> QED BY <1>7, <1>8, <1>9, <1>10

LEMMA EndedRecords ==
  ASSUME RecordsInv, NEW r \in Requests, NEW fails \in BOOLEAN, RequestEnds(r, fails)
  PROVE  RecordsInv'
<1> DEFINE meta == Known(r)
<1>1. /\ page[r].stage # "over" /\ page[r] \in [stage : Stage, hop : Nat]
      /\ page' = [page EXCEPT ![r].stage = "over"] /\ UNCHANGED tracing
      /\ page'[r] = [page[r] EXCEPT !.stage = "over"]
      /\ req \in Seq(NetRecord) /\ reqDone \in Seq(NetRecord)
  BY DEF RequestEnds, RecordsInv, MapsTyped, Quiet, readerVars
<1>2. /\ page'[r].hop = page[r].hop /\ page'[r].stage = "over"
      /\ page' \in [Requests -> [stage : Stage, hop : Nat]]
      /\ \A q \in Requests : page'[q].hop = page[q].hop
                             /\ (page[q].stage = "over" => page'[q].stage = "over")
  <2>1. page \in [Requests -> [stage : Stage, hop : Nat]] /\ "over" \in Stage
    BY DEF RecordsInv, MapsTyped, Stage
  <2> QED BY <1>1, <2>1
<1>3. meta \in NetRecord /\ meta.id = r /\ OfOneRequest(meta)
  BY KnownFacts
<1>4. \A i \in DOMAIN reqDone : reqDone[i] \in NetRecord /\ reqDone[i].id # r
                                /\ page[reqDone[i].id].stage = "over"
  BY <1>1 DEF RecordsInv, FinishedOnce
<1>5. \A m \in tracing : m \in NetRecord /\ m.id # r /\ page[m.id].stage = "over"
  BY <1>1 DEF RecordsInv, TracedStays
<1>6. CASE deaf' = deaf /\ RememberDone(meta) /\ req' = Without(req, r)
  <2> HIDE DEF meta
  <2>10. PICK c \in NetRecord : c = meta
    BY <1>3
  <2>11. OfOneRequest(c)'
    BY <1>2, <1>3, <1>6, <2>10 DEF OfOneRequest
  <2>1. /\ req' \in Seq(NetRecord)
        /\ \A k \in DOMAIN req' : \E i \in DOMAIN req : req'[k] = req[i]
    BY <1>1, <1>6, WithoutFacts
  <2>2. reqDone' = Newest(Put(reqDone, meta), MaxRequestMap)
    BY <1>6 DEF RememberDone
  <2>3. /\ reqDone' \in Seq(NetRecord)
        /\ \A i \in DOMAIN reqDone' :
             reqDone'[i] = meta \/ \E j \in DOMAIN reqDone : reqDone'[i] = reqDone[j]
    BY <1>1, <1>3, <2>2, RememberedFacts
  <2>4. MapsTyped'
    BY <1>2, <2>1, <2>3 DEF MapsTyped
  <2>5. \A i, j \in DOMAIN reqDone' : reqDone'[i].id = reqDone'[j].id => i = j
    <3>1. \A i, j \in DOMAIN reqDone : reqDone[i].id = reqDone[j].id => i = j
      BY DEF RecordsInv, FinishedOnce
    <3>2. \A i \in DOMAIN reqDone : reqDone[i].id # meta.id
      BY <1>3, <1>4
    <3>3. \A i, j \in DOMAIN Newest(Put(reqDone, meta), MaxRequestMap) :
           Newest(Put(reqDone, meta), MaxRequestMap)[i].id
             = Newest(Put(reqDone, meta), MaxRequestMap)[j].id => i = j
      BY <1>1, <1>3, <3>1, <3>2, RememberedOnce
    <3> QED BY <2>2, <3>3, Zenon
  <2>6. \A i \in DOMAIN reqDone' : page'[reqDone'[i].id].stage = "over"
    <3> TAKE i \in DOMAIN reqDone'
    <3>1. CASE reqDone'[i] = meta
      BY <1>2, <1>3, <3>1
    <3>2. CASE \E j \in DOMAIN reqDone : reqDone'[i] = reqDone[j]
      BY <1>2, <1>4, <3>2 DEF NetRecord
    <3> QED BY <2>3, <3>1, <3>2
  <2>7. TracedStays'
    <3> SUFFICES ASSUME NEW m \in tracing
                 PROVE  /\ m \in NetRecord /\ page'[m.id].stage = "over"
                        /\ \A i \in DOMAIN reqDone' : reqDone'[i].id = m.id => reqDone'[i] = m
      BY <1>1 DEF TracedStays
    <3>1. m \in NetRecord /\ page'[m.id].stage = "over" /\ m.id # r
      BY <1>2, <1>5 DEF NetRecord
    <3>2. ASSUME NEW i \in DOMAIN reqDone', reqDone'[i].id = m.id PROVE reqDone'[i] = m
      <4>1. reqDone'[i] # meta
        BY <1>3, <3>1, <3>2
      <4>2. PICK j \in DOMAIN reqDone : reqDone'[i] = reqDone[j]
        BY <2>3, <4>1
      <4> QED BY <3>2, <4>2 DEF RecordsInv, TracedStays
    <3> QED BY <3>1, <3>2
  <2>8. \A i \in DOMAIN req' : HopNow(req[i])'
    <3> TAKE k \in DOMAIN req'
    <3>1. PICK i \in DOMAIN req : req'[k] = req[i]
      BY <2>1
    <3>2. req[i] \in NetRecord /\ HopNow(req[i])
      BY <1>1 DEF RecordsInv
    <3> QED BY <1>2, <1>6, <3>1, <3>2 DEF HopNow, NetRecord
  <2>9. \A i \in DOMAIN reqDone' : OfOneRequest(reqDone[i])'
    <3> TAKE i \in DOMAIN reqDone'
    <3>1. CASE reqDone'[i] = meta
      BY <2>10, <2>11, <3>1 DEF OfOneRequest
    <3>2. CASE \E j \in DOMAIN reqDone : reqDone'[i] = reqDone[j]
      <4>1. PICK j \in DOMAIN reqDone : reqDone'[i] = reqDone[j]
        BY <3>2
      <4>2. OfOneRequest(reqDone[j]) /\ reqDone[j] \in NetRecord
        BY <1>4 DEF RecordsInv
      <4> QED BY <1>2, <1>6, <4>1, <4>2 DEF OfOneRequest, NetRecord
    <3> QED BY <2>3, <3>1, <3>2
  <2> QED BY <2>4, <2>5, <2>6, <2>7, <2>8, <2>9 DEF RecordsInv, FinishedOnce
<1>7. CASE Misses(r)
  <2>1. deaf' = deaf \cup {r} /\ UNCHANGED <<req, reqDone>>
    BY <1>7 DEF Misses
  <2>2. MapsTyped'
    BY <1>1, <1>2, <2>1 DEF MapsTyped
  <2>3. FinishedOnce'
    BY <1>2, <1>4, <2>1 DEF RecordsInv, FinishedOnce, NetRecord
  <2>4. TracedStays'
    BY <1>1, <1>2, <1>5, <2>1 DEF RecordsInv, TracedStays, NetRecord
  <2>5. \A i \in DOMAIN req : req[i] \in NetRecord
    BY <1>1
  <2>6. \A i \in DOMAIN req' : HopNow(req[i])'
    BY <1>2, <2>1, <2>5 DEF RecordsInv, HopNow, NetRecord
  <2>7. \A i \in DOMAIN reqDone' : OfOneRequest(reqDone[i])'
    BY <1>2, <1>4, <2>1 DEF RecordsInv, OfOneRequest, NetRecord
  <2> QED BY <2>2, <2>3, <2>4, <2>6, <2>7 DEF RecordsInv
<1> QED BY <1>6, <1>7 DEF RequestEnds, Hears

LEMMA RecordsNext == RecordsInv /\ [TelemetryNext]_telemetryTabVars => RecordsInv'
<1> SUFFICES ASSUME RecordsInv, [TelemetryNext]_telemetryTabVars PROVE RecordsInv'
  OBVIOUS
<1>1. ASSUME UNCHANGED <<page, req, deaf>>,
             UNCHANGED reqDone \/ reqDone' = <<>>, UNCHANGED tracing \/ tracing' = {}
      PROVE  RecordsInv'
  <2>1. CASE UNCHANGED reqDone
    BY <1>1, <2>1
    DEF RecordsInv, MapsTyped, FinishedOnce, TracedStays, HopNow, OfOneRequest
  <2>2. CASE reqDone' = <<>>
    BY <1>1, <2>2
    DEF RecordsInv, MapsTyped, FinishedOnce, TracedStays, HopNow, OfOneRequest
  <2> QED BY <1>1, <2>1, <2>2
<1>2. CASE UNCHANGED telemetryTabVars
  BY <1>1, <1>2 DEF telemetryTabVars, readerVars
<1>3. CASE OtherEvent \/ TimePasses \/ ClearHarLite \/ \E clear \in BOOLEAN : HarLite(clear)
  <2>1. UNCHANGED <<page, req, deaf, reqDone, tracing>>
    BY <1>3 DEF OtherEvent, TimePasses, ClearHarLite, HarLite, Quiet, readerVars
  <2> QED BY <1>1, <2>1
<1>4. CASE \E clear \in BOOLEAN : TraceReports(clear)
  <2>1. UNCHANGED <<page, req, deaf>> /\ tracing' = {} /\ (UNCHANGED reqDone \/ reqDone' = <<>>)
    BY <1>4 DEF TraceReports
  <2> QED BY <1>1, <2>1
<1>5. CASE ClearTelemetry
  <2>1. req' = <<>> /\ reqDone' = <<>> /\ UNCHANGED <<page, deaf, tracing>>
    BY <1>5 DEF ClearTelemetry, readerVars
  <2> QED BY <2>1
      DEF RecordsInv, MapsTyped, FinishedOnce, TracedStays, HopNow, OfOneRequest
<1>6. CASE TraceLists
  <2>1. PICK i \in DOMAIN reqDone : tracing' = {reqDone[i]}
    BY <1>6 DEF TraceLists
  <2>2. UNCHANGED <<page, req, reqDone, deaf>>
    BY <1>6 DEF TraceLists
  <2>3. reqDone[i] \in NetRecord /\ page[reqDone[i].id].stage = "over"
    BY DEF RecordsInv, MapsTyped, FinishedOnce
  <2>4. TracedStays'
    BY <2>1, <2>2, <2>3 DEF RecordsInv, FinishedOnce, TracedStays
  <2> QED BY <2>2, <2>4 DEF RecordsInv, MapsTyped, FinishedOnce, HopNow, OfOneRequest
<1> QED
  BY <1>2, <1>3, <1>4, <1>5, <1>6, SentRecords, AnsweredRecords, EndedRecords DEF TelemetryNext

\* Records of finished requests speak of one request each, unless the bus missed an
\* event of it, and a trace finds the record again that it listed, or none.
THEOREM RecordsCorrect == TelemetrySpec => []RecordsOneRequest
<1>1. RecordsInv => RecordsOneRequest
  <2> SUFFICES ASSUME RecordsInv, NEW m \in tracing PROVE FullRecord(m).hop = m.hop
    BY DEF RecordsInv, OfOneRequest, RecordsOneRequest
  <2>1. CASE Place(reqDone, m.id) = {}
    BY <2>1 DEF FullRecord
  <2>2. CASE Place(reqDone, m.id) # {}
    <3>1. PICK i \in DOMAIN reqDone : reqDone[i].id = m.id /\ FullRecord(m) = reqDone[i]
      BY <2>2 DEF FullRecord, Place
    <3> QED BY <3>1 DEF RecordsInv, TracedStays
  <2> QED BY <2>1, <2>2
<1> QED BY <1>1, RecordsInit, RecordsNext, PTL DEF TelemetrySpec

-----------------------------------------------------------------------------
(* The script in the page: the layer at the bottom has the buffers, and in  *)
(* them what the page has raised while there was a script.                  *)

Logged == [kind : {"error", "failure"}, id : Nat, at : Nat]
RaisedRecord == [kind : {"error", "failure"}, id : Nat, at : Nat, seen : BOOLEAN]
Layer == [version : ScriptServers, keeps : BOOLEAN, errors : Seq(Logged), failures : Seq(Logged)]

LogTyped ==
  /\ pageTime \in Nat /\ nextEntry \in Nat /\ fetching \subseteq Nat
  /\ registered \subseteq ScriptServers
  /\ layers \in Seq(Layer) /\ raised \in Seq(RaisedRecord)

BottomKeeps == \A i \in DOMAIN layers : layers[i].keeps <=> i = 1

UnseenWithout == layers = <<>> => \A i \in DOMAIN raised : ~raised[i].seen

SameIds(s, t) == Len(s) = Len(t) /\ \A i \in 1..Len(s) : s[i].id = t[i].id

NewestSeen(kind) == LastOf(SeenByScript(kind), MaxEntries)

BottomHasAll ==
  layers # <<>> =>
    /\ SameIds(layers[1].errors, NewestSeen("error"))
    /\ SameIds(layers[1].failures, NewestSeen("failure"))

LogInv == LogTyped /\ BottomKeeps /\ UnseenWithout /\ BottomHasAll

LEMMA LastOfFacts ==
  ASSUME NEW S, NEW q \in Seq(S), NEW n \in Nat \ {0}
  PROVE  /\ LastOf(q, n) \in Seq(S)
         /\ Len(q) <= n => Len(LastOf(q, n)) = Len(q)
                           /\ \A i \in 1..Len(q) : LastOf(q, n)[i] = q[i]
         /\ Len(q) > n => Len(LastOf(q, n)) = n
                          /\ \A i \in 1..n : LastOf(q, n)[i] = q[i + (Len(q) - n)]
<1>1. Len(q) \in Nat
  OBVIOUS
<1>2. CASE Len(q) <= n
  <2>1. LastOf(q, n) = SubSeq(q, 1, Len(q))
    <3>1. ~(Len(q) > n)
      BY <1>1, <1>2
    <3> QED BY ONLY <3>1 DEF LastOf
  <2>2. /\ SubSeq(q, 1, Len(q)) \in Seq(S) /\ Len(SubSeq(q, 1, Len(q))) = Len(q)
        /\ \A i \in 1..Len(q) : SubSeq(q, 1, Len(q))[i] = q[i]
    OBVIOUS
  <2> QED BY <1>1, <1>2, <2>1, <2>2
<1>3. CASE Len(q) > n
  <2> DEFINE d == Len(q) - n
  <2>1. LastOf(q, n) = SubSeq(q, d + 1, Len(q)) /\ d \in Nat /\ d + 1 \in 1..Len(q)
        /\ Len(q) - d = n
    BY <1>1, <1>3 DEF LastOf
  <2>2. /\ SubSeq(q, d + 1, Len(q)) \in Seq(S)
        /\ Len(SubSeq(q, d + 1, Len(q))) = n
        /\ \A i \in 1..n : SubSeq(q, d + 1, Len(q))[i] = q[i + d]
    BY <1>1, <2>1
  <2> QED BY <1>1, <1>3, <2>1, <2>2
<1> QED BY <1>1, <1>2, <1>3

\* A buffer that has the last of a list has them also when both get an entry more.
LEMMA LastGrows ==
  ASSUME NEW A, NEW B, NEW s \in Seq(A), NEW t \in Seq(B), NEW n \in Nat \ {0},
         NEW e \in A, NEW f \in B, e.id = f.id, SameIds(s, LastOf(t, n))
  PROVE  SameIds(LastOf(Append(s, e), n), LastOf(Append(t, f), n))
<1> DEFINE u == Append(s, e)
           v == Append(t, f)
<1>1. /\ u \in Seq(A) /\ Len(u) = Len(s) + 1 /\ u[Len(s) + 1] = e
      /\ \A i \in 1..Len(s) : u[i] = s[i]
      /\ Len(s) \in Nat
  OBVIOUS
<1>2. /\ v \in Seq(B) /\ Len(v) = Len(t) + 1 /\ v[Len(t) + 1] = f
      /\ \A i \in 1..Len(t) : v[i] = t[i]
      /\ Len(t) \in Nat
  OBVIOUS
<1> HIDE DEF u, v
<1>3. /\ Len(u) <= n => Len(LastOf(u, n)) = Len(u)
                        /\ \A i \in 1..Len(u) : LastOf(u, n)[i] = u[i]
      /\ Len(u) > n => Len(LastOf(u, n)) = n
                       /\ \A i \in 1..n : LastOf(u, n)[i] = u[i + (Len(u) - n)]
  BY <1>1, LastOfFacts
<1>4. /\ Len(v) <= n => Len(LastOf(v, n)) = Len(v)
                        /\ \A i \in 1..Len(v) : LastOf(v, n)[i] = v[i]
      /\ Len(v) > n => Len(LastOf(v, n)) = n
                       /\ \A i \in 1..n : LastOf(v, n)[i] = v[i + (Len(v) - n)]
  BY <1>2, LastOfFacts
<1>5. /\ Len(t) <= n => Len(LastOf(t, n)) = Len(t)
                        /\ \A i \in 1..Len(t) : LastOf(t, n)[i] = t[i]
      /\ Len(t) > n => Len(LastOf(t, n)) = n
                       /\ \A i \in 1..n : LastOf(t, n)[i] = t[i + (Len(t) - n)]
  BY LastOfFacts
<1>6. Len(s) = Len(LastOf(t, n)) /\ \A i \in 1..Len(s) : s[i].id = LastOf(t, n)[i].id
  BY DEF SameIds
<1>7. CASE Len(t) < n
  <2>1. Len(s) = Len(t) /\ Len(u) <= n /\ Len(v) <= n /\ Len(u) = Len(v)
    BY <1>1, <1>2, <1>5, <1>6, <1>7
  <2>2. ASSUME NEW i \in 1..Len(u) PROVE u[i].id = v[i].id
    <3>1. CASE i \in 1..Len(s)
      <4>1. u[i] = s[i] /\ v[i] = t[i] /\ s[i].id = LastOf(t, n)[i].id /\ LastOf(t, n)[i] = t[i]
        BY <1>1, <1>2, <1>5, <1>6, <1>7, <2>1, <3>1
      <4> QED BY <4>1
    <3>2. CASE i = Len(s) + 1
      BY <1>1, <1>2, <2>1, <3>2
    <3> QED BY <1>1, <3>1, <3>2
  <2> QED BY <1>3, <1>4, <2>1, <2>2 DEF SameIds, u, v
<1>8. CASE Len(t) >= n
  <2> DEFINE d == Len(t) - n
  <2>1. d \in Nat /\ Len(t) = d + n
    BY <1>2, <1>8
  <2> HIDE DEF d
  <2>2. Len(LastOf(t, n)) = n /\ \A i \in 1..n : LastOf(t, n)[i] = t[i + d]
    <3>1. CASE Len(t) = n
      <4>1. d = 0
        BY <1>2, <2>1, <3>1
      <4>2. Len(LastOf(t, n)) = n /\ \A i \in 1..n : LastOf(t, n)[i] = t[i]
        BY <1>5, <3>1
      <4> QED BY <4>1, <4>2
    <3>2. CASE Len(t) > n
      <4>1. Len(t) - n = d
        BY <2>1
      <4> QED BY <1>5, <3>2, <4>1
    <3> QED BY <1>2, <1>8, <3>1, <3>2
  <2>3. Len(s) = n /\ Len(u) = n + 1 /\ Len(u) > n /\ Len(u) - n = 1
        /\ Len(v) > n /\ Len(v) - n = d + 1
    BY <1>1, <1>2, <1>6, <2>1, <2>2
  <2>4. ASSUME NEW i \in 1..n PROVE u[i + 1].id = v[i + (d + 1)].id
    <3>1. CASE i = n
      <4>1. i + 1 = Len(s) + 1 /\ i + (d + 1) = Len(t) + 1
        BY <2>1, <2>3, <3>1
      <4> QED BY <1>1, <1>2, <4>1
    <3>2. CASE i < n
      <4>1. i + 1 \in 1..n /\ i + (d + 1) = (i + 1) + d /\ (i + 1) + d \in 1..Len(t)
        BY <2>1, <3>2
      <4>2. u[i + 1] = s[i + 1] /\ v[i + (d + 1)] = t[(i + 1) + d]
        BY <1>1, <1>2, <2>3, <4>1
      <4>3. s[i + 1].id = t[(i + 1) + d].id
        BY <1>6, <2>2, <2>3, <4>1
      <4> QED BY <4>2, <4>3
    <3> QED BY <3>1, <3>2
  <2>5. Len(LastOf(u, n)) = n /\ \A i \in 1..n : LastOf(u, n)[i] = u[i + 1]
    BY <1>3, <2>3
  <2>6. Len(LastOf(v, n)) = n /\ \A i \in 1..n : LastOf(v, n)[i] = v[i + (d + 1)]
    BY <1>4, <2>3
  <2>7. SameIds(LastOf(u, n), LastOf(v, n))
    BY <2>4, <2>5, <2>6 DEF SameIds
  <2> QED BY <2>7 DEF u, v
<1> QED BY <1>2, <1>7, <1>8

\* What the page has raised while there was a script, one entry later.
LEMMA SeenGrows ==
  ASSUME LogTyped, NEW e \in RaisedRecord, raised' = Append(raised, e),
         NEW kind \in {"error", "failure"}
  PROVE  /\ SeenByScript(kind) \in Seq(RaisedRecord)
         /\ SeenByScript(kind)' = IF e.kind = kind /\ e.seen THEN Append(SeenByScript(kind), e)
                                  ELSE SeenByScript(kind)
<1> DEFINE I == {i \in DOMAIN raised : raised[i].kind = kind /\ raised[i].seen}
           J == {i \in DOMAIN raised' : raised'[i].kind = kind /\ raised'[i].seen}
           n == Len(raised) + 1
<1>1. /\ raised \in Seq(RaisedRecord) /\ Len(raised) \in Nat /\ DOMAIN raised = 1..Len(raised)
      /\ DOMAIN raised' = 1..n
      /\ raised'[n] = e /\ \A i \in 1..Len(raised) : raised'[i] = raised[i]
  BY DEF LogTyped
<1>2. I \in SUBSET (1..Len(raised))
  BY <1>1
<1>3. /\ Filtered(raised, I) \in Seq(RaisedRecord)
      /\ Filtered(Append(raised, e), I) = Filtered(raised, I)
      /\ Filtered(Append(raised, e), I \cup {n}) = Append(Filtered(raised, I), e)
  <2>1. \A K \in SUBSET (1..Len(raised)) :
          /\ Filtered(raised, K) \in Seq(RaisedRecord)
          /\ Filtered(Append(raised, e), K) = Filtered(raised, K)
          /\ Filtered(Append(raised, e), K \cup {Len(raised) + 1})
               = Append(Filtered(raised, K), e)
    BY <1>1, FilteredGrows
  <2> HIDE DEF I
  <2> QED BY <1>2, <2>1
<1>4. J = IF e.kind = kind /\ e.seen THEN I \cup {n} ELSE I
  <2>1. \A i \in 1..n : i \in 1..Len(raised) \/ i = n
    BY <1>1
  <2>2. \A i \in 1..Len(raised) : i \in 1..n
    BY <1>1
  <2>3. n \in 1..n
    BY <1>1
  <2>4. n \notin 1..Len(raised)
    BY <1>1
  <2> HIDE DEF n
  <2> QED BY <1>1, <2>1, <2>2, <2>3, <2>4
<1>5. SeenByScript(kind) = Filtered(raised, I) /\ SeenByScript(kind)' = Filtered(raised', J)
  BY DEF SeenByScript
<1> HIDE DEF I, J, n
<1> QED BY <1>3, <1>4, <1>5

LEMMA NothingPasses ==
  ASSUME NEW q, \A i \in DOMAIN q : ~q[i].seen, NEW kind
  PROVE  Len(LastOf(Filtered(q, {i \in DOMAIN q : q[i].kind = kind /\ q[i].seen}), MaxEntries)) = 0
<1>1. {i \in DOMAIN q : q[i].kind = kind /\ q[i].seen} = {}
  OBVIOUS
<1>2. Cardinality({}) = 0
  BY FS_EmptySet
<1>3. Filtered(q, {i \in DOMAIN q : q[i].kind = kind /\ q[i].seen}) = <<>>
  <2>1. Filtered(q, {}) = [k \in 1..0 |-> q[CHOOSE i \in {} : Rank({}, i) = k]]
    BY <1>2 DEF Filtered
  <2>2. 1..0 = {}
    OBVIOUS
  <2>4. Filtered(q, {}) \in [1..0 -> {}]
    BY <2>1, <2>2
  <2>5. \A f \in [1..0 -> {}] : f \in Seq({})
    OBVIOUS
  <2>6. Filtered(q, {}) \in Seq({})
    BY <2>4, <2>5
  <2>7. Len(Filtered(q, {})) = 0
    <3>1. DOMAIN Filtered(q, {}) = 1..0
      BY <2>1
    <3> QED BY <3>1, LenProperties, <2>6
  <2>8. Filtered(q, {}) = <<>>
    BY <2>6, <2>7, EmptySeq
  <2> QED BY <1>1, <2>8
<1>4. LastOf(<<>>, MaxEntries) = SubSeq(<<>>, 1, 0)
  <2>1. MaxEntries \in Nat
    BY DiagnosticsAssumption
  <2> QED BY <2>1 DEF LastOf
<1> QED BY <1>3, <1>4

LEMMA LogInit == DiagInit => LogInv
<1> SUFFICES ASSUME DiagInit PROVE LogInv
  OBVIOUS
<1>1. layers = <<>> /\ raised = <<>>
  BY DEF DiagInit
<1> QED BY <1>1 DEF DiagInit, LogInv, LogTyped, BottomKeeps, UnseenWithout, BottomHasAll

LEMMA LogSame ==
  ASSUME LogInv, UNCHANGED <<layers, raised>>,
         pageTime' \in Nat, nextEntry' \in Nat, fetching' \subseteq Nat,
         registered' \subseteq ScriptServers
  PROVE  LogInv'
  BY DEF LogInv, LogTyped, BottomKeeps, UnseenWithout, BottomHasAll, NewestSeen, SeenByScript

\* An entry goes into the buffers of the bottom layer, if there is one.
LEMMA LogPushed ==
  ASSUME LogInv, NEW kind \in {"error", "failure"}, NEW noted \in Nat, Noted(kind, pageTime),
         layers' = Pushed(kind, Entry(kind, nextEntry, noted)),
         UNCHANGED <<pageTime, registered>>, fetching' \subseteq Nat
  PROVE  LogInv'
<1> DEFINE new == [kind |-> kind, id |-> nextEntry, at |-> pageTime, seen |-> layers # <<>>]
           e == Entry(kind, nextEntry, noted)
<1>1. /\ pageTime \in Nat /\ nextEntry \in Nat /\ layers \in Seq(Layer)
      /\ raised \in Seq(RaisedRecord) /\ DOMAIN layers = 1..Len(layers) /\ Len(layers) \in Nat
  BY DEF LogInv, LogTyped
<1>2. /\ raised' = Append(raised, new) /\ nextEntry' = nextEntry + 1
      /\ new \in RaisedRecord /\ e \in Logged /\ new.id = e.id /\ new.kind = kind
      /\ new.seen = (layers # <<>>)
  BY <1>1 DEF Noted, RaisedRecord, Logged, Entry
<1> HIDE DEF new, e
<1>3. MaxEntries \in Nat \ {0}
  BY DiagnosticsAssumption
<1>4. DOMAIN layers' = DOMAIN layers
  BY DEF Pushed
<1>5. ASSUME NEW i \in DOMAIN layers
      PROVE  /\ ~layers[i].keeps => layers'[i] = layers[i]
             /\ layers[i].keeps /\ kind = "error" =>
                  layers'[i] = [layers[i] EXCEPT !.errors = LastOf(Append(@, e), MaxEntries)]
             /\ layers[i].keeps /\ kind # "error" =>
                  layers'[i] = [layers[i] EXCEPT !.failures = LastOf(Append(@, e), MaxEntries)]
  BY DEF Pushed, e
<1>6. ASSUME NEW i \in DOMAIN layers
      PROVE  /\ layers'[i] \in Layer /\ layers'[i].keeps = layers[i].keeps
             /\ layers[i].keeps =>
                  /\ layers'[i].errors = IF kind = "error"
                                         THEN LastOf(Append(layers[i].errors, e), MaxEntries)
                                         ELSE layers[i].errors
                  /\ layers'[i].failures = IF kind = "error" THEN layers[i].failures
                                           ELSE LastOf(Append(layers[i].failures, e), MaxEntries)
  <2>1. layers[i] \in Layer
    BY <1>1
  <2>2. layers[i].errors \in Seq(Logged) /\ layers[i].failures \in Seq(Logged)
        /\ layers[i].keeps \in BOOLEAN
    BY <2>1 DEF Layer
  <2>3. Append(layers[i].errors, e) \in Seq(Logged) /\ Append(layers[i].failures, e) \in Seq(Logged)
    BY <1>2, <2>2
  <2>4. /\ LastOf(Append(layers[i].errors, e), MaxEntries) \in Seq(Logged)
        /\ LastOf(Append(layers[i].failures, e), MaxEntries) \in Seq(Logged)
    BY <1>3, <2>3, LastOfFacts
  <2>5. CASE ~layers[i].keeps
    BY <1>5, <2>1, <2>5
  <2>6. CASE layers[i].keeps /\ kind = "error"
    <3>1. layers'[i] = [layers[i] EXCEPT !.errors = LastOf(Append(layers[i].errors, e), MaxEntries)]
      BY <1>5, <2>6
    <3> QED BY <2>1, <2>4, <2>6, <3>1 DEF Layer
  <2>7. CASE layers[i].keeps /\ kind # "error"
    <3>1. layers'[i] =
            [layers[i] EXCEPT !.failures = LastOf(Append(layers[i].failures, e), MaxEntries)]
      BY <1>5, <2>7
    <3> QED BY <2>1, <2>4, <2>7, <3>1 DEF Layer
  <2> QED BY <2>2, <2>5, <2>6, <2>7
<1>7. layers' \in Seq(Layer)
  <2>1. layers' = [i \in 1..Len(layers) |-> layers'[i]]
    BY <1>1 DEF Pushed
  <2>2. layers' \in [1..Len(layers) -> Layer]
    BY <1>1, <1>6, <2>1
  <2>3. \A m \in Nat : \A f \in [1..m -> Layer] : f \in Seq(Layer)
    OBVIOUS
  <2> QED BY <1>1, <2>2, <2>3
<1>8. LogTyped'
  <2>1. raised' \in Seq(RaisedRecord)
    BY <1>1, <1>2
  <2> QED BY <1>1, <1>2, <1>7, <2>1 DEF LogInv, LogTyped
<1>9. BottomKeeps'
  BY <1>4, <1>6 DEF LogInv, BottomKeeps
<1>10. layers' = <<>> <=> layers = <<>>
  BY <1>1, <1>4, <1>7
<1>11. UnseenWithout'
  <2> SUFFICES ASSUME layers = <<>> PROVE \A i \in DOMAIN raised' : ~raised'[i].seen
    BY <1>10 DEF UnseenWithout
  <2>1. \A i \in DOMAIN raised : ~raised[i].seen
    BY DEF LogInv, UnseenWithout
  <2>2. /\ DOMAIN raised' = 1..(Len(raised) + 1) /\ raised'[Len(raised) + 1] = new
        /\ \A i \in 1..Len(raised) : raised'[i] = raised[i]
        /\ DOMAIN raised = 1..Len(raised) /\ Len(raised) \in Nat
    BY <1>1, <1>2
  <2>3. ~new.seen
    BY <1>2
  <2>4. \A i \in 1..(Len(raised) + 1) : i \in 1..Len(raised) \/ i = Len(raised) + 1
    BY <2>2
  <2> QED BY <2>1, <2>2, <2>3, <2>4
<1>12. BottomHasAll'
  <2> SUFFICES ASSUME layers # <<>>
               PROVE  /\ SameIds(layers'[1].errors, NewestSeen("error")')
                      /\ SameIds(layers'[1].failures, NewestSeen("failure")')
    BY <1>10 DEF BottomHasAll
  <2>1. 1 \in DOMAIN layers
    BY <1>1
  <2>2. layers[1].keeps /\ layers[1] \in Layer
    BY <1>1, <2>1 DEF LogInv, BottomKeeps
  <2>3. layers[1].errors \in Seq(Logged) /\ layers[1].failures \in Seq(Logged)
    BY <2>2 DEF Layer
  <2>4. /\ SameIds(layers[1].errors, NewestSeen("error"))
        /\ SameIds(layers[1].failures, NewestSeen("failure"))
    BY DEF LogInv, BottomHasAll
  <2>5. ASSUME NEW k \in {"error", "failure"}
        PROVE  /\ SeenByScript(k) \in Seq(RaisedRecord)
               /\ k = kind => SeenByScript(k)' = Append(SeenByScript(k), new)
               /\ k # kind => SeenByScript(k)' = SeenByScript(k)
    <3>1. /\ SeenByScript(k) \in Seq(RaisedRecord)
          /\ SeenByScript(k)' = IF new.kind = k /\ new.seen THEN Append(SeenByScript(k), new)
                                ELSE SeenByScript(k)
      BY <1>2, SeenGrows DEF LogInv
    <3>2. new.kind = kind /\ new.seen = TRUE
      BY <1>2
    <3> QED BY <3>1, <3>2
  <2>6. NewestSeen("error") = LastOf(SeenByScript("error"), MaxEntries)
        /\ NewestSeen("error")' = LastOf(SeenByScript("error")', MaxEntries)
    BY DEF NewestSeen
  <2>7. NewestSeen("failure") = LastOf(SeenByScript("failure"), MaxEntries)
        /\ NewestSeen("failure")' = LastOf(SeenByScript("failure")', MaxEntries)
    BY DEF NewestSeen
  <2>8. CASE kind = "error"
    <3>1. layers'[1].errors = LastOf(Append(layers[1].errors, e), MaxEntries)
          /\ layers'[1].failures = layers[1].failures
      BY <1>6, <2>1, <2>2, <2>8
    <3>2. SeenByScript("error") \in Seq(RaisedRecord)
          /\ SeenByScript("error")' = Append(SeenByScript("error"), new)
          /\ SeenByScript("failure")' = SeenByScript("failure")
      BY <2>5, <2>8
    <3>3. SameIds(LastOf(Append(layers[1].errors, e), MaxEntries),
                  LastOf(Append(SeenByScript("error"), new), MaxEntries))
      BY <1>2, <1>3, <2>3, <2>4, <2>6, <3>2, LastGrows
    <3> QED BY <2>4, <2>6, <2>7, <3>1, <3>2, <3>3
  <2>9. CASE kind = "failure"
    <3>1. layers'[1].failures = LastOf(Append(layers[1].failures, e), MaxEntries)
          /\ layers'[1].errors = layers[1].errors
      BY <1>6, <2>1, <2>2, <2>9
    <3>2. SeenByScript("failure") \in Seq(RaisedRecord)
          /\ SeenByScript("failure")' = Append(SeenByScript("failure"), new)
          /\ SeenByScript("error")' = SeenByScript("error")
      BY <2>5, <2>9
    <3>3. SameIds(LastOf(Append(layers[1].failures, e), MaxEntries),
                  LastOf(Append(SeenByScript("failure"), new), MaxEntries))
      BY <1>2, <1>3, <2>3, <2>4, <2>7, <3>2, LastGrows
    <3> QED BY <2>4, <2>6, <2>7, <3>1, <3>2, <3>3
  <2> QED BY <2>8, <2>9
<1> QED BY <1>8, <1>9, <1>11, <1>12 DEF LogInv

\* Buffers that are all empty, and nothing that was seen.
LEMMA LogEmptied ==
  ASSUME LogInv, UNCHANGED <<pageTime, nextEntry>>, fetching' \subseteq Nat,
         registered' \subseteq ScriptServers,
         layers' \in Seq(Layer), raised' \in Seq(RaisedRecord),
         \A i \in DOMAIN layers' : layers'[i].keeps <=> i = 1,
         \A i \in DOMAIN raised' : ~raised'[i].seen,
         layers' # <<>> => layers'[1].errors = <<>> /\ layers'[1].failures = <<>>
  PROVE  LogInv'
<1>1. LogTyped' /\ BottomKeeps' /\ UnseenWithout'
  BY DEF LogInv, LogTyped, BottomKeeps, UnseenWithout
<1>2. ASSUME NEW kind PROVE Len(NewestSeen(kind)') = 0
  <2>1. Len(LastOf(Filtered(raised', {i \in DOMAIN raised' : raised'[i].kind = kind /\ raised'[i].seen}),
                   MaxEntries)) = 0
    BY NothingPasses
  <2> QED BY <2>1 DEF NewestSeen, SeenByScript
<1>3. Len(NewestSeen("error")') = 0 /\ Len(NewestSeen("failure")') = 0
  BY <1>2
<1>4. BottomHasAll'
  <2> SUFFICES ASSUME layers' # <<>>
               PROVE  /\ SameIds(layers'[1].errors, NewestSeen("error")')
                      /\ SameIds(layers'[1].failures, NewestSeen("failure")')
    BY DEF BottomHasAll
  <2> QED BY <1>3 DEF SameIds
<1> QED BY <1>1, <1>4 DEF LogInv

LEMMA InjectKeeps == ASSUME LogInv, NEW s \in ScriptServers, InjectScript(s) PROVE LogInv'
<1> DEFINE new == [version |-> s, keeps |-> ~HasPrevious(layers), errors |-> << >>,
                   failures |-> << >>]
<1>1. /\ UNCHANGED <<raised, pageTime, nextEntry, fetching, registered>>
      /\ layers' = layers \/ layers' = Append(layers, new)
  BY DEF InjectScript, Installed, diagHistory
<1>2. /\ pageTime \in Nat /\ nextEntry \in Nat /\ fetching \subseteq Nat
      /\ registered \subseteq ScriptServers /\ layers \in Seq(Layer)
      /\ raised \in Seq(RaisedRecord)
  BY DEF LogInv, LogTyped
<1>3. CASE layers' = layers
  BY <1>1, <1>2, <1>3, LogSame
<1>4. CASE layers' = Append(layers, new)
  <2>1. /\ new \in Layer /\ new.keeps = (layers = <<>>)
        /\ new.errors = <<>> /\ new.failures = <<>>
    BY DEF HasPrevious, Layer
  <2> HIDE DEF new
  <2>2. /\ layers' \in Seq(Layer) /\ DOMAIN layers' = 1..(Len(layers) + 1)
        /\ layers'[Len(layers) + 1] = new /\ Len(layers) \in Nat
        /\ DOMAIN layers = 1..Len(layers)
        /\ \A i \in 1..Len(layers) : layers'[i] = layers[i]
    BY <1>2, <1>4, <2>1
  <2>3. LogTyped'
    BY <1>1, <1>2, <2>2 DEF LogTyped
  <2>4. CASE layers = <<>>
    <3>1. DOMAIN layers' = {1} /\ layers'[1] = new
      BY <2>2, <2>4
    <3>2. \A i \in DOMAIN layers' : layers'[i].keeps <=> i = 1
      BY <2>1, <2>4, <3>1
    <3>3. \A i \in DOMAIN raised' : ~raised'[i].seen
      BY <1>1, <2>4 DEF LogInv, UnseenWithout
    <3> QED BY <1>1, <1>2, <2>1, <2>2, <3>1, <3>2, <3>3, LogEmptied
  <2>5. CASE layers # <<>>
    <3>1. 1 \in 1..Len(layers) /\ layers'[1] = layers[1] /\ new.keeps = FALSE
      <4>1. new.keeps = FALSE
        BY <2>1, <2>5
      <4>2. Len(layers) # 0
        BY <1>2, <2>5
      <4>3. 1 \in 1..Len(layers)
        BY <2>2, <4>2
      <4> QED BY <2>2, <4>1, <4>3
    <3>2. BottomKeeps'
      <4> SUFFICES ASSUME NEW i \in DOMAIN layers' PROVE layers'[i].keeps <=> i = 1
        BY DEF BottomKeeps
      <4>1. CASE i \in 1..Len(layers)
        BY <2>2, <4>1 DEF LogInv, BottomKeeps
      <4>2. CASE i = Len(layers) + 1
        <5>1. i # 1 /\ layers'[i].keeps = FALSE
          BY <2>2, <3>1, <4>2
        <5> QED BY <5>1
      <4> QED BY <2>2, <4>1, <4>2
    <3>3. UnseenWithout'
      BY <2>2, <3>1 DEF UnseenWithout
    <3>4. BottomHasAll'
      BY <1>1, <2>5, <3>1 DEF LogInv, BottomHasAll, NewestSeen, SeenByScript
    <3> QED BY <2>3, <3>2, <3>3, <3>4 DEF LogInv
  <2> QED BY <2>4, <2>5
<1> QED BY <1>1, <1>3, <1>4

LEMMA NewDocumentKeeps == ASSUME LogInv, NewDocument PROVE LogInv'
<1>1. PICK order \in Orders(registered) :
        layers' = [i \in DOMAIN order |-> [version |-> order[i], keeps |-> i = 1,
                                           errors |-> << >>, failures |-> << >>]]
  BY DEF NewDocument
<1>2. /\ fetching' = {} /\ raised' = <<>> /\ UNCHANGED <<pageTime, nextEntry, registered>>
      /\ registered \subseteq ScriptServers
  BY DEF NewDocument, serverSide, LogInv, LogTyped
<1>3. Cardinality(registered) \in Nat
  <2>1. IsFiniteSet(ScriptServers)
    BY DiagnosticsAssumption
  <2> QED BY <1>2, <2>1, FS_Subset, FS_CardinalityType
<1>4. order \in [1..Cardinality(registered) -> ScriptServers]
  BY <1>2 DEF Orders
<1>5. \A i \in 1..Cardinality(registered) :
        /\ layers'[i] \in Layer /\ (layers'[i].keeps <=> i = 1)
        /\ layers'[i].errors = <<>> /\ layers'[i].failures = <<>>
  <2> TAKE i \in 1..Cardinality(registered)
  <2> DEFINE first == i = 1
  <2>1. order[i] \in ScriptServers /\ i \in DOMAIN order /\ first \in BOOLEAN
    BY <1>4
  <2>2. layers'[i] = [version |-> order[i], keeps |-> first, errors |-> <<>>, failures |-> <<>>]
    BY <1>1, <2>1
  <2>3. \A v \in ScriptServers : \A b \in BOOLEAN :
          [version |-> v, keeps |-> b, errors |-> <<>>, failures |-> <<>>] \in Layer
    BY DEF Layer
  <2>4. layers'[i] \in Layer
    <3> HIDE DEF first
    <3> QED BY <2>1, <2>2, <2>3
  <2>5. layers'[i].keeps <=> i = 1
    <3>1. layers'[i].keeps = first
      BY <2>2
    <3> QED BY <3>1
  <2>6. layers'[i].errors = <<>> /\ layers'[i].failures = <<>>
    <3> HIDE DEF first
    <3> QED BY <2>2
  <2> QED BY <2>4, <2>5, <2>6
<1>6. layers' \in [1..Cardinality(registered) -> Layer]
  <2>1. layers' = [i \in 1..Cardinality(registered) |-> layers'[i]]
    BY <1>1, <1>4
  <2> QED BY <1>5, <2>1
<1>7. layers' \in Seq(Layer) /\ DOMAIN layers' = 1..Cardinality(registered)
  <2>1. \A m \in Nat : \A f \in [1..m -> Layer] : f \in Seq(Layer)
    OBVIOUS
  <2> QED BY <1>3, <1>6, <2>1
<1>8. layers' # <<>> => 1 \in DOMAIN layers'
  <2>1. \A s \in Seq(Layer) : s # <<>> => 1 \in DOMAIN s
    OBVIOUS
  <2> QED BY <1>7, <2>1
<1>9. \A i \in DOMAIN raised' : ~raised'[i].seen
  BY <1>2
<1>10. raised' \in Seq(RaisedRecord)
  BY <1>2
<1> QED BY <1>2, <1>5, <1>7, <1>8, <1>9, <1>10, LogEmptied

LEMMA WipeKeeps == ASSUME LogInv, PageWipesGlobals PROVE LogInv'
<1>1. /\ layers' = <<>> /\ fetching' = {} /\ UNCHANGED <<pageTime, nextEntry, registered>>
      /\ raised' = [i \in DOMAIN raised |-> [raised[i] EXCEPT !.seen = FALSE]]
      /\ registered \subseteq ScriptServers /\ raised \in Seq(RaisedRecord)
  BY DEF PageWipesGlobals, serverSide, LogInv, LogTyped
<1>2. \A i \in 1..Len(raised) : raised[i] \in RaisedRecord
  BY <1>1
<1>3. raised' \in [1..Len(raised) -> RaisedRecord]
  <2>1. \A r \in RaisedRecord : [r EXCEPT !.seen = FALSE] \in RaisedRecord
    BY DEF RaisedRecord
  <2>2. DOMAIN raised = 1..Len(raised)
    BY <1>1
  <2> QED BY <1>1, <1>2, <2>1, <2>2
<1>4. raised' \in Seq(RaisedRecord)
  <2>1. \A m \in Nat : \A f \in [1..m -> RaisedRecord] : f \in Seq(RaisedRecord)
    OBVIOUS
  <2> QED BY <1>1, <1>3, <2>1
<1>5. \A i \in DOMAIN raised' : ~raised'[i].seen
  BY <1>1, <1>2 DEF RaisedRecord
<1> QED BY <1>1, <1>4, <1>5, LogEmptied

LEMMA ClearKeeps == ASSUME LogInv, NEW s \in ScriptServers, ClearLog(s) PROVE LogInv'
<1>1. /\ layers' = [i \in DOMAIN layers |->
                      [layers[i] EXCEPT !.errors = << >>, !.failures = << >>]]
      /\ raised' = <<>> /\ UNCHANGED <<pageTime, nextEntry, registered, fetching>>
  BY DEF ClearLog
<1>2. /\ registered \subseteq ScriptServers /\ fetching \subseteq Nat /\ layers \in Seq(Layer)
  BY DEF LogInv, LogTyped
<1>3. \A i \in 1..Len(layers) :
        /\ layers'[i] \in Layer /\ layers'[i].keeps = layers[i].keeps
        /\ layers'[i].errors = <<>> /\ layers'[i].failures = <<>>
  <2> TAKE i \in 1..Len(layers)
  <2>1. layers[i] \in Layer /\ i \in DOMAIN layers
    BY <1>2
  <2>2. layers'[i] = [layers[i] EXCEPT !.errors = << >>, !.failures = << >>]
    BY <1>1, <2>1
  <2>3. \A r \in Layer :
          LET c == [r EXCEPT !.errors = <<>>, !.failures = <<>>]
          IN  c \in Layer /\ c.keeps = r.keeps /\ c.errors = <<>> /\ c.failures = <<>>
    <3> TAKE r \in Layer
    <3>1. r = [version |-> r.version, keeps |-> r.keeps, errors |-> r.errors,
               failures |-> r.failures]
          /\ r.version \in ScriptServers /\ r.keeps \in BOOLEAN
      BY DEF Layer
    <3>2. [r EXCEPT !.errors = <<>>, !.failures = <<>>]
            = [version |-> r.version, keeps |-> r.keeps, errors |-> <<>>, failures |-> <<>>]
      <4>1. \A v, k, p, f : [[version |-> v, keeps |-> k, errors |-> p, failures |-> f]
                               EXCEPT !.errors = <<>>, !.failures = <<>>]
                             = [version |-> v, keeps |-> k, errors |-> <<>>, failures |-> <<>>]
        <5>1. \A z : [z EXCEPT !.errors = <<>>, !.failures = <<>>]
                       = [[z EXCEPT !.errors = <<>>] EXCEPT !.failures = <<>>]
          OBVIOUS
        <5>2. \A v, k, p, f : [[version |-> v, keeps |-> k, errors |-> p, failures |-> f]
                                 EXCEPT !.errors = <<>>]
                               = [version |-> v, keeps |-> k, errors |-> <<>>, failures |-> f]
          OBVIOUS
        <5>3. \A v, k, p, f : [[version |-> v, keeps |-> k, errors |-> p, failures |-> f]
                                 EXCEPT !.failures = <<>>]
                               = [version |-> v, keeps |-> k, errors |-> p, failures |-> <<>>]
          OBVIOUS
        <5>4. TAKE v, k, p, f
        <5> DEFINE z == [version |-> v, keeps |-> k, errors |-> p, failures |-> f]
        <5>5. [z EXCEPT !.errors = <<>>]
                = [version |-> v, keeps |-> k, errors |-> <<>>, failures |-> f]
          BY <5>2
        <5>6. [[version |-> v, keeps |-> k, errors |-> <<>>, failures |-> f]
                EXCEPT !.failures = <<>>]
                = [version |-> v, keeps |-> k, errors |-> <<>>, failures |-> <<>>]
          BY <5>3
        <5> HIDE DEF z
        <5>7. [z EXCEPT !.errors = <<>>, !.failures = <<>>]
                = [version |-> v, keeps |-> k, errors |-> <<>>, failures |-> <<>>]
          BY <5>1, <5>5, <5>6, Zenon
        <5> QED BY <5>7 DEF z
      <4> DEFINE w == [version |-> r.version, keeps |-> r.keeps, errors |-> r.errors,
                       failures |-> r.failures]
                 cleared == [version |-> r.version, keeps |-> r.keeps, errors |-> <<>>,
                             failures |-> <<>>]
      <4>2. [w EXCEPT !.errors = <<>>, !.failures = <<>>] = cleared
        BY ONLY <4>1
      <4>3. r = w
        BY <3>1
      <4> HIDE DEF w, cleared
      <4>4. [r EXCEPT !.errors = <<>>, !.failures = <<>>] = cleared
        BY ONLY <4>2, <4>3, Zenon
      <4> QED BY <4>4 DEF cleared
    <3>3. \A v \in ScriptServers : \A b \in BOOLEAN :
            [version |-> v, keeps |-> b, errors |-> <<>>, failures |-> <<>>] \in Layer
      BY DEF Layer
    <3> QED BY <3>1, <3>2, <3>3
  <2> QED BY <2>1, <2>2, <2>3
<1>4. layers' \in [1..Len(layers) -> Layer]
  <2>1. DOMAIN layers = 1..Len(layers)
    BY <1>2
  <2>2. layers' = [i \in 1..Len(layers) |-> layers'[i]]
    BY <1>1, <2>1
  <2> QED BY <1>3, <2>2
<1>5. layers' \in Seq(Layer) /\ DOMAIN layers' = 1..Len(layers) /\ DOMAIN layers = 1..Len(layers)
  <2>1. \A m \in Nat : \A f \in [1..m -> Layer] : f \in Seq(Layer)
    OBVIOUS
  <2> QED BY <1>2, <1>4, <2>1
<1>6. \A i \in DOMAIN layers' : layers'[i].keeps <=> i = 1
  BY <1>3, <1>5 DEF LogInv, BottomKeeps
<1>7. layers' # <<>> => 1 \in 1..Len(layers)
  BY <1>2, <1>5
<1>8. \A i \in DOMAIN raised' : ~raised'[i].seen
  <2>1. raised' = <<>>
    BY <1>1
  <2>2. \A i \in DOMAIN <<>> : FALSE
    OBVIOUS
  <2> QED BY ONLY <2>1, <2>2
<1>9. raised' \in Seq(RaisedRecord)
  <2>1. raised' = <<>>
    BY <1>1
  <2> QED BY ONLY <2>1
<1> QED BY <1>1, <1>2, <1>3, <1>5, <1>6, <1>7, <1>8, <1>9, LogEmptied

LEMMA LogNext == LogInv /\ [DiagNext]_diagVars => LogInv'
<1> SUFFICES ASSUME LogInv, [DiagNext]_diagVars PROVE LogInv'
  OBVIOUS
<1>1. /\ pageTime \in Nat /\ nextEntry \in Nat /\ fetching \subseteq Nat
      /\ registered \subseteq ScriptServers
  BY DEF LogInv, LogTyped
<1>2. CASE UNCHANGED diagVars
  BY <1>1, <1>2, LogSame DEF diagVars, serverSide, diagHistory
<1>3. CASE PageRaises
  <2>1. /\ Noted("error", pageTime)
        /\ layers' = Pushed("error", Entry("error", nextEntry, pageTime))
        /\ UNCHANGED <<pageTime, registered, fetching>>
    BY <1>3 DEF PageRaises, serverSide
  <2> QED BY <1>1, <2>1, LogPushed
<1>4. ASSUME NEW began \in fetching, FetchFails(began) PROVE LogInv'
  <2>1. /\ Noted("failure", pageTime)
        /\ layers' = Pushed("failure", Entry("failure", nextEntry, began))
        /\ UNCHANGED <<pageTime, registered>> /\ fetching' = {} /\ began \in Nat
    BY <1>1, <1>4 DEF FetchFails, serverSide
  <2> QED BY <1>1, <2>1, LogPushed
<1>5. CASE FetchBegins \/ PageTick
  <2>1. /\ UNCHANGED <<layers, raised, registered, nextEntry>>
        /\ pageTime' \in {pageTime, pageTime + 1}
        /\ fetching' \in {fetching, {pageTime}}
    BY <1>5 DEF FetchBegins, PageTick, serverSide, diagHistory
  <2> QED BY <1>1, <2>1, LogSame
<1>6. ASSUME NEW s \in ScriptServers,
             \/ RegisterScript(s) \/ DetachReader(s) \/ ReadTelemetry(s) \/ ForgetScripts(s)
             \/ \E n \in 0..(MaxEntries - 1) : ReadNew(s, n)
      PROVE  LogInv'
  <2>1. /\ UNCHANGED <<layers, raised, pageTime, nextEntry, fetching>>
        /\ registered' \subseteq registered \cup {s}
    BY <1>6 DEF RegisterScript, DetachReader, ReadTelemetry, ForgetScripts, ReadNew, diagHistory
  <2> QED BY <1>1, <2>1, LogSame
<1> QED
  BY <1>2, <1>3, <1>4, <1>5, <1>6, InjectKeeps, NewDocumentKeeps, WipeKeeps, ClearKeeps
  DEF DiagNext

\* However many scripts of whatever releases are put over each other: what the page
\* raised while there was one is in the buffers once and in order.
THEOREM ErrorsCorrect == DiagSpec => []ErrorsRecordedOnce
<1>1. LogInv => ErrorsRecordedOnce
  <2> SUFFICES ASSUME LogInv, layers # <<>>
               PROVE  /\ Ids(Base.errors) = Ids(NewestSeen("error"))
                      /\ Ids(Base.failures) = Ids(NewestSeen("failure"))
    BY DEF ErrorsRecordedOnce, NewestSeen
  <2>1. layers \in Seq(Layer) /\ 1 \in DOMAIN layers
    BY DEF LogInv, LogTyped
  <2>2. \A i \in DOMAIN layers : layers[i].keeps <=> i = 1
    BY DEF LogInv, BottomKeeps
  <2>3. (CHOOSE i \in DOMAIN layers :
           layers[i].keeps /\ \A j \in DOMAIN layers : layers[j].keeps => j <= i) = 1
    BY <2>1, <2>2
  <2>4. Base = layers[1]
    BY <2>3 DEF Base
  <2>5. layers[1].errors \in Seq(Logged) /\ layers[1].failures \in Seq(Logged)
    <3>1. layers[1] \in Layer
      BY <2>1
    <3> QED BY <3>1 DEF Layer
  <2>6. ASSUME NEW kind \in {"error", "failure"} PROVE NewestSeen(kind) \in Seq(RaisedRecord)
    <3>1. SeenByScript(kind) \in Seq(RaisedRecord)
      <4>1. /\ raised \in Seq(RaisedRecord)
            /\ {i \in DOMAIN raised : raised[i].kind = kind /\ raised[i].seen}
                 \in SUBSET (1..Len(raised))
        BY DEF LogInv, LogTyped
      <4>2. PICK e : e \in RaisedRecord
        <5>1. [kind |-> "error", id |-> 0, at |-> 0, seen |-> FALSE] \in RaisedRecord
          BY DEF RaisedRecord
        <5> QED BY <5>1
      <4> QED BY <4>1, <4>2, FilteredGrows DEF SeenByScript
    <3>2. MaxEntries \in Nat \ {0}
      BY DiagnosticsAssumption
    <3> QED BY <3>1, <3>2, LastOfFacts DEF NewestSeen
  <2>7. ASSUME NEW s \in Seq(Logged), NEW t \in Seq(RaisedRecord), SameIds(s, t)
        PROVE  Ids(s) = Ids(t)
    BY <2>7 DEF SameIds, Ids
  <2>8. /\ SameIds(layers[1].errors, NewestSeen("error"))
        /\ SameIds(layers[1].failures, NewestSeen("failure"))
    BY DEF LogInv, BottomHasAll
  <2> QED BY <2>4, <2>5, <2>6, <2>7, <2>8
<1> QED BY <1>1, LogInit, LogNext, PTL DEF DiagSpec

-----------------------------------------------------------------------------
(* Types and bounds: waits.                                                *)

\* What the proofs about signs do not need: the flags of the tools and their bounds.
WaitFlags ==
  /\ shared \in BOOLEAN /\ loaded \in BOOLEAN /\ stale \in BOOLEAN /\ silent \in BOOLEAN
  /\ before \in BOOLEAN /\ recent \in BOOLEAN
WaitBounds ==
  /\ navs \in 0..MaxNavigations /\ noise \in 0..MaxNoise
  /\ told \in 0..MaxNavigations /\ since \in 0..MaxNavigations /\ polled \in 0..MaxNavigations
  /\ base \in [url : Nat, doc : Nat]
  /\ waits \in 0..MaxWaits /\ changed \in {"none", "yes", "no", "dialog"}

LEMMA WaitFlagsNext ==
  ASSUME WaitFlags, [WaitNext]_waitVars
  PROVE  WaitFlags'
<1> USE DEF WaitFlags, pageVars, callVars, jobVars, telemetryVars
<1>1. CASE Commit \/ ChangeUrl \/ Load \/ Noise \/ TelemetryHears \/ Age
  BY <1>1 DEF Commit, ChangeUrl, Load, Noise, TelemetryHears, Age
<1>2. ASSUME NEW j \in {"click", "navigate"}, Act(j) PROVE WaitFlags'
  <2>1. stale' \in BOOLEAN
    BY <1>2, Zenon DEF Act
  <2> QED BY <1>2, <2>1 DEF Act
<1>3. \A result : Ends(result) => WaitFlags'
  BY DEF Ends
<1>4. \A next : Goes(next) => WaitFlags'
  BY DEF Goes
<1>5. Found \/ NoneFound => WaitFlags'
  BY DEF Found, NoneFound
<1>6. CASE DoesNotWait \/ FoundDialog \/ AskTelemetry \/ AskSpa \/ PollUrl \/ LoadRound
  BY <1>3, <1>4, <1>5, <1>6 DEF DoesNotWait, FoundDialog, AskTelemetry, AskSpa, PollUrl, LoadRound
<1>7. CASE ReadUrl \/ ReadDoc
  BY <1>7 DEF ReadUrl, ReadDoc
<1>8. CASE AskCommits
  <2>1. silent' \in BOOLEAN
    BY <1>8, Zenon DEF AskCommits
  <2> QED BY <1>8, <2>1 DEF AskCommits
<1>9. CASE Poll
  BY <1>5, <1>9 DEF Poll
<1>10. CASE UNCHANGED waitVars
  BY <1>10 DEF waitVars
<1> QED BY <1>1, <1>2, <1>6, <1>7, <1>8, <1>9, <1>10 DEF WaitNext, ToolStep

LEMMA WaitBoundsNext ==
  ASSUME MissedInv, WaitBounds, [WaitNext]_waitVars
  PROVE  WaitBounds'
<1> USE DEF WaitBounds, pageVars, callVars, jobVars, telemetryVars
<1>1. /\ MaxNavigations \in Nat /\ MaxNoise \in Nat /\ MaxWaits \in Nat
      /\ doc \in Nat /\ url \in Nat /\ navs \in Nat /\ told \in Nat /\ told <= navs
  BY WaitAssumption DEF MissedInv, WaitTyped
<1>2. NoBase \in [url : Nat, doc : Nat]
  BY DEF NoBase
<1>3. CASE Commit \/ ChangeUrl
  BY <1>1, <1>3 DEF Commit, ChangeUrl
<1>a. CASE Load \/ Noise \/ TelemetryHears \/ Age
  BY <1>1, <1>a DEF Load, Noise, TelemetryHears, Age
<1>4. ASSUME NEW j \in {"click", "navigate"}, Act(j) PROVE WaitBounds'
  <2>1. base' \in [url : Nat, doc : Nat]
    BY <1>1, <1>4 DEF Act
  <2>2. /\ since' = navs /\ polled' = navs /\ waits < MaxWaits /\ waits' = waits + 1
        /\ changed' = "none" /\ UNCHANGED <<navs, noise, told>>
    BY <1>4 DEF Act
  <2> QED BY <1>1, <2>1, <2>2
<1>5. ASSUME NEW result \in {"none", "yes", "no", "dialog"}, Ends(result) PROVE WaitBounds'
  <2>1. changed' = result /\ base' = NoBase /\ UNCHANGED <<navs, noise, told, since, waits, polled>>
    BY <1>5 DEF Ends
  <2> QED BY <1>2, <2>1
<1>6. \A next : Goes(next) => WaitBounds'
  BY DEF Goes
<1>7. Found \/ NoneFound => WaitBounds'
  BY DEF Found, NoneFound
<1>8. CASE DoesNotWait \/ FoundDialog \/ AskTelemetry \/ AskSpa \/ PollUrl \/ LoadRound
  BY <1>5, <1>6, <1>7, <1>8 DEF DoesNotWait, FoundDialog, AskTelemetry, AskSpa, PollUrl, LoadRound
<1>9. CASE ReadUrl \/ ReadDoc
  <2>1. base' \in [url : Nat, doc : Nat]
    BY <1>1, <1>9 DEF ReadUrl, ReadDoc
  <2>2. polled' \in {polled, navs} /\ UNCHANGED <<navs, noise, told, since, waits, changed>>
    BY <1>9 DEF ReadUrl, ReadDoc
  <2> QED BY <1>1, <2>1, <2>2
<1>10. CASE AskCommits
  <2>1. changed' \in {changed, "yes"} /\ UNCHANGED <<navs, noise, told, since, waits, polled, base>>
    BY <1>10 DEF AskCommits
  <2> QED BY <2>1
<1>11. CASE Poll
  <2>1. ASSUME ~FrameDiffers
        PROVE  /\ polled' = navs /\ changed' \in {changed, "no"} /\ base' \in {base, NoBase}
               /\ UNCHANGED <<navs, noise, told, since, waits>>
    BY <1>11, <2>1 DEF Poll
  <2> QED BY <1>1, <1>2, <1>7, <1>11, <2>1 DEF Poll
<1>12. CASE UNCHANGED waitVars
  BY <1>12 DEF waitVars
<1> QED BY <1>3, <1>a, <1>4, <1>8, <1>9, <1>10, <1>11, <1>12 DEF WaitNext, ToolStep

\* The tools that wait for a navigation keep their types and bounds, whatever the order of
\* events and reads (PageWait).
THEOREM WaitTypeCorrect == WaitSpec => []WaitTypeOK
<1>1. WaitInit => MissedInv /\ WaitFlags /\ WaitBounds
  <2>1. MaxNavigations \in Nat /\ MaxNoise \in Nat /\ MaxWaits \in Nat
    BY WaitAssumption
  <2>2. NoBase \in [url : Nat, doc : Nat]
    BY DEF NoBase
  <2>3. WaitInit => WaitFlags
    BY DEF WaitInit, WaitFlags
  <2> QED BY <2>1, <2>2, <2>3, WaitInitInv DEF WaitInit, WaitBounds
<1>2. MissedInv /\ WaitFlags /\ WaitBounds => WaitTypeOK
  BY DEF MissedInv, WaitTyped, WaitFlags, WaitBounds, WaitTypeOK
<1> QED BY <1>1, <1>2, WaitNextInv, WaitFlagsNext, WaitBoundsNext, PTL DEF WaitSpec

-----------------------------------------------------------------------------
(* Types and bounds: telemetry.                                            *)

\* What the proofs about deltas and records do not need: the bounds.
ClockBounds == now <= MaxClock /\ clearing \in BOOLEAN /\ deaf \subseteq Requests

WithinHops(q) == \A i \in DOMAIN q : q[i].hop <= MaxHops /\ q[i].status <= MaxHops
MapBounds ==
  /\ \A r \in Requests : page[r].hop <= MaxHops
  /\ WithinHops(req) /\ WithinHops(reqDone)
  /\ \A m \in tracing : m.hop <= MaxHops /\ m.status <= MaxHops
  /\ Len(req) <= MaxRequestMap /\ Len(reqDone) <= MaxRequestMap

Over == {r \in Requests : page[r].stage = "over"}
HarBounds ==
  /\ pushed <= Cardinality(Over) /\ Len(har) <= MaxBuffer
  /\ \A i \in DOMAIN given : given[i] >= 1
  /\ gone \subseteq 1..pushed /\ blind \subseteq 1..pushed

LEMMA ClockBoundsNext ==
  ASSUME HarTyped, ClockBounds, [TelemetryNext]_telemetryTabVars
  PROVE  ClockBounds'
<1> USE DEF ClockBounds, bufferVars, readerVars
<1>1. now \in Nat /\ MaxClock \in Nat
  BY TelemetryAssumption DEF HarTyped
<1>2. ASSUME NEW r \in Requests,
             \/ RequestWillBeSent(r) \/ ResponseReceived(r)
             \/ \E fails \in BOOLEAN : RequestEnds(r, fails)
      PROVE  ClockBounds'
  <2>1. UNCHANGED <<now, clearing>>
    BY <1>2 DEF RequestWillBeSent, ResponseReceived, RequestEnds, Quiet
  <2>2. deaf' \subseteq deaf \cup {r}
    BY <1>2 DEF RequestWillBeSent, ResponseReceived, RequestEnds, Hears, Misses
  <2> QED BY <2>1, <2>2
<1>3. CASE OtherEvent \/ ClearHarLite \/ ClearTelemetry \/ TraceLists
  BY <1>3 DEF OtherEvent, Quiet, ClearHarLite, ClearTelemetry, TraceLists
<1>4. CASE TimePasses
  BY <1>1, <1>4 DEF TimePasses
<1>5. CASE \E clear \in BOOLEAN : HarLite(clear) \/ TraceReports(clear)
  BY <1>5 DEF HarLite, TraceReports
<1>6. CASE UNCHANGED telemetryTabVars
  BY <1>6 DEF telemetryTabVars
<1> QED BY <1>2, <1>3, <1>4, <1>5, <1>6 DEF TelemetryNext

LEMMA NewestBounded ==
  ASSUME NEW S, NEW q \in Seq(S), NEW n \in Nat \ {0}
  PROVE  Len(Newest(q, n)) <= n
<1>1. CASE Len(q) <= n
  BY <1>1 DEF Newest
<1>2. CASE Len(q) > n
  <2>1. Newest(q, n) = SubSeq(q, Len(q) - n + 1, Len(q))
    BY <1>2 DEF Newest
  <2>2. Len(SubSeq(q, Len(q) - n + 1, Len(q))) = n
    BY <1>2
  <2> QED BY <2>1, <2>2
<1> QED BY <1>1, <1>2

LEMMA RememberedBounds ==
  ASSUME NEW map \in Seq(NetRecord), NEW meta \in NetRecord, WithinHops(map),
         meta.hop <= MaxHops, meta.status <= MaxHops
  PROVE  /\ WithinHops(Newest(Put(map, meta), MaxRequestMap))
         /\ Len(Newest(Put(map, meta), MaxRequestMap)) <= MaxRequestMap
<1>1. MaxRequestMap \in Nat \ {0}
  BY TelemetryAssumption
<1>2. Put(map, meta) \in Seq(NetRecord)
  BY PutFacts
<1>3. Len(Newest(Put(map, meta), MaxRequestMap)) <= MaxRequestMap
  BY <1>1, <1>2, NewestBounded
<1> DEFINE new == Newest(Put(map, meta), MaxRequestMap)
<1>4. \A i \in DOMAIN new : new[i] = meta \/ \E j \in DOMAIN map : new[i] = map[j]
  BY RememberedFacts
<1> HIDE DEF new
<1>5. WithinHops(new)
  BY <1>4 DEF WithinHops
<1> QED BY <1>3, <1>5 DEF new

LEMMA WithoutBounds ==
  ASSUME NEW map \in Seq(NetRecord), NEW r, WithinHops(map), Len(map) <= MaxRequestMap
  PROVE  WithinHops(Without(map, r)) /\ Len(Without(map, r)) <= MaxRequestMap
<1>1. WithinHops(Without(map, r))
  <2>1. \A k \in DOMAIN Without(map, r) : \E i \in DOMAIN map : Without(map, r)[k] = map[i]
    BY WithoutFacts
  <2> QED BY <2>1 DEF WithinHops
<1> DEFINE rest == DOMAIN map \ Place(map, r)
<1>2. rest \in SUBSET (1..Len(map)) /\ Len(map) \in Nat
  OBVIOUS
<1> HIDE DEF rest
<1>3. IsFiniteSet(1..Len(map)) /\ Cardinality(1..Len(map)) = Len(map)
  <2>1. PICK n \in Nat : n = Len(map)
    BY <1>2
  <2>2. /\ IsFiniteSet(1..n)
        /\ Cardinality(1..n) = IF 1 > n THEN 0 ELSE n - 1 + 1
    BY FS_Interval
  <2>3. (IF 1 > n THEN 0 ELSE n - 1 + 1) = n
    OBVIOUS
  <2> QED BY <2>1, <2>2, <2>3
<1>4. IsFiniteSet(rest) /\ Cardinality(rest) <= Len(map) /\ Cardinality(rest) \in Nat
  BY <1>2, <1>3, FS_Subset, FS_CardinalityType
<1>5. rest \in SUBSET Nat
  BY <1>2
<1>6. Len(Filtered(map, rest)) = Cardinality(rest)
  BY <1>4, <1>5, FilteredFacts
<1>7. MaxRequestMap \in Nat
  BY TelemetryAssumption
<1>8. Len(Without(map, r)) = Cardinality(rest)
  BY <1>6 DEF Without, rest
<1> QED BY <1>1, <1>2, <1>4, <1>7, <1>8

LEMMA KnownBounds ==
  ASSUME WithinHops(req), NEW r
  PROVE  Known(r).hop <= MaxHops /\ Known(r).status <= MaxHops
<1>1. CASE Place(req, r) = {}
  <2>1. Known(r).hop = 0 /\ Known(r).status = 0 /\ MaxHops \in Nat
    BY <1>1, TelemetryAssumption DEF Known, Unknown
  <2> QED BY <2>1
<1>2. CASE Place(req, r) # {}
  <2> DEFINE i == CHOOSE x \in Place(req, r) : TRUE
  <2>1. Known(r) = req[i] /\ i \in DOMAIN req
    BY <1>2 DEF Known, Place
  <2> QED BY <2>1 DEF WithinHops
<1> QED BY <1>1, <1>2

LEMMA MapBoundsNext ==
  ASSUME RecordsInv, MapBounds, [TelemetryNext]_telemetryTabVars
  PROVE  MapBounds'
<1>1. /\ MaxHops \in Nat /\ MaxRequestMap \in Nat \ {0}
      /\ page \in [Requests -> [stage : Stage, hop : Nat]]
      /\ req \in Seq(NetRecord) /\ reqDone \in Seq(NetRecord)
  BY TelemetryAssumption DEF RecordsInv, MapsTyped
<1>2. /\ \A r \in Requests : page[r].hop <= MaxHops /\ page[r].hop \in Nat
      /\ WithinHops(req) /\ WithinHops(reqDone)
      /\ Len(req) <= MaxRequestMap /\ Len(reqDone) <= MaxRequestMap
  BY <1>1 DEF MapBounds
<1>3. WithinHops(<<>>) /\ Len(<<>>) <= MaxRequestMap
  BY <1>1 DEF WithinHops
<1>4. ASSUME UNCHANGED page,
             UNCHANGED req \/ req' = <<>>, UNCHANGED reqDone \/ reqDone' = <<>>,
             \A m \in tracing' : m \in tracing \/ \E i \in DOMAIN reqDone : m = reqDone[i]
      PROVE  MapBounds'
  <2>1. WithinHops(req') /\ WithinHops(reqDone') /\ Len(req') <= MaxRequestMap
        /\ Len(reqDone') <= MaxRequestMap
    BY <1>2, <1>3, <1>4
  <2>2. \A m \in tracing' : m.hop <= MaxHops /\ m.status <= MaxHops
    BY <1>4 DEF MapBounds, WithinHops
  <2>3. WithinHops(req)' /\ WithinHops(reqDone)'
    BY <2>1 DEF WithinHops
  <2> QED BY <1>2, <1>4, <2>1, <2>2, <2>3 DEF MapBounds
<1>5. ASSUME NEW r \in Requests,
             page' = [page EXCEPT ![r] = page'[r]], page'[r].hop <= MaxHops, UNCHANGED tracing,
             WithinHops(req'), WithinHops(reqDone'), Len(req') <= MaxRequestMap,
             Len(reqDone') <= MaxRequestMap
      PROVE  MapBounds'
  <2>1. \A q \in Requests : page'[q].hop <= MaxHops
    BY <1>1, <1>2, <1>5
  <2>2. WithinHops(req)' /\ WithinHops(reqDone)'
    BY <1>5 DEF WithinHops
  <2> QED BY <1>5, <2>1, <2>2 DEF MapBounds
<1>6. ASSUME NEW r \in Requests, RequestWillBeSent(r) PROVE MapBounds'
  <2> DEFINE meta == [id |-> r, hop |-> page[r].hop + 1, status |-> 0]
  <2>1. /\ page[r].hop < MaxHops /\ page[r].hop \in Nat
        /\ page' = [page EXCEPT ![r] = [stage |-> "sent", hop |-> page[r].hop + 1]]
        /\ UNCHANGED <<tracing, reqDone>>
    BY <1>1, <1>6 DEF RequestWillBeSent, Quiet, readerVars, Misses
  <2>2. page'[r] = [stage |-> "sent", hop |-> page[r].hop + 1]
    BY <1>1, <2>1
  <2>3. page' = [page EXCEPT ![r] = page'[r]] /\ page'[r].hop <= MaxHops
    BY <1>1, <2>1, <2>2
  <2>4. req' = Newest(Put(req, meta), MaxRequestMap) \/ req' = req
    BY <1>6 DEF RequestWillBeSent, RememberRequest, Misses
  <2>5. meta \in NetRecord /\ meta.hop <= MaxHops /\ meta.status <= MaxHops
    BY <1>1, <2>1 DEF NetRecord
  <2> HIDE DEF meta
  <2>6. WithinHops(req') /\ Len(req') <= MaxRequestMap
    BY <1>1, <1>2, <2>4, <2>5, RememberedBounds
  <2> QED BY <1>2, <1>5, <2>1, <2>3, <2>6
<1>7. ASSUME NEW r \in Requests, ResponseReceived(r) PROVE MapBounds'
  <2> DEFINE meta == [Known(r) EXCEPT !.status = page[r].hop]
  <2>1. /\ page' = [page EXCEPT ![r].stage = "answered"] /\ UNCHANGED <<tracing, reqDone>>
    BY <1>7 DEF ResponseReceived, Quiet, readerVars, Misses
  <2>2. page'[r] = [page[r] EXCEPT !.stage = "answered"] /\ page[r] \in [stage : Stage, hop : Nat]
    BY <1>1, <2>1
  <2>3. page' = [page EXCEPT ![r] = page'[r]] /\ page'[r].hop <= MaxHops
    BY <1>1, <1>2, <2>1, <2>2
  <2>4. req' = Put(req, meta) \/ req' = req
    BY <1>7 DEF ResponseReceived, Misses
  <2>x. Known(r).hop = 0 => req' = req
    BY <1>7 DEF ResponseReceived, Misses
  <2>5. /\ Known(r) \in NetRecord /\ Known(r).id = r /\ Known(r).hop <= MaxHops
    BY <1>2, KnownFacts, KnownBounds
  <2>6. meta \in NetRecord /\ meta.id = r /\ meta.hop <= MaxHops /\ meta.status <= MaxHops
    BY <1>2, <2>5 DEF NetRecord
  <2> HIDE DEF meta
  <2>7. CASE req' # req
    <3>1. Place(req, r) # {}
      BY <2>7, <2>x DEF Known, Unknown
    <3>2. req' = [i \in DOMAIN req |-> IF req[i].id = r THEN meta ELSE req[i]]
      BY <2>4, <2>6, <2>7, <3>1 DEF Put
    <3>3. \A i \in DOMAIN req' : req'[i] = meta \/ (i \in DOMAIN req /\ req'[i] = req[i])
      BY <3>2
    <3>4. WithinHops(req')
      BY <1>2, <2>6, <3>3 DEF WithinHops
    <3>5. DOMAIN req' = 1..Len(req) /\ Len(req) \in Nat
      BY <1>1, <3>2
    <3>6. Len(req') = Len(req)
      BY <3>2, <3>5, LenProperties
    <3> QED BY <1>2, <1>5, <2>1, <2>3, <3>4, <3>6
  <2>8. CASE req' = req
    BY <1>2, <1>5, <2>1, <2>3, <2>8
  <2> QED BY <2>7, <2>8
<1>8. ASSUME NEW r \in Requests, NEW fails \in BOOLEAN, RequestEnds(r, fails) PROVE MapBounds'
  <2>1. /\ page' = [page EXCEPT ![r].stage = "over"] /\ UNCHANGED tracing
    BY <1>8 DEF RequestEnds, Quiet, readerVars
  <2>2. page'[r] = [page[r] EXCEPT !.stage = "over"] /\ page[r] \in [stage : Stage, hop : Nat]
    BY <1>1, <2>1
  <2>3. page' = [page EXCEPT ![r] = page'[r]] /\ page'[r].hop <= MaxHops
    BY <1>1, <1>2, <2>1, <2>2
  <2>4. Known(r) \in NetRecord /\ Known(r).hop <= MaxHops /\ Known(r).status <= MaxHops
    BY <1>2, KnownFacts, KnownBounds
  <2>5. \/ req' = Without(req, r) /\ reqDone' = Newest(Put(reqDone, Known(r)), MaxRequestMap)
        \/ UNCHANGED <<req, reqDone>>
    BY <1>8 DEF RequestEnds, RememberDone, Misses
  <2>6. WithinHops(req') /\ Len(req') <= MaxRequestMap
    BY <1>1, <1>2, <2>5, WithoutBounds
  <2>7. WithinHops(reqDone') /\ Len(reqDone') <= MaxRequestMap
    BY <1>1, <1>2, <2>4, <2>5, RememberedBounds
  <2> QED BY <1>5, <2>1, <2>3, <2>6, <2>7
<1>9. CASE OtherEvent \/ TimePasses \/ ClearHarLite \/ ClearTelemetry
  BY <1>4, <1>9 DEF OtherEvent, TimePasses, ClearHarLite, ClearTelemetry, Quiet, readerVars
<1>10. CASE TraceLists
  BY <1>4, <1>10 DEF TraceLists
<1>11. CASE \E clear \in BOOLEAN : HarLite(clear) \/ TraceReports(clear)
  BY <1>4, <1>11 DEF HarLite, TraceReports
<1>12. CASE UNCHANGED telemetryTabVars
  BY <1>4, <1>12 DEF telemetryTabVars, readerVars
<1> QED BY <1>6, <1>7, <1>8, <1>9, <1>10, <1>11, <1>12 DEF TelemetryNext

LEMMA HarBoundsNext ==
  ASSUME HarInv, MapsTyped, HarBounds, [TelemetryNext]_telemetryTabVars
  PROVE  HarBounds'
<1>1. /\ pushed \in Nat /\ har \in Seq([no : Nat, ts : Nat]) /\ given \in Seq(Nat)
      /\ MaxBuffer \in Nat \ {0} /\ IsFiniteSet(Requests)
      /\ page \in [Requests -> [stage : Stage, hop : Nat]]
  BY TelemetryAssumption DEF HarInv, HarTyped, MapsTyped
<1>2. IsFiniteSet(Over) /\ Cardinality(Over) \in Nat
  <2>1. Over \in SUBSET Requests
    BY DEF Over
  <2> QED BY <1>1, <2>1, FS_Subset, FS_CardinalityType
<1>3. \A i \in DOMAIN har : har[i].no \in 1..pushed
  BY DEF HarInv, HarOrdered
<1>4. UNCHANGED page => Over' = Over
  BY DEF Over
<1>5. \A S : {n \in Left(har, S) : ~Reported(n)} \subseteq 1..pushed
  BY <1>3 DEF Left
<1>6. ASSUME UNCHANGED <<har, pushed, gone, blind, given>>, Over' = Over PROVE HarBounds'
  BY <1>6 DEF HarBounds
<1>7. ASSUME NEW r \in Requests, RequestWillBeSent(r) \/ ResponseReceived(r) PROVE HarBounds'
  <2>1. /\ UNCHANGED <<har, pushed, gone, blind, given>>
        /\ page[r].stage # "over"
        /\ page' = [page EXCEPT ![r] = page'[r]] /\ page'[r].stage # "over"
    BY <1>1, <1>7 DEF RequestWillBeSent, ResponseReceived, NoPush, Misses, Quiet, bufferVars
  <2>2. Over' = Over
    <3>1. \A q \in Requests : page'[q].stage = "over" <=> page[q].stage = "over"
      BY <1>1, <2>1
    <3> QED BY <3>1 DEF Over
  <2> QED BY <1>6, <2>1, <2>2
<1>8. ASSUME NEW r \in Requests, NEW fails \in BOOLEAN, RequestEnds(r, fails) PROVE HarBounds'
  <2>1. /\ page[r].stage # "over" /\ page' = [page EXCEPT ![r].stage = "over"] /\ UNCHANGED given
    BY <1>8 DEF RequestEnds, Quiet
  <2>2. Over' = Over \cup {r} /\ r \notin Over
    <3>1. \A q \in Requests : page'[q].stage = "over" <=> page[q].stage = "over" \/ q = r
      BY <1>1, <2>1
    <3> QED BY <2>1, <3>1 DEF Over
  <2>3. Cardinality(Over') = Cardinality(Over) + 1
    BY <1>2, <2>2, FS_AddElement
  <2>4. PushHar \/ UNCHANGED <<har, pushed, gone, blind>>
    BY <1>8 DEF RequestEnds, NoPush, Misses, bufferVars
  <2>5. CASE UNCHANGED <<har, pushed, gone, blind>>
    BY <1>1, <1>2, <2>1, <2>3, <2>5 DEF HarBounds
  <2>6. CASE PushHar
    <3> DEFINE all == Append(har, [no |-> pushed + 1, ts |-> now])
    <3>1. /\ har' = Newest(all, MaxBuffer) /\ pushed' = pushed + 1
          /\ gone' = gone \cup {n \in Left(all, har') : ~Reported(n)}
          /\ blind' \subseteq blind \cup {pushed + 1}
      BY <2>6 DEF PushHar
    <3>2. all \in Seq([no : Nat, ts : Nat])
      <4>1. now \in Nat
        BY DEF HarInv, HarTyped
      <4>2. [no |-> pushed + 1, ts |-> now] \in [no : Nat, ts : Nat]
        BY <1>1, <4>1
      <4> QED BY <1>1, <4>2, AppendProperties
    <3>3. Len(har') <= MaxBuffer
      BY <1>1, <3>1, <3>2, NewestBounded
    <3>4. \A i \in DOMAIN all : all[i].no \in 1..(pushed + 1)
      <4> DEFINE new == [no |-> pushed + 1, ts |-> now]
      <4>1. /\ DOMAIN all = 1..(Len(har) + 1) /\ all[Len(har) + 1] = new
            /\ \A i \in 1..Len(har) : all[i] = har[i]
        BY <1>1
      <4>2. new.no = pushed + 1
        OBVIOUS
      <4>3. \A i \in 1..Len(har) : har[i].no \in 1..pushed
        BY <1>1, <1>3
      <4> HIDE DEF new, all
      <4> TAKE i \in DOMAIN all
      <4>4. CASE i \in 1..Len(har)
        <5>1. all[i].no \in 1..pushed
          BY <4>1, <4>3, <4>4
        <5> QED BY <1>1, <5>1
      <4>5. CASE i = Len(har) + 1
        BY <1>1, <4>1, <4>2, <4>5
      <4>6. Len(har) \in Nat
        BY <1>1
      <4> QED BY <4>1, <4>4, <4>5, <4>6
    <3> HIDE DEF all
    <3>5. gone' \subseteq 1..(pushed + 1)
      <4>1. \A n \in Left(all, har') : n \in 1..(pushed + 1)
        BY <3>4 DEF Left
      <4>2. gone \subseteq 1..(pushed + 1)
        BY <1>1 DEF HarBounds
      <4> QED BY <3>1, <4>1, <4>2
    <3>6. blind' \subseteq 1..(pushed + 1)
      BY <1>1, <3>1 DEF HarBounds
    <3>7. pushed' <= Cardinality(Over')
      BY <1>1, <1>2, <2>3, <3>1 DEF HarBounds
    <3> QED BY <2>1, <3>1, <3>3, <3>5, <3>6, <3>7 DEF HarBounds
  <2> QED BY <2>4, <2>5, <2>6
<1>9. CASE OtherEvent \/ TimePasses \/ TraceLists \/ \E clear \in BOOLEAN : TraceReports(clear)
  <2>1. UNCHANGED <<har, pushed, gone, blind, given, page>>
    BY <1>9 DEF OtherEvent, TimePasses, TraceLists, TraceReports, NoPush, Quiet, bufferVars
  <2> QED BY <1>4, <1>6, <2>1
<1>10. CASE ClearHarLite \/ ClearTelemetry
  <2>1. /\ har' = <<>> /\ gone' = gone \cup {n \in Left(har, <<>>) : ~Reported(n)}
        /\ UNCHANGED <<pushed, blind, given, page>>
    BY <1>10 DEF ClearHarLite, ClearTelemetry
  <2>2. gone' \subseteq 1..pushed
    BY <1>5, <2>1 DEF HarBounds
  <2>3. Len(har') <= MaxBuffer
    BY <1>1, <2>1
  <2> QED BY <1>4, <2>1, <2>2, <2>3 DEF HarBounds
<1>11. ASSUME NEW clear \in BOOLEAN, HarLite(clear) PROVE HarBounds'
  <2> DEFINE later == {i \in DOMAIN har : har[i].ts > readTo}
             delta == [i \in DOMAIN Since |-> Since[i].no]
  <2>1. given' = given \o delta /\ UNCHANGED <<har, pushed, gone, blind, page>>
    BY <1>11 DEF HarLite, bufferVars
  <2>2. later \in SUBSET Nat /\ IsFiniteSet(later)
    <3>1. DOMAIN har = 1..Len(har) /\ Len(har) \in Nat
      BY <1>1
    <3>2. later \in SUBSET (1..Len(har)) /\ IsFiniteSet(1..Len(har))
      BY <3>1, FS_Interval
    <3> QED BY <3>2, FS_Subset
  <2>3. /\ Cardinality(later) \in Nat /\ DOMAIN Since = 1..Cardinality(later)
        /\ \A k \in 1..Cardinality(later) : \E i \in later : Rank(later, i) = k /\ Since[k] = har[i]
    BY <2>2, FilteredFacts DEF Since
  <2>4. DOMAIN delta = 1..Cardinality(later) /\ \A k \in DOMAIN delta : delta[k] \in 1..pushed
    BY <1>3, <2>3
  <2>5. \A k \in 1..Cardinality(later) : delta[k] \in Nat /\ delta[k] >= 1
    BY <1>1, <2>4
  <2>6. delta \in Seq(Nat)
    <3>1. delta \in [1..Cardinality(later) -> Nat]
      BY <2>4, <2>5
    <3>2. Cardinality(later) \in Nat
      BY <2>3
    <3> HIDE DEF delta, later
    <3>3. PICK n \in Nat : n = Cardinality(later)
      BY <3>2
    <3>4. delta \in [1..n -> Nat]
      BY <3>1, <3>3
    <3>5. \A i \in 1..n : delta[i] \in Nat
      BY <3>4
    <3>6. delta = [i \in 1..n |-> delta[i]]
      BY <3>4
    <3> QED BY <3>3, <3>5, <3>6, ItemsAreSeq
  <2>7. \A i \in DOMAIN given : given[i] >= 1
    BY DEF HarBounds
  <2> HIDE DEF delta
  <2>8. \A i \in DOMAIN given' : given'[i] >= 1
    <3>1. Len(delta) = Cardinality(later)
      BY <2>3, <2>4, <2>6, LenProperties
    <3>2. /\ DOMAIN given' = 1..(Len(given) + Len(delta))
          /\ \A i \in 1..(Len(given) + Len(delta)) :
               given'[i] = IF i <= Len(given) THEN given[i] ELSE delta[i - Len(given)]
      BY <1>1, <2>1, <2>6, ConcatProperties
    <3>3. /\ Len(given) \in Nat /\ Len(delta) \in Nat /\ DOMAIN given = 1..Len(given)
      BY <1>1, <2>6
    <3>6. \A k \in 1..Len(delta) : delta[k] >= 1
      BY <2>5, <3>1
    <3> TAKE i \in DOMAIN given'
    <3>4. CASE i <= Len(given)
      BY <2>7, <3>2, <3>3, <3>4
    <3>5. CASE ~(i <= Len(given))
      <4>1. i - Len(given) \in 1..Len(delta) /\ given'[i] = delta[i - Len(given)]
        BY <3>2, <3>3, <3>5
      <4> QED BY <3>6, <4>1
    <3> QED BY <3>4, <3>5
  <2> QED BY <1>4, <2>1, <2>8 DEF HarBounds
<1>12. CASE UNCHANGED telemetryTabVars
  BY <1>4, <1>6, <1>12 DEF telemetryTabVars, bufferVars
<1> QED BY <1>7, <1>8, <1>9, <1>10, <1>11, <1>12 DEF TelemetryNext

\* What the telemetry keeps of a tab, and what its readers have got, keep their types and
\* bounds; the buffers hold no more than they are made for (telemetry.py).
THEOREM TelemetryTypeCorrect == TelemetrySpec => []TelemetryTypeOK
<1>1. TelemetryInit => ClockBounds /\ MapBounds /\ HarBounds
  <2> SUFFICES ASSUME TelemetryInit PROVE ClockBounds /\ MapBounds /\ HarBounds
    OBVIOUS
  <2>1. /\ MaxClock \in Nat \ {0} /\ MaxHops \in Nat /\ MaxRequestMap \in Nat /\ MaxBuffer \in Nat
        /\ IsFiniteSet(Requests)
    BY TelemetryAssumption
  <2>2. ClockBounds
    <3>1. now = 1 /\ clearing = FALSE /\ deaf = {}
      BY DEF TelemetryInit
    <3>2. now <= MaxClock
      BY <2>1, <3>1
    <3>3. clearing \in BOOLEAN /\ deaf \subseteq Requests
      BY <3>1
    <3> QED BY <3>2, <3>3 DEF ClockBounds
  <2>3. MapBounds
    BY <2>1 DEF TelemetryInit, MapBounds, WithinHops
  <2>4. Over = {} /\ Cardinality({}) = 0
    BY FS_EmptySet DEF TelemetryInit, Over
  <2>5. HarBounds
    BY <2>1, <2>4 DEF TelemetryInit, HarBounds
  <2> QED BY <2>2, <2>3, <2>5
<1>2. HarInv /\ RecordsInv /\ ClockBounds /\ MapBounds /\ HarBounds => TelemetryTypeOK
  <2> SUFFICES ASSUME HarInv, RecordsInv, ClockBounds, MapBounds, HarBounds PROVE TelemetryTypeOK
    OBVIOUS
  <2>1. /\ now \in Nat \ {0} /\ cursor \in 0..now /\ readTo \in 0..now /\ pushed \in Nat
        /\ har \in Seq([no : Nat, ts : Nat]) /\ given \in Seq(Nat)
        /\ MaxClock \in Nat /\ MaxHops \in Nat
    BY TelemetryAssumption DEF HarInv, HarTyped
  <2>2. page \in [Requests -> [stage : Stage, hop : 0..MaxHops]]
    <3>1. \A r \in Requests : page[r] \in [stage : Stage, hop : Nat] /\ page[r].hop <= MaxHops
      BY DEF RecordsInv, MapsTyped, MapBounds
    <3>2. \A r \in Requests : page[r] \in [stage : Stage, hop : 0..MaxHops]
      BY <2>1, <3>1
    <3> QED BY <3>2 DEF RecordsInv, MapsTyped
  <2>3. \A m \in NetRecord : m.hop <= MaxHops /\ m.status <= MaxHops => m \in Meta
    BY <2>1 DEF NetRecord, Meta
  <2>4. ASSUME NEW q \in Seq(NetRecord), WithinHops(q) PROVE q \in Seq(Meta)
    <3>1. Len(q) \in Nat /\ q = [i \in 1..Len(q) |-> q[i]] /\ DOMAIN q = 1..Len(q)
      OBVIOUS
    <3>2. \A i \in 1..Len(q) : q[i] \in Meta
      BY <2>3, <2>4, <3>1 DEF WithinHops
    <3> QED BY <3>1, <3>2, IsASeq
  <2>5. req \in Seq(Meta) /\ reqDone \in Seq(Meta)
    BY <2>4 DEF RecordsInv, MapsTyped, MapBounds
  <2>6. tracing \subseteq Meta
    BY <2>3 DEF RecordsInv, TracedStays, MapBounds
  <2>7. har \in Seq([no : 1..pushed, ts : 1..MaxClock])
    <3>1. Len(har) \in Nat /\ har \in [1..Len(har) -> [no : Nat, ts : Nat]]
          /\ DOMAIN har = 1..Len(har)
      BY <2>1, SeqOfItems
    <3>2. \A i \in 1..Len(har) : har[i] \in [no : 1..pushed, ts : 1..MaxClock]
      <4> TAKE i \in 1..Len(har)
      <4>1. har[i] \in [no : Nat, ts : Nat]
        BY <3>1
      <4>3. har[i].no \in 1..pushed /\ har[i].ts \in 1..cursor
        BY <3>1 DEF HarInv, HarOrdered
      <4>2. har[i].ts \in 1..MaxClock
        BY <2>1, <4>3 DEF ClockBounds
      <4> QED BY <4>1, <4>2, <4>3
    <3>3. har \in [1..Len(har) -> [no : 1..pushed, ts : 1..MaxClock]]
      BY <3>1, <3>2
    <3> QED BY <3>1, <3>3, ItemsAreSeq
  <2>8. given \in Seq(1..pushed)
    <3>1. Len(given) \in Nat /\ given \in [1..Len(given) -> Nat] /\ DOMAIN given = 1..Len(given)
      BY <2>1
    <3>2. \A i \in 1..Len(given) : given[i] \in 1..pushed
      <4> TAKE i \in 1..Len(given)
      <4>1. given[i] \in Nat /\ given[i] <= pushed /\ given[i] >= 1
        BY <3>1 DEF HarInv, GivenOrdered, HarBounds
      <4> QED BY <2>1, <4>1
    <3>3. given \in [1..Len(given) -> 1..pushed]
      BY <3>1, <3>2
    <3> QED BY <3>1, <3>3, ItemsAreSeq
  <2>9. pushed \in 0..Cardinality(Requests)
    <3>1. Over \in SUBSET Requests
      BY DEF Over
    <3>2. /\ Cardinality(Over) <= Cardinality(Requests) /\ Cardinality(Requests) \in Nat
          /\ Cardinality(Over) \in Nat
      BY <3>1, TelemetryAssumption, FS_Subset, FS_CardinalityType
    <3> QED BY <2>1, <3>2 DEF HarBounds
  <2>10. /\ now \in 1..MaxClock /\ clearing \in BOOLEAN /\ deaf \subseteq Requests
    BY <2>1 DEF ClockBounds
  <2>11. /\ Len(req) <= MaxRequestMap /\ Len(reqDone) <= MaxRequestMap /\ Len(har) <= MaxBuffer
         /\ gone \subseteq 1..pushed /\ blind \subseteq 1..pushed
    BY DEF MapBounds, HarBounds
  <2> QED BY <2>1, <2>2, <2>5, <2>6, <2>7, <2>8, <2>9, <2>10, <2>11 DEF TelemetryTypeOK
<1>3. HarInv => HarTyped
  BY DEF HarInv
<1>4. RecordsInv => MapsTyped
  BY DEF RecordsInv
<1> QED BY <1>1, <1>2, <1>3, <1>4, HarInit, HarNext, RecordsInit, RecordsNext, ClockBoundsNext,
           MapBoundsNext, HarBoundsNext, PTL DEF TelemetrySpec

-----------------------------------------------------------------------------
(* Types and bounds: downloads.                                            *)

LEMMA ListingTyped == \A d : Listing(d) \subseteq Entries
<1> SUFFICES ASSUME NEW d, NEW e \in Listing(d) PROVE e \in Entries
  OBVIOUS
<1>1. PICK f \in Files : e = [name |-> f.name, temp |-> disk[f] = "temp"]
  BY DEF Listing
<1>2. f.name \in Names
  BY DEF Files
<1>3. (disk[f] = "temp") \in BOOLEAN
  OBVIOUS
<1> QED BY <1>1, <1>2, <1>3, Zenon DEF Entries

\* What the proof about captures does not need.
DownloadBounds ==
  /\ managed \in BOOLEAN /\ listed \in BOOLEAN /\ stepTool \in {"click", "download"}
  /\ step \in 0..MaxSteps /\ (progress # "between" => step \in 1..MaxSteps)
  /\ baseline \subseteq Entries /\ known \in [Dirs -> SUBSET Entries]
  /\ old \subseteq Files /\ instant \subseteq Files /\ overlooked \subseteq Files
  /\ captured \subseteq [step : 1..MaxSteps, file : Files, stored : Files]

LEMMA DownloadBoundsNext ==
  ASSUME CapturesTyped, DownloadBounds, [DownloadNext]_downloadVars
  PROVE  DownloadBounds'
<1> USE DEF DownloadBounds, diskVars, waitingVars
<1>1. /\ MaxSteps \in Nat \ {0} /\ disk \in [Files -> {"none", "temp", "done"}]
      /\ candidate \subseteq Files
  BY DownloadAssumption DEF CapturesTyped
<1>2. /\ {} \subseteq Entries /\ [d \in Dirs |-> {}] \in [Dirs -> SUBSET Entries]
  OBVIOUS
<1>3. StepOver => /\ progress' = "between" /\ listed' = FALSE /\ baseline' = {} /\ instant' = {}
                  /\ known' \in [Dirs -> SUBSET Entries]
  BY <1>2 DEF StepOver
<1>4. ASSUME NEW f \in Files,
             \/ DownloadStarts(f) \/ PollTrips(f) \/ \E to \in {"done", "none"} : DownloadEnds(f, to)
      PROVE  DownloadBounds'
  BY <1>3, <1>4 DEF DownloadStarts, PollTrips, DownloadEnds
<1>5. ASSUME NEW f \in Files, FetchInstead(f) PROVE DownloadBounds'
  <2>1. [step |-> step, file |-> f, stored |-> f] \in [step : 1..MaxSteps, file : Files, stored : Files]
    BY <1>5 DEF FetchInstead
  <2> QED BY <1>3, <1>5, <2>1 DEF FetchInstead
<1>6. ASSUME NEW t \in {"click", "download"}, PlanDownload(t) PROVE DownloadBounds'
  <2>1. step' = step + 1 /\ step < MaxSteps /\ stepTool' = t /\ old' = Complete
    BY <1>6 DEF PlanDownload
  <2>2. managed' \in BOOLEAN /\ listed' \in BOOLEAN
    BY <1>6 DEF PlanDownload, EnsureDownloads
  <2>3. baseline' \subseteq Entries
    BY <1>6, ListingTyped DEF PlanDownload
  <2>4. step' \in 1..MaxSteps
    BY <1>1, <2>1
  <2>5. UNCHANGED <<known, instant, overlooked, captured>>
    BY <1>6 DEF PlanDownload
  <2> QED BY <2>1, <2>2, <2>3, <2>4, <2>5 DEF Complete
<1>7. CASE WaitForDownload
  <2>1. WaitBaseline \subseteq Entries
    BY ListingTyped DEF WaitBaseline
  <2>2. known' \in [Dirs -> SUBSET Entries]
    BY <1>7, <2>1, ListingTyped DEF WaitForDownload
  <2>3. instant' \subseteq Files /\ managed' \in BOOLEAN
    BY <1>7 DEF WaitForDownload, EnsureDownloads, Complete
  <2>4. progress = "plan" /\ UNCHANGED <<step, stepTool, baseline, old, listed, captured, overlooked>>
    BY <1>7 DEF WaitForDownload
  <2> QED BY <2>2, <2>3, <2>4
<1>8. CASE Capture
  <2>1. ASSUME NEW f \in candidate
        PROVE  [step |-> step, file |-> f, stored |-> Stored(f)]
                 \in [step : 1..MaxSteps, file : Files, stored : Files]
    <3>1. [f EXCEPT !.dir = "tab"] \in Files
      BY <1>1 DEF Files, Dirs
    <3>2. Stored(f) \in Files /\ f \in Files
      BY <1>1, <3>1 DEF Stored
    <3> QED BY <1>8, <3>2 DEF Capture
  <2>2. captured' \subseteq [step : 1..MaxSteps, file : Files, stored : Files]
    BY <1>8, <2>1 DEF Capture
  <2> QED BY <1>3, <1>8, <2>2 DEF Capture
<1>9. CASE ClickFails \/ PollDirectories \/ NothingCaptured
  BY <1>3, <1>9 DEF ClickFails, PollDirectories, NothingCaptured
<1>10. CASE TimedOut
  BY <1>10 DEF TimedOut
<1>11. CASE UNCHANGED downloadVars
  BY <1>11 DEF downloadVars
<1> QED BY <1>4, <1>5, <1>6, <1>7, <1>8, <1>9, <1>10, <1>11 DEF DownloadNext

\* What a run knows of its downloads keeps its types and bounds (Downloads).
THEOREM DownloadTypeCorrect == DownloadSpec => []DownloadTypeOK
<1>1. DownloadInit => DownloadBounds
  <2>1. MaxSteps \in Nat /\ [d \in Dirs |-> {}] \in [Dirs -> SUBSET Entries]
    BY DownloadAssumption
  <2> SUFFICES ASSUME DownloadInit PROVE DownloadBounds
    OBVIOUS
  <2>2. managed \in BOOLEAN /\ listed \in BOOLEAN /\ stepTool \in {"click", "download"}
    BY DEF DownloadInit
  <2>3. step \in 0..MaxSteps /\ progress = "between"
    BY <2>1 DEF DownloadInit
  <2>4. baseline = {} /\ old = {} /\ instant = {} /\ overlooked = {} /\ captured = {}
        /\ known = [d \in Dirs |-> {}]
    BY DEF DownloadInit
  <2> QED BY <2>1, <2>2, <2>3, <2>4 DEF DownloadBounds
<1>2. CapturesTyped /\ DownloadBounds => DownloadTypeOK
  <2> SUFFICES ASSUME CapturesTyped PROVE Cardinality(candidate) <= 1
    BY DEF CapturesTyped, DownloadBounds, DownloadTypeOK
  <2>1. CASE candidate = {}
    BY <2>1, FS_EmptySet
  <2>2. ASSUME NEW f \in candidate PROVE Cardinality(candidate) <= 1
    <3>1. candidate = {f}
      BY <2>2 DEF CapturesTyped
    <3> QED BY <3>1, FS_Singleton
  <2> QED BY <2>1, <2>2
<1>3. DownloadInv => CapturesTyped
  BY DEF DownloadInv
<1> QED BY <1>1, <1>2, <1>3, DownloadInitInv, DownloadNextInv, DownloadBoundsNext, PTL
        DEF DownloadSpec

-----------------------------------------------------------------------------
(* Types and bounds: observations.                                         *)

\* What the proofs about acts and the graph do not need.
ObservationFlags ==
  /\ autoAff \in BOOLEAN /\ inRun \in BOOLEAN /\ crowded \in BOOLEAN
  /\ still \in BOOLEAN /\ urlUnread \in BOOLEAN
ObservationBounds ==
  /\ looks \in 0..MaxLooks /\ moves \in 0..MaxMoves /\ acts \in 0..MaxActs
FoundTyped ==
  /\ toldUrl \in Urls \cup {NoUrl}
  /\ stored \in [refs : SUBSET Refs, url : Urls \cup {NoUrl}, of : Docs]
  /\ look.kind \in {"none", "map", "triage", "locators"}
  /\ look.at \in {"done", "collect", "store", "note"} /\ look.refs \subseteq Refs
  /\ look.at = "store" => look.of \in Docs
  /\ act.at \in {"done", "refresh", "retry", "dispatch"} /\ act.ref \in Refs \cup {0}

LEMMA ObservationFlagsNext ==
  ASSUME ObservationFlags, [ObservationNext]_observationVars
  PROVE  ObservationFlags'
<1> USE DEF ObservationFlags, runVars, graphVars
<1>1. \A u, tos, stamp : NoteGraph(u, tos, stamp) => crowded' \in BOOLEAN
  BY Zenon DEF NoteGraph
<1>2. CASE \/ RunTurns \/ Collect \/ Store \/ Refresh \/ Retry \/ DispatchAct
           \/ \E d \in Docs : PageMoves(d) \/ \E u \in Urls : NavigateTo(u, d)
           \/ \E k \in {"map", "triage", "locators"} : BeginLook(k)
  BY <1>2 DEF RunTurns, Collect, Store, Refresh, Retry, DispatchAct, PageMoves, NavigateTo, BeginLook
<1>3. CASE EndLook \/ SeedGraph
  <2>1. crowded' \in BOOLEAN
    BY <1>1, <1>3 DEF EndLook, SeedGraph
  <2> QED BY <1>3, <2>1 DEF EndLook, SeedGraph
<1>4. ASSUME NEW m, NEW t, BeginAct(m, t) PROVE ObservationFlags'
  <2>1. urlUnread' \in BOOLEAN
    BY <1>4, Zenon DEF BeginAct
  <2> QED BY <1>4, <2>1 DEF BeginAct
<1>5. CASE UNCHANGED observationVars
  BY <1>5 DEF observationVars
<1> QED BY <1>2, <1>3, <1>4, <1>5 DEF ObservationNext

LEMMA ObservationBoundsNext ==
  ASSUME ObservationBounds, [ObservationNext]_observationVars
  PROVE  ObservationBounds'
<1> USE DEF ObservationBounds
<1>1. MaxLooks \in Nat /\ MaxMoves \in Nat /\ MaxActs \in Nat
  BY ObservationsAssumption
<1>2. CASE \/ RunTurns \/ Collect \/ Store \/ Refresh \/ Retry \/ EndLook
           \/ UNCHANGED observationVars
  BY <1>2 DEF RunTurns, Collect, Store, Refresh, Retry, EndLook, observationVars
<1>3. CASE \/ \E d \in Docs : PageMoves(d) \/ \E u \in Urls : NavigateTo(u, d)
           \/ DispatchAct
  <2>1. moves' \in {moves, moves + 1} /\ (moves' = moves \/ moves < MaxMoves)
        /\ looks' = looks /\ acts' = acts
    BY <1>3 DEF PageMoves, NavigateTo, DispatchAct
  <2> QED BY <1>1, <2>1
<1>4. CASE SeedGraph \/ \E k \in {"map", "triage", "locators"} : BeginLook(k)
  <2>1. looks' = looks + 1 /\ looks < MaxLooks /\ moves' = moves /\ acts' = acts
    BY <1>4 DEF SeedGraph, BeginLook
  <2> QED BY <1>1, <2>1
<1>5. ASSUME NEW m, NEW t, BeginAct(m, t) PROVE ObservationBounds'
  <2>1. acts' = acts + 1 /\ acts < MaxActs /\ moves' = moves /\ looks' = looks
    BY <1>5 DEF BeginAct
  <2> QED BY <1>1, <2>1
<1> QED BY <1>2, <1>3, <1>4, <1>5 DEF ObservationNext

LEMMA FoundTypedNext ==
  ASSUME ActInv, FoundTyped, [ObservationNext]_observationVars
  PROVE  FoundTyped'
<1> USE DEF FoundTyped, runVars
<1>1. /\ SomeUrl \subseteq Urls \cup {NoUrl} /\ shownDoc \in Docs /\ Shows[shownDoc] \subseteq Refs
      /\ stored.refs \subseteq Refs /\ stored.of \in Docs
      /\ DOMAIN look = {"kind", "at", "url", "refs", "links", "of"}
      /\ DOMAIN act = {"mode", "target", "at", "stale", "ref"}
  BY AddressIsUrl DEF ActInv, RefsTyped, SomeUrl, Refs
<1>2. /\ NoLook.kind = "none" /\ NoLook.at = "done" /\ NoLook.refs = {}
      /\ NoAct.at = "done" /\ NoAct.ref = 0
  BY DEF NoLook, NoAct
<1>3. CASE \/ RunTurns \/ EndLook \/ SeedGraph \/ DispatchAct \/ UNCHANGED observationVars
           \/ \E d \in Docs : PageMoves(d) \/ \E u \in Urls : NavigateTo(u, d)
  <2>1. /\ toldUrl' \in Urls \cup {NoUrl} /\ stored' = stored
        /\ look' \in {look, NoLook} /\ act' \in {act, NoAct}
    BY <1>3 DEF RunTurns, EndLook, SeedGraph, DispatchAct, observationVars, PageMoves, NavigateTo
  <2> QED BY <1>2, <2>1
<1>4. ASSUME NEW k \in {"map", "triage", "locators"}, BeginLook(k) PROVE FoundTyped'
  <2>1. /\ look'.kind = k /\ look'.at = "collect" /\ look'.refs = {}
        /\ UNCHANGED <<toldUrl, stored, act>>
    BY <1>4 DEF BeginLook, NoLook
  <2> QED BY <2>1
<1>5. CASE Collect
  <2>1. /\ look'.kind = look.kind /\ look'.at \in {"note", "store"} /\ look'.of = shownDoc
        /\ look'.refs \in {Shows[shownDoc], {}} /\ UNCHANGED <<toldUrl, stored, act>>
    BY <1>1, <1>5 DEF Collect
  <2> QED BY <1>1, <2>1
<1>6. CASE Store
  <2>1. look'.kind = look.kind /\ look'.at = "note" /\ look'.refs = look.refs
        /\ UNCHANGED <<toldUrl, act>>
    BY <1>1, <1>6 DEF Store
  <2>2. PICK u \in SomeUrl : stored' = [refs |-> look.refs, url |-> u, of |-> look.of]
    BY <1>6 DEF Store
  <2>3. look.of \in Docs
    BY <1>6 DEF Store
  <2>4. stored' \in [refs : SUBSET Refs, url : Urls \cup {NoUrl}, of : Docs]
    BY <1>1, <2>2, <2>3
  <2> QED BY <2>1, <2>4
<1>7. \A m, t : m \in {"ref", "label", "first"} => Resolved(m, t) \subseteq Refs
  BY <1>1 DEF Resolved, Named
<1>8. ASSUME NEW m \in {"ref", "label", "first"}, NEW t, BeginAct(m, t) PROVE FoundTyped'
  <2>1. /\ act'.at \in {"refresh", "dispatch"}
        /\ act'.ref \in Resolved(m, t) \cup {0}
    BY <1>8 DEF BeginAct, NoAct
  <2>2. UNCHANGED <<toldUrl, stored, look>>
    BY <1>8 DEF BeginAct
  <2> QED BY <1>7, <2>1, <2>2
<1>9. CASE Refresh
  <2>1. UNCHANGED <<toldUrl, stored>>
    BY <1>9 DEF Refresh
  <2>2. /\ look'.kind \in {look.kind, "locators"} /\ look'.refs \in {look.refs, {}}
        /\ look' = look \/ look'.at = "collect"
    BY <1>9 DEF Refresh, NoLook
  <2>3. act'.at \in {"retry", "done"} /\ act'.ref \in {act.ref, 0}
    BY <1>1, <1>2, <1>9 DEF Refresh
  <2> QED BY <2>1, <2>2, <2>3
<1>10. CASE Retry
  <2>1. UNCHANGED <<toldUrl, stored, look>>
    BY <1>10 DEF Retry
  <2>2. act.mode \in {"ref", "label", "first"}
    BY <1>10 DEF Retry, ActInv, RefsTyped
  <2>3. act' = NoAct \/ \E r \in Resolved(act.mode, act.target) :
                           act' = [act EXCEPT !.at = "dispatch", !.ref = r]
    BY <1>10 DEF Retry
  <2>4. act'.at \in {"done", "dispatch"} /\ act'.ref \in Refs \cup {0}
    <3>1. CASE act' = NoAct
      BY <1>2, <3>1
    <3>2. ASSUME NEW r \in Resolved(act.mode, act.target),
                 act' = [act EXCEPT !.at = "dispatch", !.ref = r]
          PROVE  act'.at \in {"done", "dispatch"} /\ act'.ref \in Refs \cup {0}
      <4>1. act'.at = "dispatch" /\ act'.ref = r
        BY <1>1, <3>2
      <4> QED BY <1>7, <2>2, <4>1
    <3> QED BY <2>3, <3>1, <3>2
  <2> QED BY <2>1, <2>4
<1> QED BY <1>3, <1>4, <1>5, <1>6, <1>8, <1>9, <1>10 DEF ObservationNext

\* What a session knows of a tab's pages keeps its types and bounds (Observations).
THEOREM ObservationTypeCorrect == ObservationSpec => []ObservationTypeOK
<1>1. ObservationInit => ObservationFlags /\ ObservationBounds /\ FoundTyped
  <2> SUFFICES ASSUME ObservationInit
               PROVE  ObservationFlags /\ ObservationBounds /\ FoundTyped
    OBVIOUS
  <2>1. ObservationFlags
    BY DEF ObservationInit, ObservationFlags
  <2>2. ObservationBounds
    BY ObservationsAssumption DEF ObservationInit, ObservationBounds
  <2>3. FoundTyped
    BY DEF ObservationInit, FoundTyped, NoLook, NoAct
  <2> QED BY <2>1, <2>2, <2>3
<1>2. ActInv /\ GraphInv /\ ObservationFlags /\ ObservationBounds /\ FoundTyped => ObservationTypeOK
  BY DEF ActInv, RefsTyped, GraphInv, NodesTyped, ObservationFlags, ObservationBounds, FoundTyped,
         ObservationTypeOK
<1> QED BY <1>1, <1>2, ActInitInv, ActNextInv, GraphInitInv, GraphNextInv, ObservationFlagsNext,
           ObservationBoundsNext, FoundTypedNext, PTL DEF ObservationSpec

-----------------------------------------------------------------------------
(* Types and bounds: diagnostics.                                          *)

\* What the proof about buffers does not need: the servers and the bounds.
ReaderStates == {"away", "attached", "checked", "ready", "read"}
ReadersTyped ==
  /\ ownSession \in BOOLEAN /\ {scriptIds, registered} \subseteq SUBSET ScriptServers
  /\ readerAt \in [ScriptServers -> ReaderStates]
DiagBounds ==
  /\ pageTime \in 1..MaxPageTime /\ fetching \subseteq 1..MaxPageTime
  /\ cursors \in [ScriptServers -> 0..MaxPageTime]
  /\ documents \in 1..MaxDocuments /\ reads \in 0..MaxReads /\ nextEntry \in 1..(MaxErrors + 1)

LEMMA ReadersTypedNext ==
  ASSUME ReadersTyped, [DiagNext]_diagVars
  PROVE  ReadersTyped'
<1> USE DEF ReadersTyped, serverSide
<1>1. ASSUME NEW s \in ScriptServers, NEW to \in ReaderStates, ReaderMoves(s, to)
      PROVE  readerAt' \in [ScriptServers -> ReaderStates]
  BY <1>1 DEF ReaderMoves
<1>2. CASE PageRaises \/ FetchBegins \/ PageTick \/ NewDocument \/ PageWipesGlobals
           \/ \E began \in fetching : FetchFails(began)
  BY <1>2 DEF PageRaises, FetchBegins, PageTick, NewDocument, PageWipesGlobals, FetchFails
<1>3. ASSUME NEW s \in ScriptServers, RegisterScript(s) PROVE ReadersTyped'
  <2>1. readerAt' \in [ScriptServers -> ReaderStates]
    BY <1>1, <1>3 DEF RegisterScript, ReaderStates
  <2> QED BY <1>3, <2>1 DEF RegisterScript
<1>4. ASSUME NEW s \in ScriptServers,
             \/ InjectScript(s) \/ ReadTelemetry(s) \/ ClearLog(s)
             \/ \E n \in 0..(MaxEntries - 1) : ReadNew(s, n)
      PROVE  ReadersTyped'
  <2>1. readerAt' \in [ScriptServers -> ReaderStates]
    BY <1>1, <1>4 DEF InjectScript, ReadTelemetry, ClearLog, ReadNew, ReaderStates
  <2>2. UNCHANGED <<ownSession, scriptIds, registered>>
    BY <1>4 DEF InjectScript, ReadTelemetry, ClearLog, ReadNew
  <2> QED BY <2>1, <2>2
<1>5. ASSUME NEW s \in ScriptServers, DetachReader(s) PROVE ReadersTyped'
  <2>1. readerAt' \in [ScriptServers -> ReaderStates]
    BY <1>1, <1>5 DEF DetachReader, ReaderStates
  <2>2. registered' \subseteq registered
    BY <1>5 DEF DetachReader
  <2>3. UNCHANGED <<ownSession, scriptIds>>
    BY <1>5 DEF DetachReader
  <2> QED BY <2>1, <2>2, <2>3
<1>6. ASSUME NEW s \in ScriptServers, ForgetScripts(s) PROVE ReadersTyped'
  BY <1>6 DEF ForgetScripts
<1>7. CASE UNCHANGED diagVars
  BY <1>7 DEF diagVars
<1> QED BY <1>2, <1>3, <1>4, <1>5, <1>6, <1>7 DEF DiagNext

LEMMA DiagBoundsNext ==
  ASSUME DiagBounds, [DiagNext]_diagVars
  PROVE  DiagBounds'
<1> USE DEF DiagBounds, serverSide, diagBounds, diagHistory
<1>1. /\ MaxPageTime \in Nat \ {0} /\ MaxDocuments \in Nat \ {0} /\ MaxReads \in Nat
      /\ MaxErrors \in Nat
  BY DiagnosticsAssumption
<1>2. CASE PageRaises \/ \E began \in fetching : FetchFails(began)
  <2>1. nextEntry <= MaxErrors /\ nextEntry' = nextEntry + 1
    BY <1>2 DEF PageRaises, FetchFails, Noted
  <2>2. /\ fetching' \subseteq fetching
        /\ UNCHANGED <<pageTime, cursors, documents, reads>>
    BY <1>2 DEF PageRaises, FetchFails
  <2> QED BY <1>1, <2>1, <2>2
<1>3. CASE FetchBegins
  BY <1>1, <1>3 DEF FetchBegins
<1>8. CASE PageTick
  BY <1>1, <1>8 DEF PageTick
<1>4. CASE NewDocument \/ PageWipesGlobals
  <2>1. /\ documents < MaxDocuments /\ documents' = documents + 1 /\ fetching' = {}
        /\ UNCHANGED <<pageTime, cursors, reads, nextEntry>>
    BY <1>4 DEF NewDocument, PageWipesGlobals
  <2> QED BY <1>1, <2>1
<1>5. ASSUME NEW s \in ScriptServers,
             \/ RegisterScript(s) \/ InjectScript(s) \/ DetachReader(s) \/ ClearLog(s)
             \/ ForgetScripts(s)
      PROVE  DiagBounds'
  BY <1>5 DEF RegisterScript, InjectScript, DetachReader, ClearLog, ForgetScripts
<1>6. ASSUME NEW s \in ScriptServers,
             ReadTelemetry(s) \/ \E n \in 0..(MaxEntries - 1) : ReadNew(s, n)
      PROVE  DiagBounds'
  <2>1. /\ reads < MaxReads /\ reads' = reads + 1
        /\ cursors' = [cursors EXCEPT ![s] = pageTime]
        /\ UNCHANGED <<pageTime, fetching, documents, nextEntry>>
    BY <1>6 DEF ReadTelemetry, ReadNew
  <2>2. cursors' \in [ScriptServers -> 0..MaxPageTime]
    BY <1>1, <2>1
  <2> QED BY <1>1, <2>1, <2>2
<1>7. CASE UNCHANGED diagVars
  BY <1>7 DEF diagVars
<1> QED BY <1>2, <1>3, <1>4, <1>5, <1>6, <1>7, <1>8 DEF DiagNext

\* The script in the page and what the servers know of it keep their types and bounds
\* (PageDiagnostics).
THEOREM DiagTypeCorrect == DiagSpec => []DiagTypeOK
<1>1. DiagInit => ReadersTyped /\ DiagBounds
  <2>1. 1 \in 1..MaxPageTime /\ 1 \in 1..MaxDocuments /\ 0 \in 0..MaxReads
        /\ 1 \in 1..(MaxErrors + 1) /\ 0 \in 0..MaxPageTime
    BY DiagnosticsAssumption
  <2> SUFFICES ASSUME DiagInit PROVE ReadersTyped /\ DiagBounds
    OBVIOUS
  <2>2. ReadersTyped
    BY DEF DiagInit, ReadersTyped, ReaderStates
  <2>3. DiagBounds
    BY <2>1 DEF DiagInit, DiagBounds
  <2> QED BY <2>2, <2>3
<1>2. LogInv /\ ReadersTyped /\ DiagBounds => DiagTypeOK
  <2> SUFFICES ASSUME LogInv, ReadersTyped, DiagBounds PROVE DiagTypeOK
    OBVIOUS
  <2>1. ASSUME NEW i \in DOMAIN layers
        PROVE  layers[i].version \in ScriptServers /\ layers[i].keeps \in BOOLEAN
    <3>1. layers[i] \in Layer
      BY DEF LogInv, LogTyped
    <3> QED BY <3>1 DEF Layer
  <2> QED BY <2>1 DEF ReadersTyped, ReaderStates, DiagBounds, DiagTypeOK
<1> QED BY <1>1, <1>2, LogInit, LogNext, ReadersTypedNext, DiagBoundsNext, PTL DEF DiagSpec

-----------------------------------------------------------------------------
(* Types and bounds: resources.                                            *)

\* What the proof about answers does not need: the bounds.
TimingBounds ==
  /\ timingTime \in 1..MaxTimingTime /\ fetchedCount \in 0..MaxResources /\ asks \in 0..MaxAsks
  /\ Len(timings) <= MaxTimings /\ cache.builtAt <= timingTime
  /\ \A i \in 1..Len(timings) : timings[i].at \in 1..timingTime

LEMMA TimingBoundsNext ==
  ASSUME TimingInv, TimingBounds, [TimingNext]_timingVars
  PROVE  TimingBounds'
<1> USE DEF TimingBounds
<1>1. /\ MaxTimingTime \in Nat \ {0} /\ MaxResources \in Nat /\ MaxAsks \in Nat
      /\ MaxTimings \in Nat
  BY TimingsAssumption
<1>2. timings \in Seq(Timing) /\ cache.builtAt \in Nat /\ Len(timings) \in Nat
  BY DEF TimingInv, TimingsTyped, Cache
<1>3. CASE ResourceLoads
  <2>1. /\ fetchedCount < MaxResources /\ fetchedCount' = fetchedCount + 1
        /\ UNCHANGED <<timingTime, cache, asks>>
    BY <1>3 DEF ResourceLoads
  <2>2. CASE Len(timings) < MaxTimings
    <3> DEFINE new == [id |-> fetchedCount', at |-> timingTime]
    <3>1. timings' = Append(timings, new) /\ new.at = timingTime /\ new \in Timing
      BY <1>1, <1>3, <2>1, <2>2 DEF ResourceLoads, Timing
    <3> HIDE DEF new
    <3>2. /\ Len(timings') = Len(timings) + 1 /\ timings'[Len(timings) + 1] = new
          /\ \A i \in 1..Len(timings) : timings'[i] = timings[i]
      BY <1>2, <3>1, AppendProperties
    <3>3. \A i \in 1..Len(timings') : timings'[i].at \in 1..timingTime
      BY <1>1, <1>2, <3>1, <3>2
    <3>4. fetchedCount' \in 0..MaxResources /\ Len(timings') <= MaxTimings
      BY <1>1, <1>2, <2>1, <2>2, <3>2
    <3> QED BY <2>1, <3>3, <3>4
  <2>3. CASE timings' = timings
    BY <1>1, <2>1, <2>3
  <2> QED BY <1>3, <2>2, <2>3 DEF ResourceLoads
<1>4. CASE PageClearsTimings \/ NextPage
  <2>1. timings' = << >> /\ Len(timings') = 0 /\ UNCHANGED <<timingTime, fetchedCount, asks>>
    BY <1>4 DEF PageClearsTimings, NextPage
  <2>2. cache'.builtAt \in {0, cache.builtAt}
    BY <1>4 DEF PageClearsTimings, NextPage, NoCache
  <2> QED BY <1>1, <1>2, <2>1, <2>2
<1>5. CASE TimingTick
  <2>1. /\ timingTime < MaxTimingTime /\ timingTime' = timingTime + 1
        /\ UNCHANGED <<timings, cache, fetchedCount, asks>>
    BY <1>5 DEF TimingTick
  <2> QED BY <1>1, <1>2, <2>1
<1>6. ASSUME NEW order \in SortOrders, NEW after \in 0..MaxTimingTime, AskResources(order, after)
      PROVE  TimingBounds'
  <2>1. /\ asks < MaxAsks /\ asks' = asks + 1 /\ UNCHANGED <<timingTime, timings, fetchedCount>>
        /\ cache' = [Current EXCEPT !.sorted[order] = InOrder(Current, order)]
    BY <1>6 DEF AskResources
  <2>2. Current.builtAt <= timingTime /\ Current \in Cache
    BY <1>1, CurrentFacts DEF Current, Rebuilt
  <2>3. cache'.builtAt = Current.builtAt
    BY <2>1, <2>2 DEF Cache
  <2> QED BY <1>1, <2>1, <2>2, <2>3
<1>7. CASE AskWithoutScript
  <2>1. asks < MaxAsks /\ asks' = asks + 1 /\ UNCHANGED <<timingTime, timings, cache, fetchedCount>>
    BY <1>7 DEF AskWithoutScript
  <2> QED BY <1>1, <2>1
<1>8. CASE UNCHANGED timingVars
  BY <1>8 DEF timingVars
<1> QED BY <1>3, <1>4, <1>5, <1>6, <1>7, <1>8 DEF TimingNext

\* The timings of a page and the lists made of them keep their types and bounds
\* (ResourceTimings).
THEOREM TimingTypeCorrect == TimingSpec => []TimingTypeOK
<1>1. TimingInit => TimingBounds
  <2>1. /\ 1 \in 1..MaxTimingTime /\ 0 \in 0..MaxResources /\ 0 \in 0..MaxAsks
        /\ MaxTimings \in Nat
    BY TimingsAssumption
  <2> SUFFICES ASSUME TimingInit PROVE TimingBounds
    OBVIOUS
  <2>2. /\ timingTime = 1 /\ timings = << >> /\ cache.builtAt = 0 /\ fetchedCount = 0 /\ asks = 0
        /\ Len(timings) = 0
    BY DEF TimingInit, NoCache
  <2> QED BY <2>1, <2>2 DEF TimingBounds
<1>2. TimingInv /\ TimingBounds => TimingTypeOK
  <2> SUFFICES ASSUME TimingInv, TimingBounds PROVE TimingTypeOK
    OBVIOUS
  <2>1. /\ timings \in Seq(Timing) /\ cache \in Cache /\ emptied \in BOOLEAN
        /\ timingTime \in Nat /\ DOMAIN timings = 1..Len(timings)
    BY DEF TimingInv, TimingsTyped
  <2>2. cache.builtAt \in 0..timingTime
    BY <2>1 DEF Cache, TimingBounds
  <2>3. cache.made \in BOOLEAN /\ DOMAIN cache.sorted = SortOrders
    BY <2>1 DEF Cache
  <2> QED BY <2>1, <2>2, <2>3 DEF TimingBounds, TimingTypeOK
<1> QED BY <1>1, <1>2, TimingInitInv, TimingNextInv, TimingBoundsNext, PTL DEF TimingSpec

-----------------------------------------------------------------------------
(* Types and bounds: applications.                                         *)

\* What the proof about copies does not need.
AppFlags == strict \in BOOLEAN /\ intercept \in BOOLEAN /\ shot \in BOOLEAN
AppPhases ==
  {"idle", "clipboard", "focus", "keys", "settle", "drop", "dropped", "intercept", "trigger",
   "chooser", "release"}
AppCallTyped ==
  /\ appMode \in {"direct", "extension"} /\ app \in AppCalls \cup {NoApp}
  /\ appPhase \in AppPhases /\ appAttempt \in {"none", "paste", "drop"}
  /\ keys \in 0..2 /\ triggers \in 0..MaxTriggers
AppResultsTyped ==
  /\ lateChoosers \in Nat /\ (lateChoosers > 0 => number \in CallNumbers)
  /\ choosers \in Seq(CallNumbers)
  /\ results \in [CallNumbers -> {"none", "ok", "error"}] /\ unseen \subseteq CallNumbers

LEMMA AppFlagsNext ==
  ASSUME AppFlags, [AppNext]_appVars
  PROVE  AppFlags'
<1> USE DEF AppFlags, appConfig, appCall, appPage
<1>1. \A result : AppEnds(result) => shot' = FALSE
  BY DEF AppEnds
<1>2. PasteFails \/ DropFails => shot' = FALSE
  BY <1>1 DEF PasteFails, DropFails
<1>3. ASSUME NEW c \in AppCalls, BeginApp(c) PROVE AppFlags'
  BY <1>3 DEF BeginApp
<1>4. CASE WriteClipboard \/ NoKeyWorks \/ BeginDrop \/ DropFiles
  <2>1. UNCHANGED <<strict, intercept>>
    BY <1>4 DEF WriteClipboard, NoKeyWorks, BeginDrop, DropFiles
  <2>2. shot' = shot \/ shot' = FALSE
    BY <1>2, <1>4 DEF WriteClipboard, NoKeyWorks, BeginDrop, DropFiles
  <2> QED BY <2>1, <2>2
<1>5. CASE FocusCanvas
  <2>1. Verifies \in BOOLEAN
    BY Zenon DEF Verifies
  <2> QED BY <1>5, <2>1 DEF FocusCanvas
<1>6. CASE PressPaste \/ TriggerChooser \/ AcceptChooser \/ NoChooser \/ NothingTriggers
  BY <1>6 DEF PressPaste, TriggerChooser, AcceptChooser, NoChooser, NothingTriggers
<1>7. ASSUME NEW differs \in BOOLEAN, Judge(differs) PROVE AppFlags'
  <2>1. UNCHANGED <<strict, intercept>>
    BY <1>7 DEF Judge
  <2>2. shot' = FALSE
    BY <1>1, <1>2, <1>7 DEF Judge
  <2> QED BY <2>1, <2>2
<1>8. CASE BeginImport
  BY <1>1, <1>8 DEF BeginImport
<1>9. CASE ReleaseChooser
  BY <1>1, <1>9 DEF ReleaseChooser
<1>10. CASE ChooserOpensLate \/ \E n \in CallNumbers : CopyAppears(n)
  BY <1>10 DEF ChooserOpensLate, CopyAppears
<1>11. CASE UNCHANGED appVars
  BY <1>11 DEF appVars
<1> QED BY <1>3, <1>4, <1>5, <1>6, <1>7, <1>8, <1>9, <1>10, <1>11 DEF AppNext

LEMMA AppCallTypedNext ==
  ASSUME AppCallTyped, [AppNext]_appVars
  PROVE  AppCallTyped'
<1> USE DEF AppCallTyped, AppPhases, appConfig, appCall, appPage
<1>1. MaxTriggers \in Nat
  BY AppAssumption
<1>2. \A result : AppEnds(result) =>
        appPhase' = "idle" /\ appAttempt' = "none" /\ keys' = 0 /\ triggers' = 0
  BY DEF AppEnds
<1>3. \A c : AfterPaste(c) \in {"drop", "intercept"}
  BY DEF AfterPaste
<1>4. PasteFails => /\ appPhase' \in AppPhases /\ appAttempt' = "none" /\ keys' = 0
                    /\ triggers' \in {0, triggers}
  BY <1>2, <1>3 DEF PasteFails
<1>5. DropFails => /\ appPhase' \in AppPhases /\ appAttempt' = "none" /\ keys' \in {0, keys}
                   /\ triggers' \in {0, triggers}
  BY <1>2 DEF DropFails
<1>6. ASSUME NEW c \in AppCalls, BeginApp(c) PROVE AppCallTyped'
  <2>1. appPhase' \in AppPhases
    BY <1>3, <1>6 DEF BeginApp
  <2> QED BY <1>6, <2>1 DEF BeginApp
<1>7. CASE WriteClipboard
  BY <1>1, <1>4, <1>7 DEF WriteClipboard
<1>8. CASE NoKeyWorks
  BY <1>1, <1>4, <1>8 DEF NoKeyWorks
<1>9. CASE BeginDrop
  BY <1>1, <1>5, <1>9 DEF BeginDrop
<1>10. CASE DropFiles
  BY <1>1, <1>5, <1>10 DEF DropFiles
<1>11. CASE FocusCanvas
  BY <1>11 DEF FocusCanvas
<1>12. CASE PressPaste
  <2>1. /\ keys > 0 /\ keys' \in {0, keys - 1} /\ appPhase' \in {"settle", appPhase}
        /\ UNCHANGED <<appMode, app, appAttempt, triggers>>
    <3>1. keys > 0 /\ UNCHANGED <<appMode, app, appAttempt, triggers>>
      BY <1>12 DEF PressPaste
    <3>2. keys' \in {0, keys - 1}
      BY <1>12 DEF PressPaste
    <3>3. appPhase' \in {"settle", appPhase}
      BY <1>12 DEF PressPaste
    <3> QED BY <3>1, <3>2, <3>3
  <2>2. keys' \in 0..2
    BY <2>1
  <2> QED BY <2>1, <2>2
<1>13. ASSUME NEW differs \in BOOLEAN, Judge(differs) PROVE AppCallTyped'
  <2>1. UNCHANGED <<appMode, app>>
    BY <1>13 DEF Judge
  <2>2. \/ AppEnds("ok") \/ PasteFails \/ DropFails
    BY <1>13 DEF Judge
  <2>3. appPhase' \in AppPhases
    BY <1>2, <1>4, <1>5, <2>2
  <2>4. appAttempt' = "none"
    BY <1>2, <1>4, <1>5, <2>2
  <2>5. keys' \in {0, keys}
    BY <1>2, <1>4, <1>5, <2>2
  <2>6. triggers' \in {0, triggers}
    BY <1>2, <1>4, <1>5, <2>2
  <2>7. keys' \in 0..2 /\ triggers' \in 0..MaxTriggers
    BY <1>1, <2>5, <2>6
  <2> QED BY <2>1, <2>3, <2>4, <2>7
<1>14. CASE BeginImport
  <2>1. UNCHANGED <<appMode, app>>
    BY <1>14 DEF BeginImport
  <2>2. CASE AppEnds("error")
    BY <1>1, <1>2, <2>1, <2>2
  <2>3. CASE ~AppEnds("error")
    <3>1. appPhase' = "trigger" /\ triggers' = 0 /\ UNCHANGED <<appAttempt, keys>>
      BY <1>14, <2>3 DEF BeginImport
    <3>2. triggers' \in 0..MaxTriggers
      BY <1>1, <3>1
    <3> QED BY <2>1, <3>1, <3>2
  <2> QED BY <2>2, <2>3
<1>15. CASE TriggerChooser
  BY <1>1, <1>15 DEF TriggerChooser
<1>16. CASE AcceptChooser \/ NoChooser \/ NothingTriggers
  BY <1>16 DEF AcceptChooser, NoChooser, NothingTriggers
<1>17. CASE ReleaseChooser
  BY <1>1, <1>2, <1>17 DEF ReleaseChooser
<1>18. CASE ChooserOpensLate \/ \E n \in CallNumbers : CopyAppears(n)
  BY <1>18 DEF ChooserOpensLate, CopyAppears
<1>19. CASE UNCHANGED appVars
  BY <1>19 DEF appVars
<1> QED BY <1>6, <1>7, <1>8, <1>9, <1>10, <1>11, <1>12, <1>13, <1>14, <1>15, <1>16, <1>17, <1>18,
           <1>19 DEF AppNext

LEMMA AppResultsTypedNext ==
  ASSUME InsertTyped, AppResultsTyped, [AppNext]_appVars
  PROVE  AppResultsTyped'
<1> USE DEF AppResultsTyped, appConfig, appCall, appPage
<1>1. number \in 0..MaxAppCalls /\ (appPhase # "idle" => number \in CallNumbers)
      /\ MaxAppCalls \in Nat
  BY AppAssumption DEF InsertTyped
<1> DEFINE Ended == results' \in [CallNumbers -> {"none", "ok", "error"}]
                    /\ choosers' \in Seq(CallNumbers)
<1>2. << >> \in Seq(CallNumbers)
  OBVIOUS
<1>3. Queue => choosers' \in Seq(CallNumbers)
  BY <1>2 DEF Queue
<1>4. \A result \in {"none", "ok", "error"} :
        AppEnds(result) => results' \in [CallNumbers -> {"none", "ok", "error"}]
  BY DEF AppEnds
<1>5. PasteFails \/ DropFails => Ended
  BY <1>3, <1>4 DEF PasteFails, DropFails
<1>6. ASSUME NEW c \in AppCalls, BeginApp(c) PROVE AppResultsTyped'
  <2>1. number' \in CallNumbers
    BY <1>1, <1>6 DEF BeginApp, CallNumbers
  <2> QED BY <1>6, <2>1 DEF BeginApp
<1>7. CASE WriteClipboard \/ NoKeyWorks \/ BeginDrop
  <2>1. UNCHANGED <<number, lateChoosers, unseen>>
    BY <1>7 DEF WriteClipboard, NoKeyWorks, BeginDrop
  <2>2. PasteFails \/ DropFails \/ UNCHANGED <<results, choosers>>
    BY <1>7 DEF WriteClipboard, NoKeyWorks, BeginDrop
  <2> QED BY <1>5, <2>1, <2>2
<1>8. CASE DropFiles
  <2>1. UNCHANGED <<number, lateChoosers>> /\ unseen' \subseteq unseen \cup {number}
        /\ number \in CallNumbers
    BY <1>1, <1>8 DEF DropFiles
  <2>2. DropFails \/ UNCHANGED <<results, choosers>>
    BY <1>8 DEF DropFiles
  <2> QED BY <1>5, <2>1, <2>2
<1>9. CASE PressPaste
  <2>1. unseen' \subseteq unseen \cup {number} /\ number \in CallNumbers
    BY <1>1, <1>9 DEF PressPaste
  <2> QED BY <1>9, <2>1 DEF PressPaste
<1>10. CASE FocusCanvas \/ NoChooser
  BY <1>10 DEF FocusCanvas, NoChooser
<1>11. ASSUME NEW differs \in BOOLEAN, Judge(differs) PROVE AppResultsTyped'
  <2>1. UNCHANGED <<number, lateChoosers>> /\ unseen' \subseteq unseen \cup {number}
        /\ number \in CallNumbers
    BY <1>1, <1>11 DEF Judge
  <2>2. (AppEnds("ok") /\ Queue) \/ PasteFails \/ DropFails
    BY <1>11 DEF Judge
  <2>3. Ended
    BY <1>3, <1>4, <1>5, <2>2
  <2> QED BY <2>1, <2>3
<1>12. CASE BeginImport
  <2>1. UNCHANGED <<number, lateChoosers, unseen>>
    BY <1>12 DEF BeginImport
  <2>2. Ended
    BY <1>3, <1>4, <1>12 DEF BeginImport
  <2> QED BY <2>1, <2>2
<1>13. CASE TriggerChooser
  <2>1. number \in CallNumbers
    BY <1>1, <1>13 DEF TriggerChooser
  <2>2. choosers' \in Seq(CallNumbers)
    BY <1>13, <2>1, AppendProperties DEF TriggerChooser
  <2>3. lateChoosers' \in Nat
    BY <1>13 DEF TriggerChooser
  <2>4. UNCHANGED <<number, results, unseen>>
    BY <1>13 DEF TriggerChooser
  <2> QED BY <2>1, <2>2, <2>3, <2>4
<1>14. CASE AcceptChooser
  <2>1. choosers' \in Seq(CallNumbers)
    BY <1>14, HeadTailProperties DEF AcceptChooser
  <2>2. unseen' \subseteq unseen \cup {number} /\ number \in CallNumbers
    BY <1>1, <1>14 DEF AcceptChooser
  <2>3. results' \in [CallNumbers -> {"none", "ok", "error"}]
    BY <1>14 DEF AcceptChooser
  <2>4. UNCHANGED <<number, lateChoosers>>
    BY <1>14 DEF AcceptChooser
  <2> QED BY <2>1, <2>2, <2>3, <2>4
<1>15. CASE NothingTriggers
  BY <1>15 DEF NothingTriggers
<1>16. CASE ReleaseChooser
  <2>1. UNCHANGED <<number, lateChoosers, unseen>>
    BY <1>16 DEF ReleaseChooser
  <2>2. AppEnds(results[number]) /\ Queue /\ results[number] \in {"none", "ok", "error"}
    BY <1>1, <1>16 DEF ReleaseChooser
  <2>3. Ended
    BY <1>3, <1>4, <2>2
  <2> QED BY <2>1, <2>3
<1>17. CASE ChooserOpensLate
  <2>1. lateChoosers > 0 /\ lateChoosers' = lateChoosers - 1 /\ UNCHANGED <<number, results, unseen>>
    BY <1>17 DEF ChooserOpensLate
  <2>2. choosers' = choosers \/ choosers' = Append(choosers, number)
    BY <1>17 DEF ChooserOpensLate
  <2>3. choosers' \in Seq(CallNumbers)
    BY <2>1, <2>2, AppendProperties
  <2> QED BY <2>1, <2>3
<1>18. CASE \E n \in CallNumbers : CopyAppears(n)
  BY <1>18 DEF CopyAppears
<1>19. CASE UNCHANGED appVars
  BY <1>19 DEF appVars
<1> QED BY <1>6, <1>7, <1>8, <1>9, <1>10, <1>11, <1>12, <1>13, <1>14, <1>15, <1>16, <1>17, <1>18,
           <1>19 DEF AppNext

\* What a server knows of its insertions, and what the page has of them, keep their types and
\* bounds (AppInsert).
THEOREM AppTypeCorrect == AppSpec => []AppTypeOK
<1>1. AppInit => AppFlags /\ AppCallTyped /\ AppResultsTyped
  <2>1. MaxTriggers \in Nat /\ << >> \in Seq(CallNumbers)
    BY AppAssumption
  <2> SUFFICES ASSUME AppInit PROVE AppFlags /\ AppCallTyped /\ AppResultsTyped
    OBVIOUS
  <2>2. AppFlags
    BY DEF AppInit, AppFlags
  <2>3. AppCallTyped
    BY <2>1 DEF AppInit, AppCallTyped, AppPhases
  <2>4. AppResultsTyped
    BY <2>1 DEF AppInit, AppResultsTyped
  <2> QED BY <2>2, <2>3, <2>4
<1>2. InsertTyped /\ AppFlags /\ AppCallTyped /\ AppResultsTyped => AppTypeOK
  <2> SUFFICES ASSUME InsertTyped, AppFlags, AppCallTyped, AppResultsTyped PROVE AppTypeOK
    OBVIOUS
  <2>1. number \in 0..MaxAppCalls /\ {due, copies} \subseteq [CallNumbers -> Nat]
    BY DEF InsertTyped
  <2>2. \A i \in 1..Len(choosers) : choosers[i] \in CallNumbers
    BY DEF AppResultsTyped
  <2>3. /\ appPhase \in AppPhases /\ app \in AppCalls \cup {NoApp}
        /\ appAttempt \in {"none", "paste", "drop"} /\ appMode \in {"direct", "extension"}
        /\ keys \in 0..2 /\ triggers \in 0..MaxTriggers
    BY DEF AppCallTyped
  <2> QED BY <2>1, <2>2, <2>3 DEF AppFlags, AppPhases, AppResultsTyped, AppTypeOK
<1>3. InsertInv => InsertTyped
  BY DEF InsertInv
<1> QED BY <1>1, <1>2, <1>3, InsertInitInv, InsertNextInv, AppFlagsNext, AppCallTypedNext,
           AppResultsTypedNext, PTL DEF AppSpec

-----------------------------------------------------------------------------
(* Types and bounds: input.                                                *)

\* The calls, the attempts, what is still to be sent and what is awaited keep their types
\* and bounds (tools/smart/click.py, input/*.py).
THEOREM InputTypeCorrect == InputSpec => []InputTypeOK
<1>1. InputInv => InputTypeOK
  BY DEF InputInv, InputFits
<1> QED BY <1>1, InputInitInv, InputNextInv, PTL DEF InputSpec

-----------------------------------------------------------------------------
(* The parts of the server and its tab together.                            *)

\* In every state one part is in focus; its steps are steps of that part, and stutter for the rest.
PageFocus == focus \in PageParts

LEMMA PageOfPartsInit ==
  PageInit =>
    /\ PageFocus
    /\ InputInit
    /\ WaitInit
    /\ TabInit
    /\ DialogInit
    /\ ChannelInit
    /\ TelemetryInit
    /\ DownloadInit
    /\ ObservationInit
    /\ DiagInit
    /\ TimingInit
    /\ AppInit
BY DEF PageInit, PageFocus

LEMMA PageOfPartsNext ==
  ASSUME PageFocus, [PageNext]_pageAllVars
  PROVE  /\ PageFocus'
         /\ [InputNext]_inputVars
         /\ [WaitNext]_waitVars
         /\ [TabNext]_tabVars
         /\ [DialogNext]_dialogVars
         /\ [ChannelNext]_channelVars
         /\ [TelemetryNext]_telemetryTabVars
         /\ [DownloadNext]_downloadVars
         /\ [ObservationNext]_observationVars
         /\ [DiagNext]_diagVars
         /\ [TimingNext]_timingVars
         /\ [AppNext]_appVars
<1>1. CASE focus = "input" /\ InputNext /\ Others("input")
  BY <1>1 DEF Others, PageFocus
<1>2. CASE focus = "wait" /\ WaitNext /\ Others("wait")
  BY <1>2 DEF Others, PageFocus
<1>3. CASE focus = "tab" /\ TabNext /\ Others("tab")
  BY <1>3 DEF Others, PageFocus
<1>4. CASE focus = "dialog" /\ DialogNext /\ Others("dialog")
  BY <1>4 DEF Others, PageFocus
<1>5. CASE focus = "channel" /\ ChannelNext /\ Others("channel")
  BY <1>5 DEF Others, PageFocus
<1>6. CASE focus = "telemetry" /\ TelemetryNext /\ Others("telemetry")
  BY <1>6 DEF Others, PageFocus
<1>7. CASE focus = "download" /\ DownloadNext /\ Others("download")
  BY <1>7 DEF Others, PageFocus
<1>8. CASE focus = "observation" /\ ObservationNext /\ Others("observation")
  BY <1>8 DEF Others, PageFocus
<1>9. CASE focus = "diagnostics" /\ DiagNext /\ Others("diagnostics")
  BY <1>9 DEF Others, PageFocus
<1>10. CASE focus = "resources" /\ TimingNext /\ Others("resources")
  BY <1>10 DEF Others, PageFocus
<1>11. CASE focus = "app" /\ AppNext /\ Others("app")
  BY <1>11 DEF Others, PageFocus
<1>12. CASE UNCHANGED pageAllVars
  BY <1>12 DEF pageAllVars, PageFocus
<1> QED BY <1>1, <1>2, <1>3, <1>4, <1>5, <1>6, <1>7, <1>8, <1>9, <1>10, <1>11, <1>12 DEF PageNext

\* What the server does with the tab, one part at a time, is a behaviour of each part: what the
\* theorems above say of a part holds of the composition that the run checks (MCPage).
THEOREM PageOfParts == PageSpec =>
  /\ InputSpec
  /\ WaitSpec
  /\ TabSpec
  /\ DialogSpec
  /\ ChannelSpec
  /\ TelemetrySpec
  /\ DownloadSpec
  /\ ObservationSpec
  /\ DiagSpec
  /\ TimingSpec
  /\ AppSpec
BY PageOfPartsInit, PageOfPartsNext, PTL DEF PageSpec, InputSpec, WaitSpec, TabSpec, DialogSpec,
      ChannelSpec, TelemetrySpec, DownloadSpec, ObservationSpec, DiagSpec, TimingSpec, AppSpec

\* Every part of the server that works on a tab has its types, as the run checks it (MCPage).
THEOREM PageTypesCorrect == PageSpec => []PageTypeOK
<1>1. PageSpec => []PageFocus
  BY PageOfPartsInit, PageOfPartsNext, PTL DEF PageSpec
<1>2. /\ PageFocus
      /\ InputTypeOK
      /\ WaitTypeOK
      /\ TabTypeOK
      /\ DialogTypeOK
      /\ ChannelTypeOK
      /\ TelemetryTypeOK
      /\ DownloadTypeOK
      /\ ObservationTypeOK
      /\ DiagTypeOK
      /\ TimingTypeOK
      /\ AppTypeOK
      => PageTypeOK
  BY DEF PageFocus, PageParts, PageTypeOK
<1> QED BY <1>1, <1>2, PageOfParts, InputTypeCorrect, WaitTypeCorrect, TabTypeCorrect,
      DialogTypeCorrect, ChannelTypeCorrect, TelemetryTypeCorrect, DownloadTypeCorrect,
      ObservationTypeCorrect, DiagTypeCorrect, TimingTypeCorrect, AppTypeCorrect, PTL

\* Whatever the calls, retries, navigations, dialogs, events and downloads in one tab: the safety
\* properties of all parts hold in the composition, for all values of the constants.
THEOREM PageIsSafe == PageSpec =>
  /\ [](OnceUnlessInDoubt /\ OkMeansDone)
  /\ [](NavigationNotMissed /\ ChangedUnlessStale)
  /\ [](NothingLeaks /\ NoLastingAlarm /\ ChannelDelivers)
  /\ [](DeltasAreComplete /\ RecordsOneRequest)
  /\ []CapturedIsNew
  /\ [](GraphIsClosed /\ ActsOnWhatIsShown)
  /\ [](ErrorsRecordedOnce /\ ListIsCurrent /\ OneCopyUnlessUnseen)
BY PageOfParts, OnceCorrect, DoneCorrect, NoNavigationMissed, ChangesAreReal, SessionCorrect,
   AlarmsEnd, ChannelCorrect, DeltasCorrect, RecordsCorrect, CapturesCorrect, GraphCorrect,
   ActsCorrect, ErrorsCorrect, ListCorrect, OneCopyCorrect, PTL
=============================================================================
