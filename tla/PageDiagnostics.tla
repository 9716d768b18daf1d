--------------------------- MODULE PageDiagnostics ---------------------------
(***************************************************************************)
(* The script that records a page's errors in the page itself, and the     *)
(* servers that install it and read what is new since a cursor             *)
(* (diagnostics.py, session_manager.ensure_diagnostics,                    *)
(* tools/page/diagnostics.py, triage.py).                                  *)
(*                                                                         *)
(* One tab and several servers, of different releases: each has a script   *)
(* of its own version.  A script that finds another version in the page    *)
(* becomes a layer over it, without buffers or hooks of its own.  Errors,  *)
(* console messages and rejections are alike here; a failed request is     *)
(* recorded when it ends, with the time at which it began.                 *)
(***************************************************************************)
EXTENDS Filters

CONSTANTS
  ScriptServers,   \* servers, each with the version of its script as its name
  MaxEntries,      \* MAX: entries that a buffer keeps; also the default limit of a reader
  Hardened,        \* pages may refuse the script, or wipe it out
  MaxErrors, MaxDocuments, MaxPageTime, MaxReads, MaxLayers   \* bounds

ASSUME DiagnosticsAssumption ==
  /\ IsFiniteSet(ScriptServers) /\ MaxEntries \in Nat \ {0} /\ Hardened \in BOOLEAN
  /\ {MaxErrors, MaxReads, MaxLayers} \subseteq Nat
  /\ {MaxDocuments, MaxPageTime} \subseteq Nat \ {0}

VARIABLES
  ownSession,  \* direct mode: what a connection has registered ends with it
  pageTime,    \* in milliseconds, for page and servers
  layers,      \* __mcpDiag: the scripts in the document, the top one last; each with its
               \* version, whether it has buffers, its errors and its failed requests
  fetching,    \* requests under way that will fail: number and beginning
  scriptIds,   \* servers that know the id of their registered script
  registered,  \* versions that Chrome runs in every new document
  readerAt,    \* "away", "attached", "checked", "ready" or "read"
  cursors,     \* each server's cursor; 0 before its first
  documents, reads,
  \* history
  raised,      \* errors and failures of the document since it began or was cleared: kind,
               \* number, time of the entry, and whether a script was there to see it
  nextEntry,
  missing      \* new errors and failures that the last delta did not tell

diagBounds == <<documents, reads>>
diagHistory == <<raised, nextEntry, missing>>
serverSide == <<ownSession, scriptIds, registered, readerAt, cursors>>
diagVars == <<pageTime, layers, fetching, serverSide, diagBounds, diagHistory>>

DiagInit ==
  /\ ownSession \in BOOLEAN /\ pageTime = 1 /\ layers = << >> /\ fetching = {}
  /\ scriptIds = {} /\ registered = {}
  /\ readerAt = [s \in ScriptServers |-> "away"] /\ cursors = [s \in ScriptServers |-> 0]
  /\ documents = 1 /\ reads = 0
  /\ raised = << >> /\ nextEntry = 1 /\ missing = {}

-----------------------------------------------------------------------------
(* The script                                                              *)

LastOf(q, n) == SubSeq(q, IF Len(q) > n THEN Len(q) - n + 1 ELSE 1, Len(q))

\* Mutant: a script looks only at its own version.
NeverPrevious(under) == FALSE

\* A script of another version, with its buffers, is there.
HasPrevious(under) == under # << >>

\* The document with the script of version v run in it.
Installed(under, v) ==
  IF under # << >> /\ under[Len(under)].version = v THEN under
  ELSE Append(under, [version |-> v, keeps |-> ~HasPrevious(under), errors |-> << >>,
                      failures |-> << >>])

Entry(kind, id, at) == [kind |-> kind, id |-> id, at |-> at]

\* push, of every layer that has hooks and buffers.
Pushed(kind, e) ==
  [i \in DOMAIN layers |->
     IF ~layers[i].keeps THEN layers[i]
     ELSE IF kind = "error"
     THEN [layers[i] EXCEPT !.errors = LastOf(Append(@, e), MaxEntries)]
     ELSE [layers[i] EXCEPT !.failures = LastOf(Append(@, e), MaxEntries)]]

\* baseSnapshot, baseSummary: of the layer under those that have none.
Base == layers[CHOOSE i \in DOMAIN layers :
                 layers[i].keeps /\ \A j \in DOMAIN layers : layers[j].keeps => j <= i]

Limit(n) == IF n = 0 THEN MaxEntries ELSE n

\* snapshot: the last entries of each kind, without those up to the cursor.
Told(since, n) ==
  LET tail == LastOf(Base.errors, Limit(n)) \o LastOf(Base.failures, Limit(n))
  IN {e \in {tail[i] : i \in DOMAIN tail} : e.at > since}

-----------------------------------------------------------------------------
(* The page                                                                *)

Noted(kind, at) ==
  /\ nextEntry' = nextEntry + 1
  /\ raised' = Append(raised, [kind |-> kind, id |-> nextEntry, at |-> at,
                               seen |-> layers # << >>])

PageRaises ==
  /\ nextEntry <= MaxErrors /\ Noted("error", pageTime)
  /\ layers' = Pushed("error", Entry("error", nextEntry, pageTime))
  /\ UNCHANGED <<pageTime, fetching, serverSide, diagBounds, missing>>

\* Of a request that begins without the script in the page nothing is recorded.  One at a time.
FetchBegins ==
  /\ layers # << >> /\ fetching = {} /\ nextEntry <= MaxErrors
  /\ fetching' = {pageTime}
  /\ UNCHANGED <<pageTime, layers, serverSide, diagBounds, diagHistory>>

FetchFails(began) ==
  /\ began \in fetching /\ fetching' = {} /\ nextEntry <= MaxErrors
  /\ Noted("failure", pageTime)
  /\ layers' = Pushed("failure", Entry("failure", nextEntry, began))
  /\ UNCHANGED <<pageTime, serverSide, diagBounds, missing>>

PageTick ==
  /\ pageTime < MaxPageTime /\ pageTime' = pageTime + 1
  /\ UNCHANGED <<layers, fetching, serverSide, diagBounds, diagHistory>>

\* The registered scripts run first, in the order in which they were registered.
Orders(S) == {f \in [1..Cardinality(S) -> S] : \A v \in S : \E i \in DOMAIN f : f[i] = v}

NewDocument ==
  /\ documents < MaxDocuments /\ documents' = documents + 1
  /\ \E order \in Orders(registered) :
       layers' = [i \in DOMAIN order |-> [version |-> order[i], keeps |-> i = 1,
                                          errors |-> << >>, failures |-> << >>]]
  /\ fetching' = {} /\ raised' = << >>
  /\ UNCHANGED <<pageTime, serverSide, reads, nextEntry, missing>>

\* The page deletes what it does not know: old hooks fill buffers that nobody reads.  It counts
\* as a document in the bound.
PageWipesGlobals ==
  /\ Hardened /\ layers # << >> /\ documents < MaxDocuments /\ documents' = documents + 1
  /\ layers' = << >> /\ fetching' = {}
  /\ raised' = [i \in DOMAIN raised |-> [raised[i] EXCEPT !.seen = FALSE]]
  /\ UNCHANGED <<pageTime, serverSide, reads, nextEntry, missing>>

-----------------------------------------------------------------------------
(* A server                                                                *)

ReaderMoves(s, to) == readerAt' = [readerAt EXCEPT ![s] = to]

\* A connection for one tool call, or for all those of a run.  ensure_diagnostics registers the
\* script unless it has an id for it, or has seen it in the page in the last ten seconds; that
\* may fail.
RegisterScript(s) ==
  /\ readerAt[s] \in {"away", "attached", "read"} /\ reads < MaxReads
  /\ ReaderMoves(s, "checked")
  /\ \/ s \notin scriptIds /\ scriptIds' = scriptIds \cup {s}
        /\ registered' = registered \cup {s}
     \/ (Hardened \/ s \in scriptIds) /\ UNCHANGED <<scriptIds, registered>>
  /\ UNCHANGED <<pageTime, layers, fetching, ownSession, cursors, diagBounds, diagHistory>>

\* Then it runs it in the page, unless the page has it already or does not answer.  Servers
\* of two releases that take turns put layer over layer (bound MaxLayers).
InjectScript(s) ==
  /\ readerAt[s] = "checked" /\ ReaderMoves(s, "ready")
  /\ \/ layers' = Installed(layers, s) /\ Len(layers') <= MaxLayers
     \/ Hardened /\ layers' = layers
  /\ UNCHANGED <<pageTime, fetching, ownSession, scriptIds, registered, cursors, diagBounds,
                 diagHistory>>

\* page(detail="diagnostics" or "triage", since=cursor, limit=n).
ReadNew(s, n) ==
  /\ readerAt[s] = "ready" /\ reads < MaxReads /\ reads' = reads + 1
  /\ layers # << >> /\ ReaderMoves(s, "read")
  /\ cursors' = [cursors EXCEPT ![s] = pageTime]
  /\ missing' = {raised[i] : i \in {j \in DOMAIN raised :
                     /\ cursors[s] # 0 /\ raised[j].at > cursors[s]
                     /\ Len(raised) - j < Limit(n)
                     /\ \A e \in Told(cursors[s], n) : e.id # raised[j].id}}
  /\ UNCHANGED <<pageTime, layers, fetching, ownSession, scriptIds, registered, documents,
                 raised, nextEntry>>

\* Without the script, or with a dialog open, the answer is that of the telemetry.
ReadTelemetry(s) ==
  /\ readerAt[s] = "ready" /\ reads < MaxReads /\ reads' = reads + 1
  /\ ReaderMoves(s, "read") /\ cursors' = [cursors EXCEPT ![s] = pageTime]
  /\ UNCHANGED <<pageTime, layers, fetching, ownSession, scriptIds, registered, documents,
                 diagHistory>>

\* clear=true.
ClearLog(s) ==
  /\ readerAt[s] = "read" /\ ReaderMoves(s, "attached")
  /\ layers' = [i \in DOMAIN layers |-> [layers[i] EXCEPT !.errors = << >>, !.failures = << >>]]
  /\ raised' = << >>
  /\ UNCHANGED <<pageTime, fetching, ownSession, scriptIds, registered, cursors, diagBounds,
                 nextEntry, missing>>

\* The end of the call, or of the run.  A connection of its own takes with it what it registered.
DetachReader(s) ==
  /\ readerAt[s] \in {"attached", "ready", "read"} /\ ReaderMoves(s, "away")
  /\ registered' = IF ownSession THEN registered \ {s} ELSE registered
  /\ UNCHANGED <<pageTime, layers, fetching, ownSession, scriptIds, cursors, diagBounds,
                 diagHistory>>

\* browser(action="recover"), or another process in its place.
ForgetScripts(s) ==
  /\ readerAt[s] = "away" /\ s \in scriptIds /\ scriptIds' = scriptIds \ {s}
  /\ UNCHANGED <<pageTime, layers, fetching, ownSession, registered, readerAt, cursors,
                 diagBounds, diagHistory>>

DiagNext ==
  \/ PageRaises \/ FetchBegins \/ PageTick \/ NewDocument \/ PageWipesGlobals
  \/ \E began \in fetching : FetchFails(began)
  \/ \E s \in ScriptServers :
       \/ RegisterScript(s) \/ InjectScript(s) \/ DetachReader(s)
       \/ \E n \in 0..(MaxEntries - 1) : ReadNew(s, n)
       \/ ReadTelemetry(s) \/ ClearLog(s) \/ ForgetScripts(s)

DiagSpec == DiagInit /\ [][DiagNext]_diagVars

-----------------------------------------------------------------------------
DiagTypeOK ==
  /\ ownSession \in BOOLEAN /\ pageTime \in 1..MaxPageTime
  /\ \A i \in DOMAIN layers : layers[i].version \in ScriptServers /\ layers[i].keeps \in BOOLEAN
  /\ fetching \subseteq 1..MaxPageTime
  /\ {scriptIds, registered} \subseteq SUBSET ScriptServers
  /\ readerAt \in [ScriptServers -> {"away", "attached", "checked", "ready", "read"}]
  /\ cursors \in [ScriptServers -> 0..MaxPageTime]
  /\ documents \in 1..MaxDocuments /\ reads \in 0..MaxReads /\ nextEntry \in 1..(MaxErrors + 1)

SeenByScript(kind) ==
  Filtered(raised, {i \in DOMAIN raised : raised[i].kind = kind /\ raised[i].seen})
Ids(entries) == [i \in DOMAIN entries |-> entries[i].id]

\* However often scripts of whatever releases are put into a page, one over the other and
\* in whatever order, an error that happened while there was one is recorded once, in
\* order, until newer ones, a clear or the page push it out (DIAGNOSTICS_SCRIPT_SOURCE, prev).
ErrorsRecordedOnce ==
  layers # << >> =>
    /\ Ids(Base.errors) = Ids(LastOf(SeenByScript("error"), MaxEntries))
    /\ Ids(Base.failures) = Ids(LastOf(SeenByScript("failure"), MaxEntries))

\* "Delta after an action: page(detail="triage", since=<cursor>) (new errors/fails/resources
\* only)" (docs/AGENT_PLAYBOOK.md:150): the new errors are in the delta, on a page that is not
\* hardened.
DeltaHasNewErrors == ~Hardened => \A e \in missing : e.kind # "error"
=============================================================================
