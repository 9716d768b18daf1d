----------------------------- MODULE Telemetry -----------------------------
(***************************************************************************)
(* Tier-0 telemetry of one tab (telemetry.py): what the events of the bus  *)
(* leave in its buffers, and what two readers make of them: net(harLite)   *)
(* of a run, which asks for what is new since the cursor it got last       *)
(* (flow/handler.py), and net(trace), which lists finished requests and    *)
(* looks them up again (net_trace.py).                                     *)
(*                                                                         *)
(* An event is ingested, and a snapshot taken, under the telemetry's lock; *)
(* the steps of a reader are not.  Of the buffers, which are all alike,    *)
(* harLite is modelled, and the maps of requests.                          *)
(***************************************************************************)
EXTENDS Filters

CONSTANTS
  Requests,        \* request ids
  MaxHops,         \* bound: requests sent under one id, the first and redirects
  MaxClock,        \* bound: milliseconds
  MaxBuffer,       \* max_events, 200 in the code
  MaxRequestMap    \* max_request_map, 800 in the code

ASSUME TelemetryAssumption ==
  {MaxHops, MaxClock, MaxBuffer, MaxRequestMap} \subseteq Nat \ {0} /\ IsFiniteSet(Requests)

VARIABLES
  now,       \* the clock, in milliseconds
  page,      \* browser: request -> stage, and its hop: the number of its redirect
  req,       \* _req in insertion order: id, hop, and the hop its status is of
  reqDone,   \* _req_done in insertion order
  har,       \* harLite: number and time of entries
  cursor,    \* Tier0Telemetry.cursor, 0 before the first event
  readTo,    \* the cursor net(harLite) got last, 0 before
  clearing,  \* net(harLite, clear) has its snapshot and has not cleared yet
  tracing,   \* a record net(trace) has listed and not looked up yet, in a set, or none
  \* history
  pushed,    \* entries of harLite so far
  given,     \* their numbers in the order they were reported
  gone,      \* those that left the buffer unreported
  blind,     \* those pushed in the millisecond of the reader's cursor
  deaf       \* requests of which the bus has missed an event

readerVars == <<readTo, clearing, tracing>>
bufferVars == <<har, cursor, pushed, gone, blind>>
telemetryTabVars ==
  <<now, page, req, reqDone, bufferVars, readerVars, given, deaf>>

Stage == {"new", "sent", "answered", "over"}

TelemetryInit ==
  /\ now = 1 /\ page = [r \in Requests |-> [stage |-> "new", hop |-> 0]]
  /\ req = <<>> /\ reqDone = <<>> /\ har = <<>> /\ cursor = 0
  /\ readTo = 0 /\ clearing = FALSE /\ tracing = {}
  /\ pushed = 0 /\ given = <<>> /\ gone = {} /\ blind = {} /\ deaf = {}

-----------------------------------------------------------------------------
(* Buffers                                                                 *)

Newest(buffer, n) ==
  IF Len(buffer) <= n THEN buffer ELSE SubSeq(buffer, Len(buffer) - n + 1, Len(buffer))

\* A dict of the code: a key that is there keeps its place.
Place(map, id) == {i \in DOMAIN map : map[i].id = id}
Put(map, meta) ==
  IF Place(map, meta.id) = {} THEN Append(map, meta)
  ELSE [i \in DOMAIN map |-> IF map[i].id = meta.id THEN meta ELSE map[i]]
Without(map, id) == Filtered(map, DOMAIN map \ Place(map, id))

\* What _req knows of a request; hop 0: nothing.
Unknown(id) == [id |-> id, hop |-> 0, status |-> 0]
Known(id) ==
  IF Place(req, id) = {} THEN Unknown(id) ELSE req[CHOOSE i \in Place(req, id) : TRUE]

\* Mutant: a request that is known stays as it is.
RememberFirst(meta) ==
  req' = IF Place(req, meta.id) # {} THEN req ELSE Newest(Append(req, meta), MaxRequestMap)

\* Mutant: nothing leaves.
RememberAllDone(meta) == reqDone' = Put(reqDone, meta)

\* _remember_request, _remember_done_request: the first of the dict leave it.
RememberRequest(meta) == req' = Newest(Put(req, meta), MaxRequestMap)
RememberDone(meta) == reqDone' = Newest(Put(reqDone, meta), MaxRequestMap)

\* An event is ingested: the cursor follows the clock.
Tick == cursor' = now

\* _push: the oldest entries leave a full buffer.
Reported(n) == \E i \in DOMAIN given : given[i] = n
Left(buffer, kept) ==
  {buffer[i].no : i \in DOMAIN buffer} \ {kept[i].no : i \in DOMAIN kept}
PushHar ==
  LET entry == [no |-> pushed + 1, ts |-> now]
      all == Append(har, entry)
  IN  /\ har' = Newest(all, MaxBuffer) /\ pushed' = pushed + 1
      /\ gone' = gone \cup {n \in Left(all, har') : ~Reported(n)}
      /\ blind' = IF now = readTo THEN blind \cup {entry.no} ELSE blind
NoPush == UNCHANGED <<har, pushed, gone, blind>>

-----------------------------------------------------------------------------
(* Events of the browser.  The bus hears one or, while it reconnects, not. *)

Hears(r) == UNCHANGED deaf
Misses(r) ==
  /\ deaf' = deaf \cup {r}
  /\ UNCHANGED <<req, reqDone, bufferVars>>
Quiet == UNCHANGED <<now, readerVars, given>>

\* requestWillBeSent; a redirect sends the request again under its id, and the new
\* request takes the place of the old one.
RequestWillBeSent(r) ==
  /\ page[r].stage \in {"new", "sent"} /\ page[r].hop < MaxHops
  /\ page' = [page EXCEPT ![r] = [stage |-> "sent", hop |-> @.hop + 1]]
  /\ \/ /\ Hears(r) /\ Tick
        /\ RememberRequest([id |-> r, hop |-> page[r].hop + 1, status |-> 0])
        /\ NoPush /\ UNCHANGED reqDone
     \/ Misses(r)
  /\ Quiet

\* responseReceived: the status of the request, if it is remembered.
ResponseReceived(r) ==
  /\ page[r].stage = "sent" /\ page' = [page EXCEPT ![r].stage = "answered"]
  /\ \/ /\ Hears(r) /\ Tick
        /\ IF Known(r).hop = 0 THEN UNCHANGED req
           ELSE req' = Put(req, [Known(r) EXCEPT !.status = page[r].hop])
        /\ NoPush /\ UNCHANGED reqDone
     \/ Misses(r)
  /\ Quiet

\* loadingFinished, after an answer; loadingFailed, also without one.  A finished
\* request of which nothing is known may be filtered out of harLite; the requests
\* of the model are otherwise of types it keeps.
RequestEnds(r, fails) ==
  /\ page[r].stage \in {"answered"} \cup (IF fails THEN {"sent"} ELSE {})
  /\ page' = [page EXCEPT ![r].stage = "over"]
  /\ \/ /\ Hears(r) /\ Tick
        /\ PushHar \/ (~fails /\ Known(r).hop = 0 /\ NoPush)
        /\ RememberDone(Known(r)) /\ req' = Without(req, r)
     \/ Misses(r)
  /\ Quiet

\* An event of another kind: console, exception, dialog, navigation.
OtherEvent ==
  /\ Tick /\ NoPush
  /\ Quiet /\ UNCHANGED <<page, req, reqDone, deaf>>

TimePasses ==
  /\ now < MaxClock /\ now' = now + 1
  /\ UNCHANGED <<page, req, reqDone, bufferVars, readerVars, given, deaf>>

-----------------------------------------------------------------------------
(* Readers                                                                 *)

\* Mutant: not earlier.
SinceInclusive == Filtered(har, {i \in DOMAIN har : har[i].ts >= readTo})

\* tier0_snapshot: the entries later than `since`, and the cursor to go on with.
Since == Filtered(har, {i \in DOMAIN har : har[i].ts > readTo})
CursorNow == IF cursor = 0 THEN now ELSE cursor

\* net(harLite, since=<cursor>): all entries since, and with clear the buffer is
\* emptied in a second step.
HarLite(clear) ==
  /\ ~clearing
  /\ given' = given \o [i \in DOMAIN Since |-> Since[i].no]
  /\ readTo' = CursorNow /\ clearing' = clear
  /\ UNCHANGED <<now, page, req, reqDone, bufferVars, tracing, deaf>>

ClearHarLite ==
  /\ clearing /\ clearing' = FALSE
  /\ har' = <<>> /\ gone' = gone \cup {n \in Left(har, <<>>) : ~Reported(n)}
  /\ UNCHANGED <<now, page, req, reqDone, cursor, pushed, blind, readTo, tracing, given,
                 deaf>>

\* page(diagnostics, clear): every buffer and both maps.
ClearTelemetry ==
  /\ ~clearing
  /\ har' = <<>> /\ gone' = gone \cup {n \in Left(har, <<>>) : ~Reported(n)}
  /\ req' = <<>> /\ reqDone' = <<>>
  /\ UNCHANGED <<now, page, cursor, pushed, blind, readerVars, given, deaf>>

\* net(trace) lists finished requests, newest first up to its limit; one of them.
TraceLists ==
  /\ tracing = {}
  /\ \E i \in DOMAIN reqDone : tracing' = {reqDone[i]}
  /\ UNCHANGED <<now, page, req, reqDone, bufferVars, readTo, clearing, given, deaf>>

\* It looks each up again, by its id, for the full URL and the headers; one that is
\* gone by then keeps what the list said.
FullRecord(m) ==
  IF Place(reqDone, m.id) = {} THEN m ELSE reqDone[CHOOSE i \in Place(reqDone, m.id) : TRUE]

\* With clear the map is emptied in the end.
TraceReports(clear) ==
  /\ tracing # {} /\ tracing' = {}
  /\ reqDone' = IF clear THEN <<>> ELSE reqDone
  /\ UNCHANGED <<now, page, req, bufferVars, readTo, clearing, given, deaf>>

TelemetryNext ==
  \/ \E r \in Requests :
       \/ RequestWillBeSent(r) \/ ResponseReceived(r)
       \/ \E fails \in BOOLEAN : RequestEnds(r, fails)
  \/ OtherEvent \/ TimePasses \/ ClearHarLite \/ ClearTelemetry \/ TraceLists
  \/ \E clear \in BOOLEAN : HarLite(clear) \/ TraceReports(clear)

TelemetrySpec == TelemetryInit /\ [][TelemetryNext]_telemetryTabVars

-----------------------------------------------------------------------------
Meta == [id : Requests, hop : 0..MaxHops, status : 0..MaxHops]

TelemetryTypeOK ==
  /\ now \in 1..MaxClock /\ cursor \in 0..now /\ readTo \in 0..now
  /\ page \in [Requests -> [stage : Stage, hop : 0..MaxHops]]
  /\ req \in Seq(Meta) /\ reqDone \in Seq(Meta) /\ tracing \subseteq Meta
  /\ Len(req) <= MaxRequestMap /\ Len(reqDone) <= MaxRequestMap
  /\ har \in Seq([no : 1..pushed, ts : 1..MaxClock]) /\ Len(har) <= MaxBuffer
  /\ clearing \in BOOLEAN /\ pushed \in 0..Cardinality(Requests) /\ given \in Seq(1..pushed)
  /\ gone \subseteq 1..pushed /\ blind \subseteq 1..pushed /\ deaf \subseteq Requests

\* A reader that passes every cursor on ("delta via since/cursor") gets the entries
\* of harLite in order and none twice, and misses none but those that left the
\* buffer before it asked (a full buffer, a clear that came between its snapshot
\* and its clear) and those pushed in the very millisecond of a cursor it had got.
DeltasAreComplete ==
  /\ \A i, j \in DOMAIN given : i < j => given[i] < given[j]
  /\ \A n \in 1..pushed :
       \/ Reported(n) \/ n \in gone \cup blind
       \/ \E i \in DOMAIN har : har[i].no = n /\ har[i].ts > readTo

\* A record of a finished request speaks of one request: the status is the answer
\* to the URL it gives, which is the last of a chain of redirects, also when the
\* maps were full or emptied in between; a trace that looks its records up again
\* finds the same request.  Only a bus that missed an event can mix up two.
RecordsOneRequest ==
  /\ \A i \in DOMAIN reqDone :
       LET m == reqDone[i] IN m.id \notin deaf =>
         m.hop \in {0, page[m.id].hop} /\ m.status \in {0, m.hop}
  /\ \A m \in tracing : FullRecord(m).hop = m.hop
=============================================================================
