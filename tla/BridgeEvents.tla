---------------------------- MODULE BridgeEvents ----------------------------
(***************************************************************************)
(* The browser events of one tab on their way from the extension over the  *)
(* native host to the processes that use the tab, and into the queues from *)
(* which their tools take them (service_worker.js, native_broker.py,       *)
(* extension_gateway_native_peer.py).  NativeBridge has the calls.         *)
(*                                                                         *)
(* A process is told of a tab that it has named in a call, over the        *)
(* connection that the call came by.                                       *)
(***************************************************************************)
EXTENDS Naturals, Sequences, FiniteSets

CONSTANTS
  EventPeers,      \* server processes
  EventKinds,      \* names of events
  MaxTabQueue,     \* _max_events_per_tab: 2500
  MaxEmitted, MaxPeerDials, MaxHostEnds   \* bounds

ASSUME BridgeEventsAssumption ==
  {MaxTabQueue, MaxEmitted, MaxPeerDials, MaxHostEnds} \subseteq Nat

VARIABLES
  kinds,       \* kinds[n]: the name of the n-th event that the worker has sent
  hostPipe,    \* events on their way to the host
  sending,     \* the event that is broadcast, and the records still to be looked at
  hostEnds,    \* hosts that have ended
  dials,       \* the number of a process's connection
  hostLink,    \* "down", "up", or "closing": the host has closed it
  records,     \* _peers: the connection whose record the host has, 0 if none
  subscribers, \* records that have the tab in their tabs
  ending,      \* connections given up whose end the host has still to see
  arriving,    \* events on their way to each process
  tabQueue,    \* _event_queues of the tab
  \* history
  firstDue,    \* the first event after the subscription of the present connection
  ingested,    \* the events that each process has got, in order
  takenOut     \* those that its tools have got, in order

toHost == <<kinds, hostPipe, hostEnds>>
links == <<dials, hostLink, records, subscribers, ending>>
atPeers == <<arriving, tabQueue, ingested, takenOut>>
bridgeEventVars == <<toHost, sending, links, atPeers, firstDue>>

NoBroadcast == [event |-> 0, to |-> {}]
RecordOf(p) == <<p, dials[p]>>
Live(r) == hostLink[r[1]] = "up" /\ r = RecordOf(r[1])

EventInit ==
  /\ kinds = << >> /\ hostPipe = << >> /\ sending = NoBroadcast /\ hostEnds = 0
  /\ dials = [p \in EventPeers |-> 0] /\ hostLink = [p \in EventPeers |-> "down"]
  /\ subscribers = {} /\ ending = {} /\ records = [p \in EventPeers |-> 0]
  /\ arriving = [p \in EventPeers |-> << >>] /\ tabQueue = [p \in EventPeers |-> << >>]
  /\ firstDue = [p \in EventPeers |-> 1]
  /\ ingested = [p \in EventPeers |-> << >>] /\ takenOut = [p \in EventPeers |-> << >>]

-----------------------------------------------------------------------------
(* The worker and the host                                                 *)

\* An event of the allowlist, with the switch on and the port open.
ForwardEvent(k) ==
  /\ Len(kinds) < MaxEmitted /\ kinds' = Append(kinds, k)
  /\ hostPipe' = Append(hostPipe, Len(kinds'))
  /\ UNCHANGED <<hostEnds, sending, links, atPeers, firstDue>>

\* _broadcast_cdp_event looks at the records there are when it begins.
BroadcastBegins ==
  /\ sending = NoBroadcast /\ hostPipe # << >> /\ hostPipe' = Tail(hostPipe)
  /\ sending' = [event |-> Head(hostPipe),
                 to |-> {<<p, records[p]>> : p \in {q \in EventPeers : records[q] # 0}}]
  /\ UNCHANGED <<kinds, hostEnds, links, atPeers, firstDue>>

\* Mutant: a failed write ends the broadcast.
StopsOnError(r) ==
  IF r \in subscribers /\ ~Live(r) THEN {} ELSE sending.to \ {r}

\* A failed write drops the event for that process only.
GoesOn(r) == sending.to \ {r}

BroadcastTo(r) ==
  /\ r \in sending.to
  /\ sending' = IF GoesOn(r) = {} THEN NoBroadcast ELSE [sending EXCEPT !.to = GoesOn(r)]
  /\ arriving' = IF r \in subscribers /\ Live(r)
             THEN [arriving EXCEPT ![r[1]] = Append(@, sending.event)] ELSE arriving
  /\ UNCHANGED <<toHost, links, tabQueue, ingested, takenOut, firstDue>>

BroadcastToNobody ==
  /\ sending.event # 0 /\ sending.to = {} /\ sending' = NoBroadcast
  /\ UNCHANGED <<toHost, links, atPeers, firstDue>>

\* The host reads a call about the tab.  What it broadcasts from now on reaches the process.
NextFor(r) ==
  IF r \in sending.to THEN sending.event
  ELSE IF hostPipe # << >> THEN Head(hostPipe) ELSE Len(kinds) + 1

SubscribeIfTab(p) ==
  /\ hostLink[p] = "up"
  /\ subscribers' = subscribers \cup {RecordOf(p)}
  /\ firstDue' = IF RecordOf(p) \in subscribers THEN firstDue
              ELSE [firstDue EXCEPT ![p] = NextFor(RecordOf(p))]
  /\ UNCHANGED <<toHost, sending, dials, hostLink, records, ending, atPeers>>

\* The task of a connection ends, and with it the record of its process, be it of a
\* later connection.
HostSeesEnd(r) ==
  /\ r \in ending /\ ending' = ending \ {r} /\ records' = [records EXCEPT ![r[1]] = 0]
  /\ UNCHANGED <<toHost, sending, dials, hostLink, subscribers, atPeers, firstDue>>

\* The host ends, and the extension starts another.
HostEnds ==
  /\ hostEnds < MaxHostEnds /\ hostEnds' = hostEnds + 1
  /\ hostPipe' = << >> /\ sending' = NoBroadcast /\ subscribers' = {}
  /\ ending' = {} /\ records' = [p \in EventPeers |-> 0]
  /\ hostLink' = [p \in EventPeers |-> IF hostLink[p] = "up" THEN "closing" ELSE hostLink[p]]
  /\ UNCHANGED <<kinds, dials, atPeers, firstDue>>

-----------------------------------------------------------------------------
(* A process                                                               *)

DialHost(p) ==
  /\ hostLink[p] = "down" /\ dials[p] < MaxPeerDials
  /\ dials' = [dials EXCEPT ![p] = @ + 1] /\ hostLink' = [hostLink EXCEPT ![p] = "up"]
  /\ records' = [records EXCEPT ![p] = dials'[p]]
  /\ UNCHANGED <<toHost, sending, subscribers, ending, atPeers, firstDue>>

\* The end of the stream, after what the host had written.
EndOfStream(p) ==
  /\ hostLink[p] = "closing" /\ arriving[p] = << >>
  /\ hostLink' = [hostLink EXCEPT ![p] = "down"]
  /\ UNCHANGED <<toHost, sending, dials, records, subscribers, ending, atPeers, firstDue>>

\* The process gives up a connection: a frame too long, or broken.
GiveUpLink(p) ==
  /\ hostLink[p] # "down" /\ hostLink' = [hostLink EXCEPT ![p] = "down"]
  /\ arriving' = [arriving EXCEPT ![p] = << >>]
  /\ ending' = IF hostLink[p] = "up" THEN ending \cup {RecordOf(p)} ELSE ending
  /\ UNCHANGED <<toHost, sending, dials, records, subscribers, tabQueue, ingested,
                 takenOut, firstDue>>

\* Mutant: the queue has no limit.
QueueUncut(q) == q

NewestEvents(q) == IF Len(q) > MaxTabQueue THEN SubSeq(q, Len(q) - MaxTabQueue + 1, Len(q)) ELSE q

\* _on_message: queued, and handed to the telemetry.
TakeIn(p) ==
  /\ arriving[p] # << >> /\ arriving' = [arriving EXCEPT ![p] = Tail(@)]
  /\ tabQueue' = [tabQueue EXCEPT ![p] = NewestEvents(Append(@, Head(arriving[p])))]
  /\ ingested' = [ingested EXCEPT ![p] = Append(@, Head(arriving[p]))]
  /\ UNCHANGED <<toHost, sending, links, takenOut, firstDue>>

OfKind(p, k) == {i \in DOMAIN tabQueue[p] : kinds[tabQueue[p][i]] = k}

\* pop_event takes the oldest of a name.  wait_for_event asks for it again at each
\* notification, each quarter of a second and at its deadline.
PopOfKind(p, k) ==
  \E i \in OfKind(p, k) :
    /\ \A j \in OfKind(p, k) : i <= j
    /\ tabQueue' = [tabQueue EXCEPT
                      ![p] = SubSeq(@, 1, i - 1) \o SubSeq(@, i + 1, Len(@))]
    /\ takenOut' = [takenOut EXCEPT ![p] = Append(@, tabQueue[p][i])]
    /\ UNCHANGED <<toHost, sending, links, arriving, ingested, firstDue>>

EventNext ==
  \/ \E k \in EventKinds : ForwardEvent(k)
  \/ BroadcastBegins \/ BroadcastToNobody \/ HostEnds
  \/ \E r \in sending.to : BroadcastTo(r)
  \/ \E r \in ending : HostSeesEnd(r)
  \/ \E p \in EventPeers :
       \/ SubscribeIfTab(p) \/ DialHost(p) \/ EndOfStream(p) \/ GiveUpLink(p)
       \/ TakeIn(p)
       \/ \E k \in EventKinds : PopOfKind(p, k)

EventSpec == EventInit /\ [][EventNext]_bridgeEventVars

-----------------------------------------------------------------------------
EventTypeOK ==
  /\ Len(kinds) <= MaxEmitted /\ sending.event \in 0..Len(kinds)
  /\ hostLink \in [EventPeers -> {"down", "up", "closing"}]
  /\ dials \in [EventPeers -> 0..MaxPeerDials] /\ hostEnds \in 0..MaxHostEnds
  /\ {sending.to, subscribers, ending} \subseteq SUBSET (EventPeers \X (1..MaxPeerDials))
  /\ records \in [EventPeers -> 0..MaxPeerDials]
  /\ \A p \in EventPeers : Len(tabQueue[p]) <= MaxTabQueue

Members(q) == {q[i] : i \in DOMAIN q}
Rising(q) == \A i, j \in DOMAIN q : i < j => q[i] < q[j]
OnTheWay(p) ==
  Members(arriving[p]) \cup Members(hostPipe)
    \cup IF RecordOf(p) \in sending.to THEN {sending.event} ELSE {}

\* A process whose call about the tab has reached the host gets each event of the tab from
\* then on, as long as that connection lasts and the host keeps its record (the end of an
\* earlier one, seen late, takes it away), whatever other processes do or lose; it gets it
\* once and in order; and of those of one name, a tool gets each once and the oldest
\* first, unless newer ones have pushed it out of the queue (_broadcast_cdp_event,
\* _on_message, pop_event).
EventsReachSubscribers ==
  \A p \in EventPeers :
    /\ Live(RecordOf(p)) /\ records[p] = dials[p] /\ RecordOf(p) \in subscribers =>
         firstDue[p]..Len(kinds) \subseteq Members(ingested[p]) \cup OnTheWay(p)
    /\ Rising(ingested[p]) /\ Rising(tabQueue[p])
    /\ \A i, j \in DOMAIN takenOut[p] :
         i < j /\ kinds[takenOut[p][i]] = kinds[takenOut[p][j]]
           => takenOut[p][i] < takenOut[p][j]
    /\ Members(tabQueue[p]) \cap Members(takenOut[p]) = {}
=============================================================================
