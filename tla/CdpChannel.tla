----------------------------- MODULE CdpChannel -----------------------------
(***************************************************************************)
(* CdpConnection (session_cdp.py): one WebSocket on which commands and     *)
(* their replies, told apart by id, and the browser's events travel        *)
(* together.  One thread uses the connection; a watchdog may break it at   *)
(* any moment.  An event that arrives while something else is awaited goes *)
(* to the sink and into a bounded queue, for later waits.                  *)
(***************************************************************************)
EXTENDS Naturals, Sequences, FiniteSets

CONSTANTS
  EventNames,    \* methods of events
  MaxCommands,   \* commands sent on the connection: a bound of the model
  MaxEvents,     \* events of the browser: a bound of the model
  MaxEventQueue, \* _max_event_queue, 2000 in the code
  MaxMessages    \* messages one drain_events reads at most, 50 in the code

ASSUME ChannelAssumption ==
  MaxEventQueue \in Nat \ {0} /\ {MaxCommands, MaxEvents, MaxMessages} \subseteq Nat

VARIABLES
  isOpen,      \* the socket is not closed or broken
  sent,        \* the last id used (_next_id - 1)
  unanswered,  \* commands the browser has still to answer
  emitted,     \* events the browser has emitted
  socket,      \* messages on their way to the connection, in order
  doing,       \* the method at work, and the id, name or number it works with
  eventQueue,  \* _event_queue
  sunk,        \* history: events given to the sink, in order
  taken,       \* history: events handed to a caller
  cut,         \* history: events dropped from the full queue
  answers      \* history: id asked for and id of the reply it got

channelVars == <<isOpen, sent, unanswered, emitted, socket, doing, eventQueue, sunk, taken,
                 cut, answers>>

Resting == [op |-> "none", arg |-> 0]
Do(o, a) == [op |-> o, arg |-> a]
Event(n, name) == [event |-> n, name |-> name]
Reply(id) == [event |-> 0, name |-> id]
IsEvent(m) == m.event > 0

ChannelInit ==
  /\ isOpen = TRUE /\ sent = 0 /\ unanswered = {} /\ emitted = 0 /\ socket = <<>>
  /\ doing = Resting /\ eventQueue = <<>> /\ sunk = <<>> /\ taken = {} /\ cut = {}
  /\ answers = {}

Free == doing = Resting

-----------------------------------------------------------------------------
\* The browser answers in any order and emits events at any time.
BrowserAnswers(id) ==
  /\ id \in unanswered /\ unanswered' = unanswered \ {id}
  /\ socket' = Append(socket, Reply(id))
  /\ UNCHANGED <<isOpen, sent, emitted, doing, eventQueue, sunk, taken, cut, answers>>

BrowserEmits(name) ==
  /\ emitted < MaxEvents /\ emitted' = emitted + 1
  /\ socket' = Append(socket, Event(emitted + 1, name))
  /\ UNCHANGED <<isOpen, sent, unanswered, doing, eventQueue, sunk, taken, cut, answers>>

-----------------------------------------------------------------------------
\* _push_event: to the sink, to the end of the queue, and the oldest leave it.
PushEvent(m) ==
  LET q == Append(eventQueue, m)
      over == IF Len(q) > MaxEventQueue THEN Len(q) - MaxEventQueue ELSE 0
  IN  /\ sunk' = Append(sunk, m.event)
      /\ eventQueue' = SubSeq(q, over + 1, Len(q))
      /\ cut' = cut \cup {q[i].event : i \in 1..over}

\* send: the command gets the next id.  A socket that does not take it is an error;
\* the command may have left all the same.
Send ==
  /\ Free /\ isOpen /\ sent < MaxCommands /\ sent' = sent + 1
  /\ \/ doing' = Do("send", sent + 1) /\ unanswered' = unanswered \cup {sent + 1}
     \/ doing' = Resting /\ unanswered' \in {unanswered, unanswered \cup {sent + 1}}
  /\ UNCHANGED <<isOpen, emitted, socket, eventQueue, sunk, taken, cut, answers>>

\* Mutant: the next reply is taken for it.
AnyReply(m, id) == TRUE

IsReplyTo(m, id) == m.name = id

\* _recv_until: events are kept, the reply with the id is returned, every other
\* reply is passed over.
RecvUntil ==
  /\ doing.op = "send" /\ isOpen /\ socket # <<>> /\ socket' = Tail(socket)
  /\ LET m == Head(socket)
     IN  IF IsEvent(m) THEN PushEvent(m) /\ UNCHANGED <<doing, answers>>
         ELSE /\ IF IsReplyTo(m, doing.arg)
                 THEN doing' = Resting /\ answers' = answers \cup {<<doing.arg, m.name>>}
                 ELSE UNCHANGED <<doing, answers>>
              /\ UNCHANGED <<eventQueue, sunk, cut>>
  /\ UNCHANGED <<isOpen, sent, unanswered, emitted, taken>>

\* pop_event: the oldest queued event of that name.
QueuedAs(name) == {i \in DOMAIN eventQueue : eventQueue[i].name = name}
\* Mutant: the event stays in the queue.
PeekEvent(name) ==
  /\ \E i \in QueuedAs(name) : taken' = taken \cup {eventQueue[i].event}
  /\ UNCHANGED eventQueue

PopEvent(name) ==
  LET i == CHOOSE i \in QueuedAs(name) : \A j \in QueuedAs(name) : i <= j
  IN  /\ QueuedAs(name) # {}
      /\ taken' = taken \cup {eventQueue[i].event}
      /\ eventQueue' = SubSeq(eventQueue, 1, i - 1)
                          \o SubSeq(eventQueue, i + 1, Len(eventQueue))

\* A caller looks for an event in the queue, and finds it.
TakeEvent(name) ==
  /\ Free /\ PopEvent(name)
  /\ UNCHANGED <<isOpen, sent, unanswered, emitted, socket, doing, sunk, cut, answers>>

\* wait_for_event: not in the queue, so it is awaited on the socket, where it is
\* given to the sink and returned; the others are kept, replies passed over.
WaitForEvent(name) ==
  /\ Free /\ isOpen /\ QueuedAs(name) = {} /\ doing' = Do("wait", name)
  /\ UNCHANGED <<isOpen, sent, unanswered, emitted, socket, eventQueue, sunk, taken, cut,
                 answers>>

WaitReads ==
  /\ doing.op = "wait" /\ isOpen /\ socket # <<>> /\ socket' = Tail(socket)
  /\ LET m == Head(socket)
     IN  IF ~IsEvent(m) THEN UNCHANGED <<doing, eventQueue, sunk, taken, cut>>
         ELSE IF m.name = doing.arg
         THEN /\ doing' = Resting /\ sunk' = Append(sunk, m.event)
              /\ taken' = taken \cup {m.event} /\ UNCHANGED <<eventQueue, cut>>
         ELSE PushEvent(m) /\ UNCHANGED <<doing, taken>>
  /\ UNCHANGED <<isOpen, sent, unanswered, emitted, answers>>

\* The time of a send or a wait is over.  Its reply may come later.
GivesUp ==
  /\ doing.op \in {"send", "wait"} /\ doing' = Resting
  /\ UNCHANGED <<isOpen, sent, unanswered, emitted, socket, eventQueue, sunk, taken, cut,
                 answers>>

\* drain_events: what has arrived is read without waiting, up to a number of
\* messages; a message that is no event has been read too, and ends it.
DrainEvents ==
  /\ Free /\ isOpen /\ doing' = Do("drain", MaxMessages)
  /\ UNCHANGED <<isOpen, sent, unanswered, emitted, socket, eventQueue, sunk, taken, cut,
                 answers>>

DrainReads ==
  /\ doing.op = "drain" /\ isOpen
  /\ IF doing.arg = 0 \/ socket = <<>>
     THEN doing' = Resting /\ UNCHANGED <<socket, eventQueue, sunk, cut>>
     ELSE /\ socket' = Tail(socket)
          /\ IF IsEvent(Head(socket))
             THEN PushEvent(Head(socket)) /\ doing' = Do("drain", doing.arg - 1)
             ELSE doing' = Resting /\ UNCHANGED <<eventQueue, sunk, cut>>
  /\ UNCHANGED <<isOpen, sent, unanswered, emitted, taken, answers>>

\* abort (a watchdog, close): the socket is shut down under whatever is at work,
\* which then fails.
Abort ==
  /\ isOpen /\ isOpen' = FALSE
  /\ UNCHANGED <<sent, unanswered, emitted, socket, doing, eventQueue, sunk, taken, cut,
                 answers>>

Broken ==
  /\ ~isOpen /\ ~Free /\ doing' = Resting
  /\ UNCHANGED <<isOpen, sent, unanswered, emitted, socket, eventQueue, sunk, taken, cut,
                 answers>>

ChannelNext ==
  \/ Send \/ RecvUntil \/ WaitReads \/ GivesUp \/ DrainEvents \/ DrainReads
  \/ Abort \/ Broken
  \/ \E id \in unanswered : BrowserAnswers(id)
  \/ \E name \in EventNames : BrowserEmits(name) \/ TakeEvent(name) \/ WaitForEvent(name)

ChannelSpec == ChannelInit /\ [][ChannelNext]_channelVars

-----------------------------------------------------------------------------
ChannelTypeOK ==
  /\ isOpen \in BOOLEAN /\ sent \in 0..MaxCommands /\ unanswered \subseteq 1..sent
  /\ emitted \in 0..MaxEvents
  /\ \A i \in DOMAIN socket : IsEvent(socket[i]) => socket[i].event \in 1..emitted
  /\ doing.op \in {"none", "send", "wait", "drain"}
  /\ Len(eventQueue) <= MaxEventQueue
  /\ taken \subseteq 1..emitted /\ cut \subseteq 1..emitted

\* A command gets the reply that carries its own id and no other: replies to
\* commands that timed out arrive late, and out of order, among those of the next
\* ones (_recv_until), and nothing else reads the reply that is awaited
\* (drain_events, wait_for_event read replies only when none is).
RepliesMatch ==
  /\ \A a \in answers : a[1] = a[2]
  /\ doing.op = "send" =>
       \/ doing.arg \in unanswered
       \/ \E i \in DOMAIN socket : ~IsEvent(socket[i]) /\ socket[i].name = doing.arg

Numbers(q) == {q[i].event : i \in DOMAIN q}
Places == <<Numbers(socket), Numbers(eventQueue), taken, cut>>

\* "We must not drop events while waiting for command responses": whatever read it,
\* an event goes to the sink once and in the order the browser emitted it, and is
\* then kept in the queue, handed to one caller, or the oldest of a full queue
\* (_push_event, pop_event, wait_for_event, drain_events).
EventsOnce ==
  /\ sunk = [i \in 1..Len(sunk) |-> i]
  /\ \A n \in 1..emitted :
       \E p \in 1..4 : n \in Places[p] /\ \A o \in 1..4 \ {p} : n \notin Places[o]
  /\ \A i, j \in DOMAIN eventQueue : i < j => eventQueue[i].event < eventQueue[j].event
  /\ \A n \in cut : \A i \in DOMAIN eventQueue : n < eventQueue[i].event

\* The one socket serves both: no reader of replies loses an event, and no reader of
\* events loses or steals the reply that a command awaits.
ChannelDelivers == RepliesMatch /\ EventsOnce
=============================================================================
