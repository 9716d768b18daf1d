------------------------------ MODULE Dialogs ------------------------------
(***************************************************************************)
(* JavaScript dialogs and the flag that tells whether one is open          *)
(* (telemetry.py, session_manager.py, tools/dialog.py, browser_session.py, *)
(* the dialog guards of flow/handler.py), for the tab of one run.          *)
(*                                                                         *)
(* The page's dialogs are events, numbered in the order they happen: an    *)
(* odd one opens a dialog, the next closes it.  The event bus (its own     *)
(* connection and thread) and the run's connection each read all of them   *)
(* and write the flag; so do the run, when it takes events out of its      *)
(* connection's queue, the workers that close dialogs out of band, and the *)
(* dialog tool.  While the flag is set no script is evaluated.             *)
(***************************************************************************)
EXTENDS Naturals, Sequences, FiniteSets

CONSTANTS MaxDialogs,   \* dialogs of the page
          MaxWorkers    \* workers under way at once: a bound of the model

ASSUME DialogAssumption == MaxDialogs \in Nat \ {0} /\ MaxWorkers \in Nat

VARIABLES
  happened,    \* dialog events so far
  flag,        \* Tier0Telemetry.dialog_open
  busSeen,     \* events the bus has read
  connSeen,    \* events the run's connection has read
  backlog,     \* those of them still in its queue
  autoDialog,  \* the run's auto_dialog is accept or dismiss
  armed,       \* the tab's auto-dialog record is set and not expired
  throttled,   \* a worker was started less than 500 ms ago
  handlers,    \* workers that have not handled a dialog yet
  noters,      \* workers that have, and have not noted it
  at,          \* what the run is at
  expected,    \* the flag as the dialog tool has read it
  lost         \* history: the bus has missed events since the last dialog call

dialogVars == <<happened, flag, busSeen, connSeen, backlog, autoDialog, armed, throttled,
                handlers, noters, at, expected, lost>>

Steps == {"between",                     \* between two steps, and between calls
          "draining", "drained",         \* _drain_and_ingest_dialog_events, half way
          "deciding", "evaluating", "failed",
          "closing", "closeDraining", "closeDrained", "closed",
          "tool", "toolHandled"}

IsOpening(n) == n % 2 = 1
DialogOpen == IsOpening(happened)

DialogInit ==
  /\ happened = 0 /\ flag = FALSE /\ busSeen = 0 /\ connSeen = 0 /\ backlog = <<>>
  /\ autoDialog \in BOOLEAN /\ armed = autoDialog /\ throttled = FALSE
  /\ handlers = 0 /\ noters = 0 /\ at = "between" /\ expected = FALSE /\ lost = FALSE

\* A dialog opens, or the user closes it.
PageDialog ==
  /\ happened < 2 * MaxDialogs /\ happened' = happened + 1
  /\ UNCHANGED <<flag, busSeen, connSeen, backlog, autoDialog, armed, throttled, handlers,
                 noters, at, expected, lost>>

-----------------------------------------------------------------------------
\* Writing the flag

\* _schedule_auto_dialog_handle: a worker, unless one was started just before.
Schedule ==
  IF throttled \/ handlers + noters >= MaxWorkers THEN UNCHANGED <<throttled, handlers>>
  ELSE throttled' = TRUE /\ handlers' = handlers + 1

\* Tier0Telemetry.ingest.
SetFlag(n) == flag' = IsOpening(n)

\* _ingest_tier0_event
Ingest(n) ==
  /\ SetFlag(n)
  /\ IF IsOpening(n) /\ armed THEN Schedule ELSE UNCHANGED <<throttled, handlers>>

\* The bus reads the next event.
BusReads ==
  /\ busSeen < happened /\ busSeen' = busSeen + 1 /\ Ingest(busSeen + 1)
  /\ UNCHANGED <<happened, connSeen, backlog, autoDialog, armed, noters, at, expected, lost>>

\* The bus connects again: what happened meanwhile, and while its domains are
\* being enabled, it does not see.
BusReconnects ==
  /\ busSeen < happened /\ busSeen' = happened /\ lost' = TRUE
  /\ UNCHANGED <<happened, flag, connSeen, backlog, autoDialog, armed, throttled, handlers,
                 noters, at, expected>>

\* The run's connection reads the next event, which goes to the dialog-only sink
\* (ensure_telemetry) and into its queue; it does so while it waits for an answer
\* and in drain_events.
Receiving == at \in {"draining", "evaluating", "failed", "closeDraining", "closing", "tool", "toolHandled"}
ConnReads ==
  /\ Receiving /\ connSeen < happened
  /\ connSeen' = connSeen + 1 /\ backlog' = Append(backlog, connSeen + 1)
  /\ Ingest(connSeen + 1)
  /\ UNCHANGED <<happened, busSeen, autoDialog, armed, noters, at, expected, lost>>

\* pop_event: the oldest queued event of a kind leaves the queue.
Queued(opening) == {i \in DOMAIN backlog : IsOpening(backlog[i]) = opening}
Oldest(opening) == CHOOSE i \in Queued(opening) : \A j \in Queued(opening) : i <= j
Pop(opening) ==
  LET i == Oldest(opening)
  IN  backlog' = SubSeq(backlog, 1, i - 1) \o SubSeq(backlog, i + 1, Len(backlog))

\* Mutant: only an opening is ingested.
PopAndIngestOpening(opening) ==
  IF Queued(opening) = {} THEN UNCHANGED <<backlog, flag, throttled, handlers>>
  ELSE /\ Pop(opening)
       /\ IF opening THEN Ingest(backlog[Oldest(opening)])
                     ELSE UNCHANGED <<flag, throttled, handlers>>

\* and is ingested, again.
PopAndIngest(opening) ==
  IF Queued(opening) = {} THEN UNCHANGED <<backlog, flag, throttled, handlers>>
  ELSE Pop(opening) /\ Ingest(backlog[Oldest(opening)])

\* note_dialog_closed
NoteClosed == flag' = FALSE

-----------------------------------------------------------------------------
\* Workers

Throttle ==
  /\ throttled /\ throttled' = FALSE
  /\ UNCHANGED <<happened, flag, busSeen, connSeen, backlog, autoDialog, armed, handlers,
                 noters, at, expected, lost>>

\* get_auto_dialog_mode drops an expired record.
Expire ==
  /\ armed /\ armed' = FALSE
  /\ UNCHANGED <<happened, flag, busSeen, connSeen, backlog, autoDialog, throttled, handlers,
                 noters, at, expected, lost>>

\* The page closes its dialog on Page.handleJavaScriptDialog, or says there is none.
Handle == DialogOpen /\ happened' = happened + 1

WorkerHandles ==
  /\ handlers > 0 /\ handlers' = handlers - 1
  /\ \/ Handle /\ noters' = noters + 1
     \/ UNCHANGED <<happened, noters>>      \* no dialog, no connection, no answer
  /\ UNCHANGED <<flag, busSeen, connSeen, backlog, autoDialog, armed, throttled, at,
                 expected, lost>>

WorkerNotes ==
  /\ noters > 0 /\ noters' = noters - 1 /\ NoteClosed
  /\ UNCHANGED <<happened, busSeen, connSeen, backlog, autoDialog, armed, throttled,
                 handlers, at, expected, lost>>

-----------------------------------------------------------------------------
\* The run

Goto(s) == at' = s

\* Before a step, after it and at the end of the run the dialog events are
\* ingested: those on the socket (ConnReads), then the oldest opening of the
\* queue, then its oldest closing.
DrainBegins ==
  /\ at \in {"between", "closing"}
  /\ Goto(IF at = "between" THEN "draining" ELSE "closeDraining")
  /\ UNCHANGED <<happened, flag, busSeen, connSeen, backlog, autoDialog, armed, throttled,
                 handlers, noters, expected, lost>>

DrainOpening ==
  /\ at \in {"draining", "closeDraining"} /\ PopAndIngest(TRUE)
  /\ Goto(IF at = "draining" THEN "drained" ELSE "closeDrained")
  /\ UNCHANGED <<happened, busSeen, connSeen, autoDialog, armed, noters, expected, lost>>

DrainClosed ==
  /\ at \in {"drained", "closeDrained"} /\ PopAndIngest(FALSE)
  /\ Goto(IF at = "drained" THEN "deciding" ELSE "closed")
  /\ UNCHANGED <<happened, busSeen, connSeen, autoDialog, armed, noters, expected, lost>>

\* The guard of a step: with the flag set the dialog is closed first, after a
\* worker has been started for it, or the step is refused.
Decide ==
  /\ at = "deciding"
  /\ IF ~flag THEN Goto("evaluating") /\ UNCHANGED <<throttled, handlers>>
     ELSE IF autoDialog THEN Goto("closing") /\ Schedule
     ELSE Goto("between") /\ UNCHANGED <<throttled, handlers>>
  /\ UNCHANGED <<happened, flag, busSeen, connSeen, backlog, autoDialog, armed, noters,
                 expected, lost>>

\* eval_js fails at once when the flag is set; the page answers while no dialog
\* blocks it; or the answer is not awaited any longer.
EvalEnds ==
  /\ at = "evaluating" /\ Goto(IF flag /\ autoDialog THEN "failed" ELSE "between")
  /\ flag \/ ~DialogOpen
  /\ UNCHANGED <<happened, flag, busSeen, connSeen, backlog, autoDialog, armed, throttled,
                 handlers, noters, expected, lost>>

\* Then an opening in the queue is taken for the dialog that blocks it, and sets
\* the flag past ingest.
EvalTimesOut ==
  /\ at = "evaluating"
  /\ IF Queued(TRUE) = {} THEN UNCHANGED <<backlog, flag>>
                          ELSE Pop(TRUE) /\ flag' = TRUE
  /\ Goto(IF autoDialog THEN "failed" ELSE "between")
  /\ UNCHANGED <<happened, busSeen, connSeen, autoDialog, armed, throttled, handlers, noters,
                 expected, lost>>

\* A failed step: the oldest opening is ingested; if a dialog is in the way it is
\* closed and the step tried once more.
RetryAfterDialog ==
  /\ at = "failed" /\ PopAndIngest(TRUE)
  /\ Goto(IF flag \/ flag' THEN "closing" ELSE "between")
  /\ UNCHANGED <<happened, busSeen, connSeen, autoDialog, armed, noters, expected, lost>>

\* _close_dialog_best_effort: drain, handle on the run's own connection; "no
\* dialog" counts as handled.  A failed attempt that finds the flag cleared by a
\* worker is done, and gives up after its time.
CloseDialog ==
  /\ at = "closed"
  /\ \/ /\ Handle \/ (~DialogOpen /\ UNCHANGED happened)
        /\ NoteClosed /\ Goto("draining")
     \/ UNCHANGED <<happened, flag>> /\ at' \in IF flag THEN {"closing", "between"} ELSE {"between"}
  /\ UNCHANGED <<busSeen, connSeen, backlog, autoDialog, armed, throttled, handlers, noters,
                 expected, lost>>

-----------------------------------------------------------------------------
\* The dialog tool, within the run or on its own.

DialogTool ==
  /\ at = "between" /\ Goto("tool") /\ expected' = flag /\ lost' = FALSE
  /\ UNCHANGED <<happened, flag, busSeen, connSeen, backlog, autoDialog, armed, throttled,
                 handlers, noters>>

\* Page.handleJavaScriptDialog, for as long as the call may wait: handled; no
\* dialog although the flag was set, which clears it; or nothing to handle.
ToolHandles ==
  /\ at = "tool"
  /\ \/ Handle /\ Goto("toolHandled")
     \/ ~DialogOpen /\ UNCHANGED happened /\ Goto(IF expected THEN "toolHandled" ELSE "between")
  /\ UNCHANGED <<flag, busSeen, connSeen, backlog, autoDialog, armed, throttled, handlers,
                 noters, expected, lost>>

\* The dialog is noted closed, and the tab found healthy.
ToolNotes ==
  /\ at = "toolHandled" /\ NoteClosed /\ Goto("between")
  /\ UNCHANGED <<happened, busSeen, connSeen, backlog, autoDialog, armed, throttled, handlers,
                 noters, expected, lost>>

\* Or it is not, and is replaced by a new one: the flag, the bus and the records go
\* with recover_reset, and the run's connection with them.
ToolRecovers ==
  /\ at = "toolHandled" /\ Goto("between") /\ lost' = FALSE
  /\ happened' = 0 /\ flag' = FALSE /\ busSeen' = 0 /\ connSeen' = 0 /\ backlog' = <<>>
  /\ armed' = FALSE /\ throttled' = FALSE /\ handlers' = 0 /\ noters' = 0
  /\ UNCHANGED <<autoDialog, expected>>

DialogNext ==
  \/ PageDialog \/ BusReads \/ BusReconnects \/ ConnReads
  \/ Throttle \/ Expire \/ WorkerHandles \/ WorkerNotes
  \/ DrainBegins \/ DrainOpening \/ DrainClosed \/ Decide
  \/ EvalEnds \/ EvalTimesOut \/ RetryAfterDialog \/ CloseDialog
  \/ DialogTool \/ ToolHandles \/ ToolNotes \/ ToolRecovers

DialogSpec == DialogInit /\ [][DialogNext]_dialogVars

-----------------------------------------------------------------------------
DialogTypeOK ==
  /\ happened \in 0..2 * MaxDialogs /\ flag \in BOOLEAN
  /\ busSeen \in 0..happened /\ connSeen \in 0..happened
  /\ backlog \in Seq(1..connSeen)
  /\ autoDialog \in BOOLEAN /\ armed \in BOOLEAN /\ throttled \in BOOLEAN
  /\ handlers \in 0..MaxWorkers /\ noters \in 0..MaxWorkers /\ at \in Steps /\ expected \in BOOLEAN
  /\ lost \in BOOLEAN

\* Everything has been read, and nothing is on its way to the flag.
Settled ==
  /\ busSeen = happened /\ connSeen = happened /\ backlog = <<>>
  /\ noters = 0 /\ at \notin {"tool", "toolHandled"}

\* A flag that stays set blocks every evaluation.  Once everything is read it
\* stays only if a dialog is open, unless the bus has missed events since the dialog
\* tool was last called: neither late readers, events ingested twice nor
\* the guess of a timed out evaluation leave a false alarm behind
\* (ensure_telemetry, _drain_and_ingest_dialog_events, eval_js, handle_dialog).
NoLastingAlarm == Settled /\ ~lost /\ flag => DialogOpen

\* "Draining the event queue keeps Tier-0 in sync so we can fail-fast or
\* auto-handle deterministically" (flow/handler.py:609): when a drain has read
\* everything and no closing is noted late, an open dialog is flagged.  A closing
\* queued before a newer opening is ingested after it.
DrainKeepsInSync ==
  at = "deciding" /\ Settled /\ DialogOpen => flag
=============================================================================
