-------------------------------- MODULE Flow --------------------------------
(***************************************************************************)
(* run() and flow(): a list of actions carried out one after the other on  *)
(* a browser tab (server/run/handler.py, server/flow/handler.py,           *)
(* server/flow/internal_actions.py).                                       *)
(*                                                                         *)
(* The list is changed while it is worked on: when, repeat and macro put   *)
(* steps behind the cursor, into the very list run() was called with.  A   *)
(* step may be tried twice, its watchdog may break the connection under    *)
(* it, dialogs open whenever the page likes, and after a recovery run()    *)
(* calls flow() again from the next index.  flow() called directly is the  *)
(* case of an empty recovery budget.                                       *)
(*                                                                         *)
(* Arguments, payloads and reports are left out.  What a step needs from   *)
(* the run so far (variables, memory keys, affordances, see lookup) is     *)
(* there or not; a tool has its effect on the page, or not, before it      *)
(* returns.                                                                *)
(***************************************************************************)
EXTENDS Naturals, Sequences, FiniteSets

CONSTANTS
  Steps,           \* step objects
  Keys,            \* memory keys of runbooks
  NoKey,           \* none of them
  Step,            \* step -> its fields, see StepFields
  Runbook,         \* key -> the steps stored under it
  Programs,        \* lists run() is called with
  Options,         \* option records run() is called with
  MaxTotalSteps,   \* max_total_steps (2000)
  MaxBranch,       \* steps of a branch (50), of a loop body (25)
  MaxIters,        \* max_iters (50)
  MaxIncludes,     \* nesting of include_memory_steps (10)
  MaxDialogs       \* bound: dialogs the page opens

Tool == {"click", "js", "other", "dialog", "assert", "when", "repeat", "macro", "flow"}
Internal == {"assert", "when", "repeat", "macro"}

StepFields ==
  [tool : Tool, optional : BOOLEAN, irreversible : BOOLEAN,
   lookup : BOOLEAN,                    \* has placeholders, or is an act(ref)
   download : {"no", "auto", "required"},
   yes : Seq(Steps), no : Seq(Steps),   \* then and else; the body of a repeat
   until : BOOLEAN, iters : Nat,        \* of a repeat
   key : Keys \cup {NoKey}]             \* of include_memory_steps

Option ==
  [stop : BOOLEAN, auto : {"off", "dismiss", "accept"}, recover : BOOLEAN,
   confirm : BOOLEAN, record : {"no", "success", "always"}, budget : 0..5]

ASSUME StepsAssumption ==
  /\ Step \in [Steps -> StepFields] /\ Runbook \in [Keys -> Seq(Steps)]
  /\ NoKey \notin Keys
\* run() refuses an empty list.
ASSUME RunAssumption == Programs \subseteq Seq(Steps) \ {<<>>} /\ Options \subseteq Option
ASSUME LimitsAssumption ==
  {MaxTotalSteps, MaxBranch, MaxIters, MaxIncludes, MaxDialogs} \subseteq Nat

VARIABLES
  program, opts,   \* what run() was called with
  list,            \* actions_raw: run()'s list and flow()'s, one object
  cursor,          \* index of the step being carried out (i + 1)
  first,           \* where this call of flow() began (start_at + 1)
  phase,           \* where the loop is
  attempt,         \* attempts at the current step
  result,          \* tool_result of the attempt
  struck,          \* the attempt has had its effect on the page
  dog,             \* the attempt's watchdog
  stray,           \* a watchdog stopped too late is still about to abort
  conn,            \* the shared CDP connection
  dialog,          \* a JS dialog is open in the tab
  dialogs,         \* dialogs opened so far
  firstError,      \* first_error is set
  executed,        \* length of step_summaries
  messageBound,    \* the local variable message has been assigned
  includes,        \* include_stack; as a set, no key is in it twice
  recoveries,      \* recoveries made
  outcome,         \* what run() returned
  recorded,        \* the list stored under record_memory_key
  \* history
  sent, again,     \* indices dispatched, and dispatched more than once
  hit, hitAgain,   \* indices that had their effect, and had it more than once
  failedTools,     \* indices of tool steps whose failure was no option
  failedChecks     \* indices of other steps that failed and were no option

callVars == <<attempt, result, struck, dog>>
pageVars == <<conn, dialog, dialogs, stray>>
tallyVars == <<firstError, executed, messageBound>>
runVars == <<program, opts, recoveries, outcome, recorded>>
history == <<sent, again, hit, hitAgain, failedTools, failedChecks>>
flowVars == <<program, opts, list, cursor, first, phase, callVars, pageVars, tallyVars,
              includes, recoveries, outcome, recorded, history>>

-----------------------------------------------------------------------------
(* The list.                                                               *)

Entry == [step : Steps, iter : Nat, ends : Keys \cup {NoKey}]

Plain(s) == [step |-> s, iter |-> 0, ends |-> NoKey]

\* Mutant: the new steps are put in front of the step that made them.
InsertedInFront(new) ==
  [k \in 1..(Len(list) + Len(new)) |->
     IF k < cursor THEN list[k]
     ELSE IF k < cursor + Len(new) THEN new[k - cursor + 1] ELSE list[k - Len(new)]]

\* steps_raw[i+1:i+1] = new
Inserted(new) ==
  [k \in 1..(Len(list) + Len(new)) |->
     IF k <= cursor THEN list[k]
     ELSE IF k <= cursor + Len(new) THEN new[k - cursor] ELSE list[k - Len(new)]]

Entries(steps) == [k \in 1..Len(steps) |-> Plain(steps[k])]

Here == Step[list[cursor].step]
AtStep == phase = "top" /\ cursor <= Len(list) /\ Len(list) <= MaxTotalSteps
AtMarker == AtStep /\ list[cursor].ends # NoKey
AtTool(ts) == AtStep /\ list[cursor].ends = NoKey /\ Here.tool \in ts

Planned == {k \in first..Len(list) : list[k].ends = NoKey}

-----------------------------------------------------------------------------
(* Ends of a step.                                                         *)

Goto(p) == phase' = p /\ UNCHANGED cursor
NextStep == cursor' = cursor + 1 /\ phase' = "top"

Keep == UNCHANGED <<list, callVars, pageVars, includes, messageBound>>

\* An entry that says ok; the entry of an optional step that failed.
Note ==
  /\ executed' = executed + 1 /\ NextStep
  /\ UNCHANGED <<firstError, failedTools, failedChecks, sent, again, hit, hitAgain>>

\* Mutant: stop_on_error is not looked at.
FailGoesOn ==
  /\ executed' = executed + 1 /\ firstError' = TRUE
  /\ failedChecks' = failedChecks \cup {cursor} /\ NextStep
  /\ UNCHANGED <<failedTools, sent, again, hit, hitAgain>>

\* A failure that is no option sets first_error and, with stop_on_error, ends
\* the loop. Errors met before a step is dispatched do not ask whether it is
\* optional.
Fail ==
  /\ executed' = executed + 1 /\ firstError' = TRUE
  /\ failedChecks' = failedChecks \cup {cursor}
  /\ IF opts.stop THEN Goto("report") ELSE NextStep
  /\ UNCHANGED <<failedTools, sent, again, hit, hitAgain>>

\* _fail of the internal actions
FailUnlessOptional == IF Here.optional THEN Note ELSE Fail

-----------------------------------------------------------------------------
(* Entering and leaving.                                                   *)

FlowInit ==
  /\ program \in Programs /\ opts \in Options
  /\ list = Entries(program) /\ cursor = 1 /\ first = 1 /\ phase = "idle"
  /\ attempt = 0 /\ result = "none" /\ struck = FALSE /\ dog = "off" /\ stray = FALSE
  /\ conn = "open" /\ dialog \in BOOLEAN /\ dialogs = 0
  /\ firstError = FALSE /\ executed = 0 /\ messageBound = FALSE
  /\ includes = {} /\ recoveries = 0 /\ outcome = "none" /\ recorded = <<>>
  /\ sent = {} /\ again = {} /\ hit = {} /\ hitAgain = {}
  /\ failedTools = {} /\ failedChecks = {}

\* The guard of irreversible actions: it looks at the list it was given.
Blocked == ~opts.confirm /\ \E k \in DOMAIN program : Step[program[k]].irreversible

Refuse ==
  /\ phase = "idle" /\ Blocked
  /\ outcome' = "refused" /\ Goto("over")
  /\ UNCHANGED <<program, opts, recoveries, recorded, list, first, callVars, pageVars,
                 tallyVars, includes, history>>

Start ==
  /\ phase = "idle" /\ ~Blocked
  /\ \E at \in 1..Len(list) : first' = at /\ cursor' = at
  /\ phase' = "top"
  /\ UNCHANGED <<runVars, list, callVars, pageVars, tallyVars, includes, history>>

\* An exception that handle_flow does not catch.
Raise ==
  /\ outcome' = "raised" /\ Goto("over")
  /\ UNCHANGED <<program, opts, recoveries, recorded, list, first, pageVars, tallyVars,
                 includes, history>>

\* Mutant: a run without an error is complete.
CompletedUncounted == ~firstError

\* What is recorded is run()'s list, which is flow()'s too.
Completed == executed = Cardinality(Planned) /\ ~firstError

Record == IF opts.record = "always" \/ (opts.record = "success" /\ Completed) THEN list ELSE <<>>

-----------------------------------------------------------------------------
(* What happens before a step is dispatched.                               *)

TooManySteps ==
  /\ phase = "top" /\ cursor <= Len(list) /\ Len(list) > MaxTotalSteps
  /\ executed' = executed + 1 /\ firstError' = TRUE /\ Goto("report")
  /\ failedChecks' = failedChecks \cup {cursor}
  /\ UNCHANGED <<runVars, list, first, callVars, pageVars, messageBound, includes, failedTools,
                 sent, again, hit, hitAgain>>

\* __macro_end: the include it closes is taken off the stack.
EndInclude ==
  /\ AtMarker
  /\ includes' = includes \ {list[cursor].ends}
  /\ NextStep
  /\ UNCHANGED <<runVars, list, first, callVars, pageVars, tallyVars, history>>

\* A flow variable or memory key is missing.
MissingValue ==
  /\ AtTool(Tool) /\ Here.lookup
  /\ Fail /\ Keep /\ UNCHANGED <<runVars, first>>

\* What telemetry says of dialogs once the connection's events are drained; of
\* a broken connection there is nothing to drain.
Seen == IF conn = "open" THEN {dialog} ELSE BOOLEAN

\* _close_dialog_best_effort, bounded by a watchdog of its own.
CloseDialog(closed) ==
  /\ dialog' = (dialog /\ ~closed)
  /\ conn' \in (IF closed THEN {conn} ELSE {conn, "aborted"})
  /\ UNCHANGED <<dialogs, stray>>

\* The guards before and after a step. A guard holds if no dialog is seen, or the
\* one that is seen may be closed, and is.
DialogGuard(holds) ==
  \E seen \in Seen, closed \in BOOLEAN :
    /\ holds = (~seen \/ (opts.auto # "off" /\ closed))
    /\ IF seen /\ opts.auto # "off" THEN CloseDialog(closed) ELSE UNCHANGED pageVars

PassGuard ==
  /\ AtTool(Tool)
  /\ IF Here.tool = "dialog" THEN UNCHANGED pageVars ELSE DialogGuard(TRUE)
  /\ Goto("ready") /\ attempt' = 0 /\ result' = "none"
  /\ UNCHANGED <<runVars, list, first, struck, dog, tallyVars, includes, history>>

StopAtGuard ==
  /\ AtTool(Tool \ {"dialog"}) /\ DialogGuard(FALSE)
  /\ Fail /\ UNCHANGED <<runVars, list, first, callVars, messageBound, includes>>

\* The report, after a last guard against dialogs.
Report ==
  /\ \/ phase = "report"
     \/ phase = "top" /\ cursor > Len(list)
  /\ outcome' = (IF Completed THEN "ok" ELSE "errors")
  /\ recorded' = Record
  /\ \E closed \in BOOLEAN : DialogGuard(closed)
  /\ Goto("over")
  /\ UNCHANGED <<program, opts, recoveries, list, first, callVars, tallyVars, includes,
                 history>>

\* An affordance that cannot be resolved, even after one refresh; run or flow
\* inside flow.
NotDispatchable ==
  /\ phase = "ready" /\ attempt = 0
  /\ Here.tool = "flow" \/ (Here.lookup /\ Here.tool \notin Internal)
  /\ Fail /\ Keep /\ UNCHANGED <<runVars, first>>

-----------------------------------------------------------------------------
(* The internal actions: assert, when, repeat, macro.                      *)

\* _condition_check: yes, no, an error, or an exception of the tools it calls.
Condition == {"yes", "no", "error", "raise"}

AtInternal(t) == phase = "ready" /\ Here.tool = t
InternalKeeps == UNCHANGED <<runVars, first, callVars, pageVars, messageBound>>

ConditionRaises ==
  /\ phase = "ready"
  /\ Here.tool \in {"assert", "when"} \/ (Here.tool = "repeat" /\ Here.until)
  /\ Raise /\ UNCHANGED callVars

Assertion ==
  /\ AtInternal("assert")
  /\ Note \/ FailUnlessOptional
  /\ InternalKeeps /\ UNCHANGED <<list, includes>>

\* The chosen branch goes behind the cursor.
When ==
  /\ AtInternal("when")
  /\ \/ FailUnlessOptional /\ UNCHANGED list
     \/ \E branch \in {Here.yes, Here.no} :
          IF Len(branch) > MaxBranch
          THEN FailUnlessOptional /\ UNCHANGED list
          ELSE Note /\ list' = Inserted(Entries(branch))
  /\ InternalKeeps /\ UNCHANGED includes

\* A loop that is not one: the loop ends under stop_on_error, optional or not.
BadRepeat == Here.iters \notin 1..MaxIters \/ Len(Here.yes) \notin 1..MaxBranch

RejectRepeat ==
  /\ AtInternal("repeat") /\ BadRepeat
  /\ executed' = executed + 1 /\ firstError' = (firstError \/ ~Here.optional)
  /\ failedChecks' = (IF Here.optional THEN failedChecks ELSE failedChecks \cup {cursor})
  /\ IF opts.stop THEN Goto("report") ELSE NextStep
  /\ InternalKeeps
  /\ UNCHANGED <<list, includes, failedTools, sent, again, hit, hitAgain>>

\* The body and the repeat itself, one iteration on, go behind the cursor.
Unrolled ==
  Inserted(Append(Entries(Here.yes), [list[cursor] EXCEPT !.iter = @ + 1]))

Repeat ==
  /\ AtInternal("repeat") /\ ~BadRepeat
  /\ \/ Here.until /\ Note /\ UNCHANGED list                  \* it matched
     \/ FailUnlessOptional /\ UNCHANGED list                  \* condition, time budget
     \/ IF list[cursor].iter >= Here.iters
        THEN (IF Here.until THEN FailUnlessOptional ELSE Note) /\ UNCHANGED list
        ELSE Note /\ list' = Unrolled
  /\ InternalKeeps /\ UNCHANGED includes

\* include_memory_steps; the other macros are a when of one branch. A refused
\* include has two entries, the first of which says ok.
Expansion == IF Here.key = NoKey THEN <<>> ELSE Runbook[Here.key]
Refused == Expansion # <<>> /\ (Here.key \in includes \/ Cardinality(includes) >= MaxIncludes)

RefuseMacro ==
  /\ AtInternal("macro") /\ Refused
  /\ executed' = executed + 2
  /\ IF Here.optional
     THEN NextStep /\ UNCHANGED <<firstError, failedChecks>>
     ELSE /\ firstError' = TRUE /\ failedChecks' = failedChecks \cup {cursor}
          /\ IF opts.stop THEN Goto("report") ELSE NextStep
  /\ InternalKeeps
  /\ UNCHANGED <<list, includes, failedTools, sent, again, hit, hitAgain>>

EndMarker(k) == [step |-> list[cursor].step, iter |-> 0, ends |-> k]

\* Mutant: an include leaves no marker.
IncludeUnmarked ==
  /\ AtInternal("macro") /\ ~Refused
  /\ list' = Inserted(Entries(Expansion))
  /\ includes' = includes \cup {Here.key} /\ Note /\ InternalKeeps

Include ==
  /\ AtInternal("macro") /\ Expansion # <<>> /\ ~Refused
  /\ list' = Inserted(Append(Entries(Expansion), EndMarker(Here.key)))
  /\ includes' = includes \cup {Here.key}
  /\ IF Len(list') > MaxTotalSteps
     THEN /\ executed' = executed + 2 /\ firstError' = TRUE /\ Goto("report")
          /\ failedChecks' = failedChecks \cup {cursor}
          /\ UNCHANGED <<failedTools, sent, again, hit, hitAgain>>
     ELSE Note
  /\ InternalKeeps

\* The key is unknown, or holds nothing.
NoExpansion ==
  /\ AtInternal("macro")
  /\ FailUnlessOptional \/ (Expansion = <<>> /\ Note)
  /\ InternalKeeps /\ UNCHANGED <<list, includes>>

-----------------------------------------------------------------------------
(* An attempt at a tool, under its watchdog.                               *)

\* Steps that may be tried a second time.
Retryable(s) == \/ s.tool = "js" /\ opts.auto # "off"
                \/ s.tool = "click" /\ ~s.irreversible

MaxAttempts == IF Retryable(Here) THEN 2 ELSE 1

Dispatch ==
  /\ phase = "ready" /\ Here.tool \notin Internal \cup {"flow"}
  /\ attempt' = attempt + 1 /\ struck' = FALSE /\ dog' = "armed" /\ result' = "none"
  /\ sent' = sent \cup {cursor}
  /\ again' = (IF cursor \in sent THEN again \cup {cursor} ELSE again)
  /\ Goto("called")
  /\ UNCHANGED <<runVars, list, first, pageVars, tallyVars, includes, hit, hitAgain,
                 failedTools, failedChecks>>

\* The tool does to the page what it is for; the page may open a dialog.
Strike ==
  /\ phase = "called" /\ conn = "open" /\ ~struck
  /\ struck' = TRUE
  /\ hit' = hit \cup {cursor}
  /\ hitAgain' = (IF cursor \in hit THEN hitAgain \cup {cursor} ELSE hitAgain)
  /\ \/ UNCHANGED <<dialog, dialogs>>
     \/ dialogs < MaxDialogs /\ dialog' = TRUE /\ dialogs' = dialogs + 1
     \/ Here.tool = "dialog" /\ dialog' = FALSE /\ UNCHANGED dialogs
  /\ UNCHANGED <<runVars, list, cursor, first, phase, attempt, result, dog, conn, stray,
                 tallyVars, includes, sent, again, failedTools, failedChecks>>

\* What the tool may answer: it worked; the element is not there; a dialog is in
\* the way; the connection or the endpoint does not answer; another error; a
\* navigation aborted by a download that is captured.
Answers ==
  {r \in {"ok", "missing", "dialog", "brick", "error", "aborted"} :
     CASE r = "ok" -> struck /\ conn = "open"
       [] r = "missing" -> ~struck /\ conn = "open" /\ Here.tool = "click"
       [] r = "dialog" -> dialog /\ conn = "open"
       [] r = "aborted" -> struck /\ conn = "open" /\ Here.download # "no"
       [] r = "error" -> conn = "open"
       [] OTHER -> TRUE}

\* The tool returns and its watchdog is stopped; a callback that has begun goes
\* on.
Return ==
  /\ phase = "called"
  /\ result' \in Answers
  /\ dog' = "off" /\ stray' = (stray \/ dog = "firing")
  /\ Goto("returned")
  /\ UNCHANGED <<runVars, list, first, attempt, struck, conn, dialog, dialogs, tallyVars,
                 includes, history>>

\* Mutant: the watchdog is not started.
FireNever == FALSE /\ UNCHANGED flowVars

\* _Watchdog: the timer's callback begins, and aborts the connection.
Fire ==
  /\ phase = "called" /\ dog = "armed" /\ dog' = "firing"
  /\ UNCHANGED <<runVars, list, cursor, first, phase, attempt, result, struck, pageVars,
                 tallyVars, includes, history>>

Abort ==
  /\ \/ dog = "firing" /\ dog' = "done" /\ UNCHANGED stray
     \/ stray /\ stray' = FALSE /\ UNCHANGED dog
  /\ conn' = "aborted"
  /\ UNCHANGED <<runVars, list, cursor, first, phase, attempt, result, struck, dialog, dialogs,
                 tallyVars, includes, history>>

Failed == result \notin {"ok", "none"}

\* An overlay is dismissed, or a moment is waited, and the step tried again.
RetryMissing ==
  /\ phase = "returned" /\ result = "missing" /\ attempt < MaxAttempts /\ Here.tool = "click"
  /\ Goto("ready")
  /\ UNCHANGED <<runVars, list, first, callVars, pageVars, tallyVars, includes, history>>

\* A dialog is open, or was in the way: it is closed, whatever auto_dialog says,
\* and the step tried again.
RetryDialog ==
  /\ phase = "returned" /\ Failed /\ attempt < MaxAttempts /\ ~(result = "missing" /\ Here.tool = "click")
  /\ result = "dialog" \/ TRUE \in Seen
  /\ CloseDialog(TRUE)
  /\ Goto("ready")
  /\ UNCHANGED <<runVars, list, first, callVars, tallyVars, includes, history>>

\* No attempt is left, or there is nothing to try again for.
GiveUp ==
  /\ phase = "returned" /\ Failed
  /\ \/ attempt >= MaxAttempts /\ UNCHANGED pageVars
     \/ /\ result # "missing" /\ attempt < MaxAttempts
        /\ \/ result # "dialog" /\ FALSE \in Seen /\ UNCHANGED pageVars
           \/ (result = "dialog" \/ TRUE \in Seen) /\ CloseDialog(FALSE)
  /\ Goto("failed")
  /\ UNCHANGED <<runVars, list, first, callVars, tallyVars, includes, history>>

-----------------------------------------------------------------------------
(* What the result of a tool makes of the run.                             *)

Recoverable == phase = "failed" /\ result = "brick" /\ opts.recover

\* Mutant: run() calls flow() again with the index of the failed step.
ResumeAtFailed ==
  /\ Recoverable /\ recoveries < opts.budget
  /\ recoveries' = recoveries + 1 /\ first' = cursor /\ Goto("top")
  /\ conn' = "open" /\ stray' = FALSE /\ dialog' \in {dialog, FALSE}
  /\ firstError' = FALSE /\ executed' = 0 /\ messageBound' = FALSE /\ includes' = {}
  /\ attempt' = 0 /\ result' = "none" /\ struck' = FALSE
  /\ UNCHANGED <<program, opts, outcome, recorded, list, dog, dialogs, history>>

\* Mutant: the budget is not looked at.
ResumeUnbudgeted ==
  /\ Recoverable /\ cursor < Len(list)
  /\ recoveries' = recoveries + 1
  /\ cursor' = cursor + 1 /\ first' = cursor + 1 /\ phase' = "top"
  /\ conn' = "open" /\ stray' = FALSE /\ dialog' \in {dialog, FALSE}
  /\ firstError' = FALSE /\ executed' = 0 /\ messageBound' = FALSE /\ includes' = {}
  /\ attempt' = 0 /\ result' = "none" /\ struck' = FALSE
  /\ UNCHANGED <<program, opts, outcome, recorded, list, dog, dialogs, history>>

\* flow() recovers the browser and returns; run() calls it again for what is
\* behind the failed step, if its budget allows.
Resume ==
  /\ Recoverable /\ recoveries < opts.budget /\ cursor < Len(list)
  /\ recoveries' = recoveries + 1
  /\ cursor' = cursor + 1 /\ first' = cursor + 1 /\ phase' = "top"
  /\ conn' = "open" /\ stray' = FALSE /\ dialog' \in {dialog, FALSE}
  /\ firstError' = FALSE /\ executed' = 0 /\ messageBound' = FALSE /\ includes' = {}
  /\ attempt' = 0 /\ result' = "none" /\ struck' = FALSE
  /\ UNCHANGED <<program, opts, outcome, recorded, list, dog, dialogs, history>>

Bricked ==
  /\ Recoverable /\ (recoveries >= opts.budget \/ cursor = Len(list))
  /\ outcome' = "bricked" /\ Goto("over")
  /\ UNCHANGED <<program, opts, recoveries, recorded, list, first, callVars, pageVars,
                 tallyVars, includes, history>>

\* A tool that failed: its entry says so, and nothing else happens. The lines
\* that set first_error and honour stop_on_error are in the branch of Suppressed.
ToolFailed ==
  /\ phase = "failed" /\ ~Recoverable /\ result # "aborted"
  /\ messageBound' = TRUE
  /\ failedTools' = (IF Here.optional THEN failedTools ELSE failedTools \cup {cursor})
  /\ Goto("post")
  /\ UNCHANGED <<runVars, list, first, callVars, pageVars, firstError, executed, includes,
                 sent, again, hit, hitAgain, failedChecks>>

\* The download of an aborted navigation was captured: an error all the same,
\* if the step is no option; message is read, but assigned by an earlier error
\* only.
Suppressed ==
  /\ phase = "failed" /\ ~Recoverable /\ result = "aborted"
  /\ \/ /\ Here.optional
        /\ Goto("post") /\ UNCHANGED <<firstError, executed, outcome>>
     \/ /\ ~Here.optional /\ ~firstError /\ ~messageBound
        /\ outcome' = "raised" /\ Goto("over") /\ UNCHANGED <<firstError, executed>>
     \/ /\ ~Here.optional /\ (firstError \/ messageBound)
        /\ firstError' = TRUE /\ UNCHANGED outcome
        /\ IF opts.stop THEN executed' = executed + 1 /\ Goto("report")
                        ELSE UNCHANGED executed /\ Goto("post")
  /\ UNCHANGED <<program, opts, recoveries, recorded, list, first, callVars, pageVars,
                 messageBound, includes, history>>

ToolWorked ==
  /\ phase = "returned" /\ result = "ok" /\ Goto("post")
  /\ UNCHANGED <<runVars, list, first, callVars, pageVars, tallyVars, includes, history>>

\* A required download that did not come is a failure of the step.
DownloadMissing ==
  /\ phase = "returned" /\ result = "ok" /\ Here.download = "required"
  /\ firstError' = TRUE /\ failedChecks' = failedChecks \cup {cursor}
  /\ IF opts.stop THEN executed' = executed + 1 /\ Goto("report")
                  ELSE UNCHANGED executed /\ Goto("post")
  /\ UNCHANGED <<runVars, list, first, callVars, pageVars, messageBound, includes, failedTools,
                 sent, again, hit, hitAgain>>

\* The entry, and the guard after the step: an entry more, if a dialog stays.
AfterStep ==
  /\ phase = "post"
  /\ \/ /\ IF Here.tool = "dialog" THEN UNCHANGED pageVars ELSE DialogGuard(TRUE)
        /\ Note /\ UNCHANGED <<list, callVars, includes, messageBound>>
     \/ /\ Here.tool # "dialog" /\ DialogGuard(FALSE)
        /\ executed' = executed + 2 /\ firstError' = TRUE
        /\ failedChecks' = failedChecks \cup {cursor}
        /\ IF opts.stop THEN Goto("report") ELSE NextStep
        /\ UNCHANGED <<list, callVars, includes, messageBound, failedTools, sent, again, hit,
                       hitAgain>>
  /\ UNCHANGED <<runVars, first>>

-----------------------------------------------------------------------------
(* The page and its user.                                                  *)

\* A timer of the page opens a dialog; the user or the event bus closes it.
PageDialog ==
  /\ phase \notin {"idle", "over"}
  /\ \/ ~dialog /\ dialogs < MaxDialogs /\ dialog' = TRUE /\ dialogs' = dialogs + 1
     \/ dialog /\ dialog' = FALSE /\ UNCHANGED dialogs
  /\ UNCHANGED <<runVars, list, cursor, first, phase, callVars, conn, stray, tallyVars, includes,
                 history>>

-----------------------------------------------------------------------------
BeforeStep == \/ TooManySteps \/ EndInclude \/ MissingValue \/ PassGuard \/ StopAtGuard
              \/ NotDispatchable
InternalStep == \/ ConditionRaises \/ Assertion \/ When \/ RejectRepeat \/ Repeat
                \/ RefuseMacro \/ Include \/ NoExpansion
ResultStep == \/ RetryMissing \/ RetryDialog \/ GiveUp \/ Resume \/ Bricked \/ ToolFailed
              \/ Suppressed \/ ToolWorked \/ DownloadMissing \/ AfterStep

FlowNext ==
  \/ Refuse \/ Start \/ Report \/ BeforeStep \/ InternalStep
  \/ Dispatch \/ Strike \/ Return \/ Fire \/ Abort \/ ResultStep \/ PageDialog

FlowSpec == FlowInit /\ [][FlowNext]_flowVars

\* A tool need not return by itself; its watchdog goes off, and a call on a
\* broken connection fails. The page does as it likes.
FlowFairness ==
  /\ WF_flowVars(Refuse \/ Start \/ Report \/ BeforeStep \/ InternalStep \/ Dispatch \/ ResultStep)
  /\ WF_flowVars(Fire) /\ WF_flowVars(Abort)
  /\ WF_flowVars(conn = "aborted" /\ Return)

FairFlowSpec == FlowSpec /\ FlowFairness

-----------------------------------------------------------------------------
(* Properties.                                                             *)

ListOK ==
  /\ program \in Programs /\ opts \in Options
  /\ list \in Seq(Entry) /\ cursor \in Nat \ {0} /\ first \in 1..cursor
  /\ phase \in {"idle", "top", "ready", "called", "returned", "failed", "post", "report", "over"}
  /\ cursor <= Len(list) + 1
  /\ phase \notin {"top", "report", "over"} => cursor <= Len(list)
  /\ phase \in {"ready", "called", "returned", "failed", "post"} => list[cursor].ends = NoKey

CallOK ==
  /\ attempt \in Nat /\ struck \in BOOLEAN /\ dog \in {"off", "armed", "firing", "done"}
  /\ result \in {"none", "ok", "missing", "dialog", "brick", "error", "aborted"}
  /\ conn \in {"open", "aborted"} /\ dialog \in BOOLEAN /\ stray \in BOOLEAN
  /\ dialogs \in Nat

TallyOK ==
  /\ firstError \in BOOLEAN /\ messageBound \in BOOLEAN /\ executed \in Nat
  /\ includes \subseteq Keys /\ recoveries \in 0..opts.budget
  /\ outcome \in {"none", "ok", "errors", "refused", "raised", "bricked"}
  /\ recorded \in Seq(Entry)

HistoryOK ==
  /\ sent \subseteq 1..cursor /\ again \subseteq sent /\ hit \subseteq sent /\ hitAgain \subseteq hit
  /\ failedTools \subseteq 1..cursor /\ failedChecks \subseteq 1..cursor

FlowTypeOK == ListOK /\ CallOK /\ TallyOK /\ HistoryOK

StepAt(k) == Step[list[k].step]

\* A step marked irreversible (a click or a type) is dispatched at most once in
\* a run: through second attempts, watchdogs that abort under the wrong step,
\* steps put into the list before it, and the resumption after a recovery at an
\* index. Only reading steps and other clicks are ever dispatched again.
\* (run/handler.py:172 "Do not retry the failed one automatically")
IrreversibleOnce ==
  \A k \in again : Retryable(StepAt(k))

\* What lies before the cursor, and the step at it, are never changed, and the
\* cursor never goes back, so that an index names the same step in flow() and in
\* the resumption that run() makes of it (run/handler.py:173).
PastIsFixed ==
  [][/\ cursor' >= cursor
     /\ \A k \in DOMAIN list : k <= cursor => k \in DOMAIN list' /\ list'[k] = list[k]]_flowVars

\* A key on the include stack is the key of an include whose end lies ahead: it
\* is not refused for ever (internal_actions.py:756-785, handler.py:1449).
IncludesEnd ==
  \A k \in includes : \E j \in cursor..Len(list) : list[j].ends = k

\* With stop_on_error no tool is dispatched behind a step that failed in a check:
\* an assert, a condition, a guard, a limit, a missing value or download.
ChecksStop ==
  opts.stop => \A k \in failedChecks, m \in sent : m <= k

\* A run that says ok has dispatched every tool step of its list from where it
\* began or was resumed: the count of entries stands for that. (An include that
\* is optional and refused counts twice, and may hide a step that was not run.)
OkMeansAllSent ==
  /\ outcome = "ok"
  /\ \A k \in DOMAIN list : StepAt(k).tool = "macro" => ~StepAt(k).optional
  => \A k \in first..Len(list) :
       list[k].ends = NoKey /\ StepAt(k).tool \notin Internal \cup {"flow"} => k \in sent

\* A run ends: loops and includes are bounded, and a tool that hangs is cut off
\* by its watchdog.
FlowEnds == phase = "top" ~> phase = "over"

\* "Stop on the first non-optional error": the tools' own errors do not.
StopsOnFirstError ==
  opts.stop => \A k \in failedTools \cup failedChecks, m \in sent : m <= k

\* "Mark an action as irreversible (requires confirm_irreversible=true)": steps
\* of a branch, of a loop or of an included runbook do not.
ConfirmedIrreversible ==
  ~opts.confirm => \A k \in sent : ~StepAt(k).irreversible

\* "record the original actions into agent memory": what is recorded has the
\* steps that were put in.
RecordsTheInput ==
  recorded # <<>> => recorded = Entries(program)

\* "The retry gate below is conservative (only for pre-click failures)": a click
\* that opens a dialog is done again.
ClicksOnce ==
  \A k \in hitAgain : StepAt(k).tool # "click"

=============================================================================
