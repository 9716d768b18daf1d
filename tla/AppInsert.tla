----------------------------- MODULE AppInsert -----------------------------
(***************************************************************************)
(* The app operations that put a payload on the canvas of a web app        *)
(* (apps/): paste it from the clipboard, drop it as a file, or import it   *)
(* through the page's file chooser, each a fallback of the one before.     *)
(*                                                                         *)
(* What an attempt brings about shows on the page at once, later, or not   *)
(* at all; whether it did is judged by screenshots before and after.       *)
(* Clicks and keys that only focus the canvas or close an overlay are left *)
(* out, and what else happens on the canvas is noise.                      *)
(***************************************************************************)
EXTENDS Naturals, Sequences, FiniteSets

CONSTANTS
  AppCalls,     \* calls: [kind, strategy, verify]; see BeginApp
  MaxAppCalls,  \* bound: calls
  MaxTriggers   \* bound: ways to open a file chooser that an import tries

ASSUME AppAssumption == {MaxAppCalls, MaxTriggers} \subseteq Nat \ {0}

CallNumbers == 1..MaxAppCalls

VARIABLES
  appMode,      \* "direct" or "extension"
  strict,       \* the policy is strict
  number,       \* of the current call, 0 before the first
  app,          \* the call
  appPhase,     \* "idle", "clipboard", "focus", "keys", "settle", "drop", "dropped", "intercept",
                \* "trigger", "chooser", "release"
  appAttempt,   \* "none", "paste" or "drop"
  shot,         \* there is a screenshot from before the attempt
  keys,         \* key chords still to try
  triggers,     \* ways of opening a chooser tried
  intercept,    \* the page's file choosers are intercepted
  choosers,     \* queue of Page.fileChooserOpened: calls in which they opened
  lateChoosers, \* choosers that open later
  due,          \* call -> copies of its payload that appear later
  copies,       \* call -> copies of its payload that have appeared
  results,      \* call -> "none", "ok" or "error"
  \* history
  unseen        \* calls one of whose attempts worked, and was given up all the same

appConfig == <<appMode, strict>>
appCall == <<appConfig, number, app>>
appPage == <<choosers, lateChoosers, due, copies>>
appVars ==
  <<appCall, appPhase, appAttempt, shot, keys, triggers, intercept, appPage, results, unseen>>

NoApp == [kind |-> "none", strategy |-> "none", verify |-> FALSE]

AppInit ==
  /\ appMode \in {"direct", "extension"} /\ strict \in BOOLEAN
  /\ number = 0 /\ app = NoApp /\ appPhase = "idle" /\ appAttempt = "none"
  /\ shot = FALSE /\ keys = 0 /\ triggers = 0
  /\ intercept = FALSE /\ choosers = <<>> /\ lateChoosers = 0
  /\ due = [n \in CallNumbers |-> 0] /\ copies = [n \in CallNumbers |-> 0]
  /\ results = [n \in CallNumbers |-> "none"] /\ unseen = {}

-----------------------------------------------------------------------------
(* The page                                                                *)

\* What an attempt may bring about: nothing, a copy at once, or one later.
Takes ==
  \/ UNCHANGED <<due, copies>>
  \/ copies' = [copies EXCEPT ![number] = @ + 1] /\ UNCHANGED due
  \/ due' = [due EXCEPT ![number] = @ + 1] /\ UNCHANGED copies

Took == due' # due \/ copies' # copies

CopyAppears(n) ==
  /\ due[n] > 0
  /\ due' = [due EXCEPT ![n] = @ - 1] /\ copies' = [copies EXCEPT ![n] = @ + 1]
  /\ UNCHANGED <<appCall, appPhase, appAttempt, shot, keys, triggers, intercept, choosers,
                 lateChoosers, results, unseen>>

\* A chooser opens late: intercepted, or as a dialog of the browser that nobody answers.
\* The queue of a tab outlives the call only in extension mode.
ChooserOpensLate ==
  /\ lateChoosers > 0 /\ lateChoosers' = lateChoosers - 1
  /\ choosers' = IF intercept /\ (appPhase # "idle" \/ appMode = "extension")
                 THEN Append(choosers, number) ELSE choosers
  /\ UNCHANGED <<appCall, appPhase, appAttempt, shot, keys, triggers, intercept, due, copies,
                 results, unseen>>

-----------------------------------------------------------------------------
(* The call                                                                *)

\* The call is over.  The shared connection of direct mode goes with it.
AppEnds(result) ==
  /\ appPhase' = "idle" /\ results' = [results EXCEPT ![number] = result]
  /\ appAttempt' = "none" /\ shot' = FALSE /\ keys' = 0 /\ triggers' = 0

Queue == choosers' = IF appMode = "direct" THEN <<>> ELSE choosers

\* SVG goes over the clipboard in extension mode only.
PastesFirst(c) ==
  c.kind = "text" \/ (c.kind = "svg" /\ appMode = "extension" /\ c.strategy \in {"auto", "paste"})
DropsNext(c) == c.kind \in {"svg", "files"} /\ c.strategy \in {"auto", "drop"}

AfterPaste(c) == IF DropsNext(c) THEN "drop" ELSE "intercept"

\* Files cannot be pasted.  strategy="paste" without the extension ends in an import.
\* op "import" has the strategy "auto", op "diagram" is an svg, op "paste" a text.
BeginApp(c) ==
  /\ appPhase = "idle" /\ number < MaxAppCalls
  /\ ~(c.kind = "files" /\ c.strategy = "paste")
  /\ number' = number + 1 /\ app' = c
  /\ appPhase' = IF PastesFirst(c) THEN "clipboard" ELSE AfterPaste(c)
  /\ UNCHANGED <<appConfig, appAttempt, shot, keys, triggers, intercept, appPage, results, unseen>>

\* An attempt has failed: of a text, or by the only strategy asked for, for the call.
PasteFails ==
  IF app.kind = "text" \/ app.strategy = "paste"
  THEN AppEnds("error") /\ Queue
  ELSE /\ appPhase' = AfterPaste(app) /\ appAttempt' = "none" /\ shot' = FALSE /\ keys' = 0
       /\ UNCHANGED <<triggers, results, choosers>>
DropFails ==
  IF app.strategy = "drop" THEN AppEnds("error") /\ Queue
  ELSE /\ appPhase' = "intercept" /\ appAttempt' = "none" /\ shot' = FALSE
       /\ UNCHANGED <<keys, triggers, results, choosers>>

\* clipboard_write_text and clipboard_write_svg: over the extension, or not at all.
WriteClipboard ==
  /\ appPhase = "clipboard"
  /\ \/ /\ appMode = "extension" /\ appPhase' = "focus" /\ appAttempt' = "paste"
        /\ UNCHANGED <<shot, keys, triggers, results, choosers>>
     \/ PasteFails
  /\ UNCHANGED <<appCall, intercept, lateChoosers, due, copies, unseen>>

\* A drop always takes screenshots, a paste by strategy never.
Verifies == appAttempt = "drop" \/ (app.verify /\ (app.kind = "text" \/ app.strategy = "auto"))

\* focus_canvas_best_effort, and the screenshot shot, which may fail.
FocusCanvas ==
  /\ appPhase = "focus"
  /\ appPhase' = IF appAttempt = "paste" THEN "keys" ELSE "dropped"
  /\ shot' \in {FALSE, Verifies}
  /\ keys' = IF appAttempt = "paste" THEN 2 ELSE 0
  /\ UNCHANGED <<appCall, appAttempt, triggers, intercept, appPage, results, unseen>>

\* The chord is sent: that of the preferred modifier, and the other one if it fails.
PressPaste ==
  /\ appPhase = "keys" /\ keys > 0 /\ Takes
  /\ \/ appPhase' = "settle" /\ keys' = 0 /\ UNCHANGED unseen
     \/ /\ keys' = keys - 1 /\ UNCHANGED appPhase
        /\ unseen' = IF Took THEN unseen \cup {number} ELSE unseen
  /\ UNCHANGED <<appCall, appAttempt, shot, triggers, intercept, choosers, lateChoosers, results>>

NoKeyWorks ==
  /\ appPhase = "keys" /\ keys = 0 /\ PasteFails
  /\ UNCHANGED <<appCall, intercept, lateChoosers, due, copies, unseen>>

\* drop_files_best_effort: not under the strict policy, nor without a point to drop at.
BeginDrop ==
  /\ appPhase = "drop"
  /\ \/ ~strict /\ appPhase' = "focus" /\ appAttempt' = "drop"
        /\ UNCHANGED <<shot, keys, triggers, results, choosers>>
     \/ DropFails
  /\ UNCHANGED <<appCall, intercept, lateChoosers, due, copies, unseen>>

\* dragEnter, dragOver and drop in one batch, which may fail after all.
DropFiles ==
  /\ appPhase = "dropped" /\ Takes
  /\ \/ /\ appPhase' = "settle"
        /\ UNCHANGED <<appAttempt, shot, keys, triggers, results, choosers, unseen>>
     \/ /\ DropFails
        /\ unseen' = IF Took THEN unseen \cup {number} ELSE unseen
  /\ UNCHANGED <<appCall, intercept, lateChoosers>>

\* Mutant: a change is no reason to stop.
NeverContent(changed) == app.strategy # "auto" \/ app.kind = "text"

\* A text is pasted once, and a strategy asked for is not second-guessed; otherwise
\* the attempt is taken to have worked if the screenshots differ.
Content(changed) == app.strategy # "auto" \/ app.kind = "text" \/ changed

\* After the settling time: both screenshots are there and differ enough, by a copy or by
\* noise.
Judge(changed) ==
  /\ appPhase = "settle"
  /\ changed => shot
  /\ IF Content(changed)
     THEN AppEnds("ok") /\ Queue /\ UNCHANGED unseen
     ELSE /\ IF appAttempt = "paste" THEN PasteFails ELSE DropFails
          /\ unseen' = IF ~changed /\ due[number] + copies[number] > 0
                       THEN unseen \cup {number} ELSE unseen
  /\ UNCHANGED <<appCall, intercept, lateChoosers, due, copies>>

-----------------------------------------------------------------------------
(* import_via_file_chooser                                                 *)

\* If interception cannot be switched on the import fails; it may be on all the same.
BeginImport ==
  /\ appPhase = "intercept"
  /\ \/ intercept' = TRUE /\ appPhase' = "trigger" /\ triggers' = 0
        /\ UNCHANGED <<appAttempt, shot, keys, results, choosers>>
     \/ intercept' \in {intercept, TRUE} /\ AppEnds("error") /\ Queue
  /\ UNCHANGED <<appCall, lateChoosers, due, copies, unseen>>

\* A shortcut or a click on a keyword: a chooser opens now, later, or not; a trigger that
\* fails is skipped.
TriggerChooser ==
  /\ appPhase = "trigger" /\ triggers < MaxTriggers
  /\ triggers' = triggers + 1
  /\ \/ appPhase' = "chooser"
        /\ \/ choosers' = Append(choosers, number) /\ UNCHANGED lateChoosers
           \/ lateChoosers' = lateChoosers + 1 /\ UNCHANGED choosers
           \/ UNCHANGED <<choosers, lateChoosers>>
     \/ UNCHANGED <<appPhase, choosers, lateChoosers>>
  /\ UNCHANGED <<appCall, appAttempt, shot, keys, intercept, due, copies, results, unseen>>

\* set_files_via_file_chooser: the oldest chooser in the queue gets the files, also one
\* of a former call, whose input may be gone by now.
AcceptChooser ==
  /\ appPhase = "chooser" /\ choosers # <<>>
  /\ choosers' = Tail(choosers) /\ Takes
  /\ \/ appPhase' = "release" /\ results' = [results EXCEPT ![number] = "ok"] /\ UNCHANGED unseen
     \/ /\ appPhase' = "trigger" /\ UNCHANGED results
        /\ unseen' = IF Took THEN unseen \cup {number} ELSE unseen
  /\ UNCHANGED <<appCall, appAttempt, shot, keys, triggers, intercept, lateChoosers>>

NoChooser ==
  /\ appPhase = "chooser" /\ choosers = <<>> /\ appPhase' = "trigger"
  /\ UNCHANGED <<appCall, appAttempt, shot, keys, triggers, intercept, appPage, results, unseen>>

NothingTriggers ==
  /\ appPhase = "trigger" /\ triggers = MaxTriggers
  /\ appPhase' = "release" /\ results' = [results EXCEPT ![number] = "error"]
  /\ UNCHANGED <<appCall, appAttempt, shot, keys, triggers, intercept, appPage, unseen>>

\* The finally: interception is switched off, if that works.
ReleaseChooser ==
  /\ appPhase = "release" /\ intercept' \in {FALSE, intercept}
  /\ AppEnds(results[number]) /\ Queue
  /\ UNCHANGED <<appCall, lateChoosers, due, copies, unseen>>

AppNext ==
  \/ \E c \in AppCalls : BeginApp(c)
  \/ WriteClipboard \/ FocusCanvas \/ PressPaste \/ NoKeyWorks \/ BeginDrop \/ DropFiles
  \/ \E changed \in BOOLEAN : Judge(changed)
  \/ BeginImport \/ TriggerChooser \/ AcceptChooser \/ NoChooser \/ NothingTriggers \/ ReleaseChooser
  \/ ChooserOpensLate \/ \E n \in CallNumbers : CopyAppears(n)

AppSpec == AppInit /\ [][AppNext]_appVars

-----------------------------------------------------------------------------
AppTypeOK ==
  /\ appMode \in {"direct", "extension"} /\ strict \in BOOLEAN /\ intercept \in BOOLEAN
  /\ number \in 0..MaxAppCalls /\ app \in AppCalls \cup {NoApp}
  /\ appPhase \in {"idle", "clipboard", "focus", "keys", "settle", "drop", "dropped", "intercept",
                   "trigger", "chooser", "release"}
  /\ appAttempt \in {"none", "paste", "drop"} /\ shot \in BOOLEAN
  /\ keys \in 0..2 /\ triggers \in 0..MaxTriggers /\ lateChoosers \in Nat
  /\ \A i \in 1..Len(choosers) : choosers[i] \in CallNumbers
  /\ {due, copies} \subseteq [CallNumbers -> Nat]
  /\ results \in [CallNumbers -> {"none", "ok", "error"}] /\ unseen \subseteq CallNumbers

\* The fallbacks put the payload on the canvas once ("paste, drop, import fallbacks",
\* insert.py:91), unless an attempt that worked was not seen to: its copy appeared after
\* the screenshot, a screenshot failed or none was asked for, or its command failed late.
OneCopyUnlessUnseen ==
  \A n \in CallNumbers : due[n] + copies[n] > 1 => n \in unseen
=============================================================================
