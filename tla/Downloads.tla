----------------------------- MODULE Downloads -----------------------------
(***************************************************************************)
(* How the steps of a run capture downloads (flow/handler.py,              *)
(* tools/downloads.py): the files of the tab's own directory and of the    *)
(* user's default one are compared with what was there before.  The        *)
(* browser writes x.crdownload and renames it to x when it is complete;    *)
(* which directory it uses depends on Page.setDownloadBehavior, and other  *)
(* tabs download to the default one at any time.                           *)
(*                                                                         *)
(* The order of modification times is left open: where the code takes the  *)
(* newest of several files, the model takes any.                           *)
(***************************************************************************)
EXTENDS Naturals, FiniteSets

CONSTANTS
  Names,     \* of files, in each of the directories
  MaxSteps   \* bound: steps of the run

ASSUME DownloadAssumption == MaxSteps \in Nat \ {0}

Dirs == {"tab", "default"}
Files == [dir : Dirs, name : Names]

VARIABLES
  disk,       \* file -> "none", "temp" (x.crdownload is there) or "done"
  managed,    \* the browser has been told the tab's directory
  step,       \* number of the step
  progress,   \* "between" steps, "plan" made, "wait" begun, "polled", or "end" of the wait
  stepTool,   \* of the step: "click" with auto capture, or "download"
  baseline,   \* download_baseline: entries [name, temp] of the tab's directory, {} for none
  known,      \* baselines of the wait: the entries of each directory not to look at
  candidate,  \* the file picked last, in a set, or none
  \* history
  old,        \* files that were complete when the step began
  instant,    \* files of the tab's directory complete when the wait began, and not old
  listed,     \* the baseline of the step could be listed
  captured,   \* records of captures: step, file reported, file stored
  overlooked  \* instant files of waits that timed out

diskVars == <<disk, managed>>
waitingVars == <<known, candidate, instant>>
downloadVars ==
  <<diskVars, step, progress, stepTool, baseline, waitingVars, old, listed, captured, overlooked>>

DownloadInit ==
  /\ disk = [f \in Files |-> "none"] /\ managed = FALSE
  /\ step = 0 /\ progress = "between" /\ stepTool = "click"
  /\ baseline = {} /\ known = [d \in Dirs |-> {}] /\ candidate = {}
  /\ old = {} /\ instant = {} /\ listed = FALSE /\ captured = {} /\ overlooked = {}

-----------------------------------------------------------------------------
(* The directories                                                         *)

Complete == {f \in Files : disk[f] = "done"}

\* iterdir: x or x.crdownload.
Listing(d) ==
  {[name |-> f.name, temp |-> disk[f] = "temp"] : f \in {g \in Files : g.dir = d /\ disk[g] # "none"}}

\* The browser starts a download, in the tab's directory if it was told to.
DownloadStarts(f) ==
  /\ disk[f] = "none" /\ (f.dir = "tab" => managed)
  /\ disk' = [disk EXCEPT ![f] = "temp"]
  /\ UNCHANGED <<managed, step, progress, stepTool, baseline, waitingVars, old, listed, captured,
                 overlooked>>

\* A download ends, or is given up and its file removed.
DownloadEnds(f, to) ==
  /\ disk[f] = "temp" /\ to \in {"done", "none"}
  /\ disk' = [disk EXCEPT ![f] = to]
  /\ UNCHANGED <<managed, step, progress, stepTool, baseline, waitingVars, old, listed, captured,
                 overlooked>>

\* ensure_downloads: best effort; once it has worked it is cached.
EnsureDownloads == managed' \in {managed, TRUE}

-----------------------------------------------------------------------------
(* The step                                                                *)

\* The step is over, and what was known to it is gone.
StepOver ==
  /\ progress' = "between" /\ baseline' = {} /\ listed' = FALSE
  /\ known' = [d \in Dirs |-> {}] /\ candidate' = {} /\ instant' = {}

\* Before the step: the directory is set, and then its files are listed; both are
\* best effort.  A download step has no baseline.
PlanDownload(t) ==
  /\ progress = "between" /\ step < MaxSteps
  /\ step' = step + 1 /\ progress' = "plan" /\ stepTool' = t
  /\ IF t = "click"
     THEN /\ EnsureDownloads
          /\ listed' \in BOOLEAN /\ baseline' = IF listed' THEN Listing("tab") ELSE {}
     ELSE UNCHANGED managed /\ listed' = FALSE /\ baseline' = {}
  /\ old' = Complete
  /\ UNCHANGED <<disk, waitingVars, captured, overlooked>>

\* The click fails: no capture.
ClickFails ==
  /\ progress = "plan" /\ stepTool = "click" /\ StepOver
  /\ UNCHANGED <<diskVars, step, stepTool, old, captured, overlooked>>

\* Mutant: an empty baseline is taken as it is.
PlannedBaseline == baseline

\* wait_for_download: the baseline of the plan unless it is empty; what is in the
\* default directory is always listed only now.
WaitBaseline == IF baseline # {} THEN baseline ELSE Listing("tab")

WaitForDownload ==
  /\ progress = "plan" /\ progress' = "wait" /\ EnsureDownloads
  /\ known' = [d \in Dirs |-> IF d = "tab" THEN WaitBaseline ELSE Listing(d)]
  /\ candidate' = {}
  /\ instant' = {f \in Complete \ old : f.dir = "tab"}
  /\ UNCHANGED <<disk, step, stepTool, baseline, old, listed, captured, overlooked>>

\* _pick_candidate: a new x.crdownload stands for x and comes before the complete files.
Fresh(d, temp) ==
  {f \in Files : f.dir = d /\ [name |-> f.name, temp |-> temp] \in Listing(d) \ known[d]}
Picks(d) == IF Fresh(d, TRUE) # {} THEN Fresh(d, TRUE) ELSE Fresh(d, FALSE)

\* A poll: the default directory only if there is nothing new in the tab's.
PollDirectories ==
  /\ progress \in {"wait", "polled"} /\ progress' = "polled"
  /\ LET some == IF Picks("tab") # {} THEN Picks("tab") ELSE Picks("default")
     IN  candidate' \in IF some = {} THEN {{}} ELSE {{f} : f \in some}
  /\ UNCHANGED <<diskVars, step, stepTool, baseline, known, instant, old, listed, captured, overlooked>>

\* x.crdownload is renamed between its listing and the stat of the sort: the error
\* leaves the wait, and the URL is not tried either.
PollTrips(f) ==
  /\ progress \in {"wait", "polled"} /\ f \in Fresh(f.dir, TRUE)
  /\ f.dir = "default" => Picks("tab") = {}
  /\ disk' = [disk EXCEPT ![f] = "done"] /\ StepOver
  /\ UNCHANGED <<managed, step, stepTool, old, captured, overlooked>>

\* put_file: a file outside the repository is found again by its name, in the tab's
\* directory first.
Stored(f) ==
  LET own == [f EXCEPT !.dir = "tab"] IN IF disk[own] = "done" THEN own ELSE f

\* The candidate is there, and its size is stable or the time is over.
Capture ==
  /\ progress = "polled" /\ \E f \in candidate : disk[f] = "done"
  /\ captured' = captured
       \cup {[step |-> step, file |-> f, stored |-> Stored(f)] : f \in candidate}
  /\ StepOver
  /\ UNCHANGED <<diskVars, step, stepTool, old, overlooked>>

\* The time is over without one: the URL of the link is fetched if it is known, and
\* otherwise a best-effort capture reports nothing.
TimedOut ==
  /\ progress = "polled" /\ \A f \in candidate : disk[f] # "done"
  /\ overlooked' = overlooked \cup (IF listed THEN instant ELSE {})
  /\ progress' = "end"
  /\ UNCHANGED <<diskVars, step, stepTool, baseline, waitingVars, old, listed, captured>>

\* _download_via_url writes to the tab's directory under a name that is free there.
FetchInstead(f) ==
  /\ progress = "end" /\ f.dir = "tab" /\ disk[f] = "none"
  /\ disk' = [disk EXCEPT ![f] = "done"]
  /\ captured' = captured \cup {[step |-> step, file |-> f, stored |-> f]}
  /\ StepOver
  /\ UNCHANGED <<managed, step, stepTool, old, overlooked>>

NothingCaptured ==
  /\ progress = "end" /\ StepOver
  /\ UNCHANGED <<diskVars, step, stepTool, old, captured, overlooked>>

DownloadNext ==
  \/ \E f \in Files :
       \/ DownloadStarts(f) \/ PollTrips(f) \/ FetchInstead(f)
       \/ \E to \in {"done", "none"} : DownloadEnds(f, to)
  \/ \E t \in {"click", "download"} : PlanDownload(t)
  \/ ClickFails \/ WaitForDownload \/ PollDirectories \/ Capture \/ TimedOut \/ NothingCaptured

DownloadSpec == DownloadInit /\ [][DownloadNext]_downloadVars

-----------------------------------------------------------------------------
Entries == [name : Names, temp : BOOLEAN]

DownloadTypeOK ==
  /\ disk \in [Files -> {"none", "temp", "done"}] /\ managed \in BOOLEAN
  /\ step \in 0..MaxSteps /\ progress \in {"between", "plan", "wait", "polled", "end"}
  /\ stepTool \in {"click", "download"}
  /\ baseline \subseteq Entries /\ known \in [Dirs -> SUBSET Entries]
  /\ candidate \in SUBSET Files /\ Cardinality(candidate) <= 1
  /\ {old, instant, overlooked} \subseteq SUBSET Files /\ listed \in BOOLEAN
  /\ captured \subseteq [step : 1..MaxSteps, file : Files, stored : Files]

\* What a step reports as its download was not complete before the step began, and so
\* no file is reported by two steps: also when the baseline could not be listed, when
\* the file is in the default directory, and when a download of an earlier step ends
\* late.
CapturedIsNew ==
  /\ \A c \in captured : c.step = step => c.file \notin old
  /\ \A c, e \in captured : c.file = e.file => c.step = e.step

\* The baseline is taken "*before* click-like actions" to "avoid missing instant
\* downloads" (flow/handler.py:1810, tools/downloads.py:330): a wait does not time out
\* over a download that was complete in the tab's directory when it began.  It does,
\* since an empty baseline is replaced by a late one, and since an unfinished
\* download hides the complete ones.
InstantDownloadsSeen == overlooked = {}
=============================================================================
