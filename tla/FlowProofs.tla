----------------------------- MODULE FlowProofs -----------------------------
(* Proofs about Flow, for all lists, options and limits.                   *)
EXTENDS Flow, FiniteSetTheorems, TLAPS

-----------------------------------------------------------------------------
(* The list.                                                               *)

\* Putting steps behind the cursor leaves what is before it alone, and moves
\* what is behind it.
LEMMA InsertedFacts ==
  ASSUME list \in Seq(Entry), cursor \in 1..Len(list), NEW new \in Seq(Entry)
  PROVE  /\ Inserted(new) \in Seq(Entry)
         /\ Len(Inserted(new)) = Len(list) + Len(new)
         /\ \A k \in 1..cursor : Inserted(new)[k] = list[k]
         /\ \A k \in 1..Len(list) : k > cursor => Inserted(new)[k + Len(new)] = list[k]
         /\ \A k \in 1..Len(new) : Inserted(new)[k + cursor] = new[k]
<1> DEFINE n == Len(list) + Len(new)
<1>1. n \in Nat /\ Inserted(new) \in [1..n -> Entry]
  BY DEF Inserted
<1>2. Inserted(new) \in Seq(Entry) /\ Len(Inserted(new)) = n
  <2>1. \A f \in [1..n -> Entry] : f \in Seq(Entry) /\ Len(f) = n
    BY <1>1, SMTT(60)
  <2> QED BY <1>1, <2>1
<1>3. \A k \in 1..n : Inserted(new)[k] =
        IF k <= cursor THEN list[k]
        ELSE IF k <= cursor + Len(new) THEN new[k - cursor] ELSE list[k - Len(new)]
  BY <1>1 DEF Inserted
<1> HIDE DEF n
<1>4. n = Len(list) + Len(new) /\ Len(list) \in Nat /\ Len(new) \in Nat
  BY DEF n
<1>5. \A k \in 1..cursor : Inserted(new)[k] = list[k]
  BY <1>3, <1>4
<1>6. \A k \in 1..Len(list) : k > cursor => Inserted(new)[k + Len(new)] = list[k]
  <2> TAKE k \in 1..Len(list)
  <2> HAVE k > cursor
  <2>1. k + Len(new) \in 1..n /\ ~(k + Len(new) <= cursor)
        /\ ~(k + Len(new) <= cursor + Len(new)) /\ (k + Len(new)) - Len(new) = k
    BY <1>4
  <2> QED BY <1>3, <2>1
<1>7. \A k \in 1..Len(new) : Inserted(new)[k + cursor] = new[k]
  <2> TAKE k \in 1..Len(new)
  <2>1. k + cursor \in 1..n /\ ~(k + cursor <= cursor) /\ k + cursor <= cursor + Len(new)
        /\ (k + cursor) - cursor = k
    BY <1>4
  <2> QED BY <1>3, <2>1
<1> QED BY <1>2, <1>4, <1>5, <1>6, <1>7

\* The step objects behind an entry.
LEMMA EntriesFacts ==
  ASSUME NEW s \in Seq(Steps)
  PROVE  Entries(s) \in Seq(Entry) /\ Len(Entries(s)) = Len(s)
<1>1. Entries(s) \in [1..Len(s) -> Entry]
  BY DEF Entries, Plain, Entry
<1>2. \A f \in [1..Len(s) -> Entry] : f \in Seq(Entry) /\ Len(f) = Len(s)
  OBVIOUS
<1> QED BY <1>1, <1>2

-----------------------------------------------------------------------------
(* The inductive invariant. The step at the cursor has not been dispatched *)
(* before its first attempt, and is tried again only if it may be; a check *)
(* that failed under stop_on_error has ended the loop.                     *)

Untried ==
  /\ phase = "idle" => cursor = 1 /\ sent = {} /\ failedChecks = {} /\ failedTools = {} /\ includes = {}
  /\ (phase = "top" \/ (phase = "ready" /\ attempt = 0)) => \A m \in sent : m < cursor
  /\ phase = "ready" /\ attempt > 0 => Retryable(Here)
  /\ phase \in {"called", "returned", "failed"} => attempt > 0
  /\ phase = "ready" /\ attempt = 0 => result = "none"

DispatchedWhileCalled ==
  phase \in {"called", "returned", "failed"} => cursor \in sent

StoppedByCheck ==
  opts.stop /\ failedChecks # {} => phase \in {"report", "over"}

FlowInv ==
  /\ FlowTypeOK /\ IrreversibleOnce /\ IncludesEnd /\ ChecksStop
  /\ Untried /\ DispatchedWhileCalled /\ StoppedByCheck

LEMMA FlowInitInv == FlowInit => FlowInv
<1> SUFFICES ASSUME FlowInit PROVE FlowInv
  OBVIOUS
<1>1. list \in Seq(Entry) /\ Len(list) \in Nat \ {0}
  <2>1. program \in Seq(Steps) /\ program # <<>> /\ list = Entries(program)
    BY RunAssumption DEF FlowInit
  <2> QED BY <2>1, EntriesFacts
<1>2. opts \in Option /\ opts.budget \in 0..5
  BY RunAssumption DEF FlowInit, Option
<1>3. ListOK
  BY <1>1, <1>2 DEF FlowInit, ListOK
<1>4. CallOK /\ HistoryOK
  BY DEF FlowInit, CallOK, HistoryOK
<1>5. TallyOK
  <2>1. firstError = FALSE /\ messageBound = FALSE /\ executed = 0 /\ includes = {}
        /\ recoveries = 0 /\ outcome = "none" /\ recorded = <<>>
    BY DEF FlowInit
  <2>2. <<>> \in Seq(Entry)
    OBVIOUS
  <2>3. 0 \in 0..opts.budget
    BY <1>2
  <2> QED BY <2>1, <2>2, <2>3 DEF TallyOK
<1> QED
  BY <1>3, <1>4, <1>5
  DEF FlowInit, FlowInv, FlowTypeOK, IrreversibleOnce, IncludesEnd, ChecksStop, Untried,
      DispatchedWhileCalled, StoppedByCheck

-----------------------------------------------------------------------------
(* Ends of a step: one entry or two, and the loop goes on or ends; a check  *)
(* that failed is noted, and ends the loop under stop_on_error.             *)

StepEnds ==
  /\ executed' \in Nat /\ firstError' \in BOOLEAN
  /\ UNCHANGED <<failedTools, sent, again, hit, hitAgain>>
  /\ \/ NextStep
     \/ Goto("report")
  /\ \/ UNCHANGED failedChecks
     \/ failedChecks' = failedChecks \cup {cursor} /\ (opts.stop => Goto("report"))

PageTyped ==
  conn' \in {"open", "aborted"} /\ dialog' \in BOOLEAN /\ stray' \in BOOLEAN /\ dialogs' \in Nat

LEMMA NoteEnds == ASSUME FlowTypeOK, Note PROVE StepEnds
  BY DEF FlowTypeOK, TallyOK, Note, StepEnds

LEMMA FailEnds == ASSUME FlowTypeOK, Fail PROVE StepEnds
<1>1. CASE opts.stop
  BY <1>1 DEF FlowTypeOK, TallyOK, Fail, StepEnds, Goto
<1>2. CASE ~opts.stop
  BY <1>2 DEF FlowTypeOK, TallyOK, Fail, StepEnds
<1> QED BY <1>1, <1>2

LEMMA FailUnlessOptionalEnds == ASSUME FlowTypeOK, FailUnlessOptional PROVE StepEnds
  BY NoteEnds, FailEnds DEF FailUnlessOptional

LEMMA GuardTyped ==
  ASSUME FlowTypeOK, NEW holds \in BOOLEAN, DialogGuard(holds)
  PROVE  PageTyped
<1>1. CASE UNCHANGED pageVars
  BY <1>1 DEF FlowTypeOK, CallOK, PageTyped, pageVars
<1>2. CASE \E closed \in BOOLEAN : CloseDialog(closed)
  BY <1>2 DEF FlowTypeOK, CallOK, PageTyped, CloseDialog
<1> QED BY <1>1, <1>2 DEF DialogGuard

\* A step at the cursor that ends keeps the invariant, if the list is left alone.
LEMMA EndKeepsInv ==
  ASSUME FlowInv, StepEnds, cursor <= Len(list), PageTyped,
         list[cursor].ends = NoKey \/ cursor' = cursor,
         phase \in {"top", "ready", "post"},
         UNCHANGED <<runVars, list, first, callVars, includes, messageBound>>
  PROVE  FlowInv'
<1> USE DEF FlowInv, FlowTypeOK
<1>1. /\ cursor \in Nat \ {0} /\ Len(list) \in Nat /\ first \in 1..cursor
      /\ cursor' \in {cursor, cursor + 1} /\ phase' \in {"top", "report"}
      /\ phase' = "top" => cursor' = cursor + 1
  BY DEF ListOK, StepEnds, NextStep, Goto
<1>2. ListOK'
  BY <1>1 DEF ListOK, runVars
<1>3. CallOK'
  BY DEF CallOK, callVars, PageTyped
<1>4. TallyOK'
  BY DEF TallyOK, StepEnds, runVars
<1>5. HistoryOK'
  <2>1. 1..cursor \subseteq 1..cursor' /\ cursor \in 1..cursor'
    BY <1>1
  <2> QED BY <2>1 DEF HistoryOK, StepEnds
<1>6. IrreversibleOnce'
  BY DEF IrreversibleOnce, StepEnds, StepAt, Retryable, runVars
<1>7. IncludesEnd'
  <2> SUFFICES ASSUME NEW k \in includes
               PROVE  \E j \in cursor'..Len(list) : list[j].ends = k
    BY DEF IncludesEnd
  <2>1. PICK j \in cursor..Len(list) : list[j].ends = k
    BY DEF IncludesEnd
  <2>2. k # NoKey
    BY StepsAssumption DEF TallyOK
  <2>3. j \in cursor'..Len(list)
    BY <1>1, <2>1, <2>2
  <2> QED BY <2>1, <2>3
<1>8. ChecksStop'
  <2>1. \A m \in sent : m <= cursor
    BY <1>1 DEF HistoryOK
  <2>2. failedChecks' \subseteq failedChecks \cup {cursor} /\ sent' = sent /\ opts' = opts
    BY DEF StepEnds, runVars
  <2> QED BY <2>1, <2>2 DEF ChecksStop
<1>9. Untried'
  BY <1>1 DEF Untried, HistoryOK, StepEnds
<1>12. DispatchedWhileCalled'
  BY <1>1 DEF DispatchedWhileCalled
<1>10. StoppedByCheck'
  <2>1. CASE UNCHANGED failedChecks
    BY <2>1 DEF StoppedByCheck, runVars
  <2>2. CASE opts.stop => Goto("report")
    BY <2>2 DEF StoppedByCheck, Goto, runVars
  <2> QED BY <2>1, <2>2 DEF StepEnds
<1> QED BY <1>2, <1>3, <1>4, <1>5, <1>6, <1>7, <1>8, <1>9, <1>10, <1>12

\* New steps behind the cursor, the last of which may be the end of an include.
LEMMA InsertKeepsInv ==
  ASSUME FlowInv, StepEnds, phase = "ready", InternalKeeps,
         NEW new \in Seq(Entry), list' = Inserted(new),
         \/ UNCHANGED includes
         \/ \E k \in Keys : /\ includes' = includes \cup {k}
                            /\ Len(new) > 0 /\ new[Len(new)].ends = k
  PROVE  FlowInv'
<1> USE DEF FlowInv, FlowTypeOK
<1>1. /\ cursor \in 1..Len(list) /\ Len(list) \in Nat /\ first \in 1..cursor
      /\ list \in Seq(Entry) /\ list[cursor].ends = NoKey
      /\ cursor' \in {cursor, cursor + 1} /\ phase' \in {"top", "report"}
      /\ phase' = "top" => cursor' = cursor + 1
  BY DEF ListOK, StepEnds, NextStep, Goto
<1>2. /\ list' \in Seq(Entry) /\ Len(list') = Len(list) + Len(new) /\ Len(new) \in Nat
      /\ \A k \in 1..cursor : list'[k] = list[k]
      /\ \A k \in 1..Len(list) : k > cursor => list'[k + Len(new)] = list[k]
      /\ \A k \in 1..Len(new) : list'[k + cursor] = new[k]
  <2>1. Len(new) \in Nat
    OBVIOUS
  <2>2. /\ Inserted(new) \in Seq(Entry)
        /\ Len(Inserted(new)) = Len(list) + Len(new)
        /\ \A k \in 1..cursor : Inserted(new)[k] = list[k]
        /\ \A k \in 1..Len(list) : k > cursor => Inserted(new)[k + Len(new)] = list[k]
        /\ \A k \in 1..Len(new) : Inserted(new)[k + cursor] = new[k]
    BY <1>1, InsertedFacts
  <2> QED BY ONLY <2>1, <2>2, list' = Inserted(new)
<1>3. ListOK'
  BY <1>1, <1>2 DEF ListOK, InternalKeeps, runVars
<1>4. CallOK'
  BY DEF CallOK, InternalKeeps, callVars, pageVars
<1>5. TallyOK'
  BY DEF TallyOK, StepEnds, InternalKeeps, runVars
<1>6. HistoryOK'
  <2>1. 1..cursor \subseteq 1..cursor' /\ cursor \in 1..cursor'
    BY <1>1
  <2> QED BY <2>1 DEF HistoryOK, StepEnds
<1>7. IrreversibleOnce'
  <2> SUFFICES ASSUME NEW k \in again PROVE Retryable(StepAt(k))'
    BY DEF IrreversibleOnce, StepEnds
  <2>1. list'[k] = list[k] /\ opts' = opts
    BY <1>2 DEF HistoryOK, InternalKeeps, runVars
  <2> QED BY <2>1 DEF IrreversibleOnce, StepAt, Retryable
<1>8. IncludesEnd'
  <2>1. ASSUME NEW k \in includes PROVE \E j \in cursor'..Len(list') : list'[j].ends = k
    <3>1. PICK j \in cursor..Len(list) : list[j].ends = k
      BY DEF IncludesEnd
    <3>2. j \in 1..Len(list) /\ j > cursor
      BY <1>1, <3>1, StepsAssumption DEF TallyOK
    <3>3. j + Len(new) \in cursor'..Len(list') /\ list'[j + Len(new)].ends = k
      BY <1>1, <1>2, <3>1, <3>2
    <3> QED BY <3>3
  <2>2. ASSUME NEW k \in Keys, Len(new) > 0, new[Len(new)].ends = k
        PROVE  \E j \in cursor'..Len(list') : list'[j].ends = k
    <3>1. Len(new) + cursor \in cursor'..Len(list') /\ list'[Len(new) + cursor].ends = k
      BY <1>1, <1>2, <2>2
    <3> QED BY <3>1
  <2> QED BY <2>1, <2>2 DEF IncludesEnd
<1>9. ChecksStop'
  <2>1. \A m \in sent : m <= cursor
    BY <1>1 DEF HistoryOK
  <2>2. failedChecks' \subseteq failedChecks \cup {cursor} /\ sent' = sent /\ opts' = opts
    BY DEF StepEnds, InternalKeeps, runVars
  <2> QED BY <2>1, <2>2 DEF ChecksStop
<1>10. Untried'
  BY <1>1 DEF Untried, HistoryOK, StepEnds
<1>12. DispatchedWhileCalled'
  BY <1>1 DEF DispatchedWhileCalled
<1>11. StoppedByCheck'
  <2>1. opts' = opts
    BY DEF InternalKeeps, runVars
  <2>2. CASE UNCHANGED failedChecks
    BY <2>1, <2>2 DEF StoppedByCheck
  <2>3. CASE opts.stop => Goto("report")
    BY <2>1, <2>3 DEF StoppedByCheck, Goto
  <2> QED BY <2>2, <2>3 DEF StepEnds
<1> QED BY <1>3, <1>4, <1>5, <1>6, <1>7, <1>8, <1>9, <1>10, <1>11, <1>12

-----------------------------------------------------------------------------
(* Steps that leave the list, the cursor and the history alone.            *)

Quiet == UNCHANGED <<program, opts, list, cursor, first, includes, history>>

LEMMA QuietKeepsInv ==
  ASSUME FlowInv, Quiet, phase' \in {"called", "returned", "failed"} => phase \in {"called", "returned", "failed"},
         ListOK', CallOK', TallyOK', Untried', StoppedByCheck'
  PROVE  FlowInv'
<1>1. HistoryOK'
  BY DEF FlowInv, FlowTypeOK, Quiet, HistoryOK, history
<1>3. DispatchedWhileCalled'
  BY DEF FlowInv, Quiet, DispatchedWhileCalled, history
<1>2. IrreversibleOnce' /\ IncludesEnd' /\ ChecksStop'
  BY DEF FlowInv, Quiet, IrreversibleOnce, IncludesEnd, ChecksStop, StepAt, Retryable, history
<1> QED BY <1>1, <1>2, <1>3 DEF FlowInv, FlowTypeOK

LEMMA RefuseKeepsInv == ASSUME FlowInv, Refuse PROVE FlowInv'
<1> USE DEF FlowInv, FlowTypeOK, Refuse, callVars, pageVars, tallyVars, history, Goto
<1>1. Quiet
  BY DEF Quiet
<1>2. ListOK'
  BY DEF ListOK
<1>3. CallOK'
  BY DEF CallOK
<1>4. TallyOK'
  BY DEF TallyOK
<1>5. Untried'
  BY DEF Untried
<1>6. StoppedByCheck'
  BY DEF StoppedByCheck
<1>9. phase' \in {"called", "returned", "failed"} => phase \in {"called", "returned", "failed"}
  BY <1>1
<1> QED BY ONLY FlowInv, <1>1, <1>2, <1>3, <1>4, <1>5, <1>6, <1>9, QuietKeepsInv

LEMMA PassGuardKeepsInv == ASSUME FlowInv, PassGuard PROVE FlowInv'
<1>1. /\ Quiet /\ AtTool(Tool) /\ phase' = "ready" /\ attempt' = 0 /\ result' = "none"
      /\ UNCHANGED <<opts, recoveries, outcome, recorded, struck, dog, tallyVars>>
  BY DEF PassGuard, Quiet, Goto, runVars
<1>2. phase = "top" /\ cursor <= Len(list) /\ list[cursor].ends = NoKey
  BY <1>1 DEF AtTool, AtStep
<1>3. ListOK'
  BY <1>1, <1>2 DEF FlowInv, FlowTypeOK, ListOK, Quiet
<1>4. PageTyped
  <2>1. CASE UNCHANGED pageVars
    BY <2>1 DEF FlowInv, FlowTypeOK, CallOK, PageTyped, pageVars
  <2>2. CASE DialogGuard(TRUE)
    BY <2>2, GuardTyped DEF FlowInv
  <2> QED BY <2>1, <2>2 DEF PassGuard
<1>5. CallOK'
  BY <1>1, <1>4 DEF FlowInv, FlowTypeOK, CallOK, PageTyped
<1>6. TallyOK'
  BY <1>1 DEF FlowInv, FlowTypeOK, TallyOK, Quiet, tallyVars
<1>7. Untried'
  BY <1>1, <1>2 DEF FlowInv, Untried, Quiet, history
<1>8. StoppedByCheck'
  BY <1>1, <1>2 DEF FlowInv, StoppedByCheck, Quiet, history
<1>9. phase' \in {"called", "returned", "failed"} => phase \in {"called", "returned", "failed"}
  BY <1>1 DEF PassGuard, Goto
<1> QED BY <1>1, <1>3, <1>5, <1>6, <1>7, <1>8, <1>9, QuietKeepsInv

LEMMA ConditionRaisesKeepsInv == ASSUME FlowInv, ConditionRaises PROVE FlowInv'
<1> USE DEF FlowInv, FlowTypeOK, ConditionRaises, Raise, callVars, pageVars, tallyVars, history, Goto
<1>1. Quiet
  BY DEF Quiet
<1>2. ListOK'
  BY DEF ListOK
<1>3. CallOK'
  BY DEF CallOK
<1>4. TallyOK'
  BY DEF TallyOK
<1>5. Untried'
  BY DEF Untried
<1>6. StoppedByCheck'
  BY DEF StoppedByCheck
<1>9. phase' \in {"called", "returned", "failed"} => phase \in {"called", "returned", "failed"}
  BY <1>1
<1> QED BY ONLY FlowInv, <1>1, <1>2, <1>3, <1>4, <1>5, <1>6, <1>9, QuietKeepsInv

LEMMA ReturnKeepsInv == ASSUME FlowInv, Return PROVE FlowInv'
<1> USE DEF FlowInv, FlowTypeOK, Return, Answers, runVars, tallyVars, history, Goto
<1>1. Quiet
  BY DEF Quiet
<1>2. ListOK'
  BY DEF ListOK
<1>3. CallOK'
  BY DEF CallOK
<1>4. TallyOK'
  BY DEF TallyOK
<1>5. Untried'
  BY DEF Untried
<1>6. StoppedByCheck'
  BY DEF StoppedByCheck
<1>9. phase' \in {"called", "returned", "failed"} => phase \in {"called", "returned", "failed"}
  BY <1>1
<1> QED BY ONLY FlowInv, <1>1, <1>2, <1>3, <1>4, <1>5, <1>6, <1>9, QuietKeepsInv

LEMMA FireKeepsInv == ASSUME FlowInv, Fire PROVE FlowInv'
<1> USE DEF FlowInv, FlowTypeOK, Fire, runVars, pageVars, tallyVars, history
<1>1. Quiet
  BY DEF Quiet
<1>2. ListOK'
  BY DEF ListOK
<1>3. CallOK'
  BY DEF CallOK
<1>4. TallyOK'
  BY DEF TallyOK
<1>5. Untried'
  BY DEF Untried
<1>6. StoppedByCheck'
  BY DEF StoppedByCheck
<1>9. phase' \in {"called", "returned", "failed"} => phase \in {"called", "returned", "failed"}
  BY <1>1
<1> QED BY ONLY FlowInv, <1>1, <1>2, <1>3, <1>4, <1>5, <1>6, <1>9, QuietKeepsInv

LEMMA AbortKeepsInv == ASSUME FlowInv, Abort PROVE FlowInv'
<1> USE DEF FlowInv, FlowTypeOK, Abort, runVars, tallyVars, history
<1>1. Quiet
  BY DEF Quiet
<1>2. ListOK'
  BY DEF ListOK
<1>3. CallOK'
  BY DEF CallOK
<1>4. TallyOK'
  BY DEF TallyOK
<1>5. Untried'
  <2>1. UNCHANGED <<phase, attempt, result>> /\ Untried
    OBVIOUS
  <2> QED BY ONLY <1>1, <2>1 DEF Quiet, history, Untried, Retryable, Here
<1>6. StoppedByCheck'
  BY DEF StoppedByCheck
<1>9. phase' \in {"called", "returned", "failed"} => phase \in {"called", "returned", "failed"}
  BY <1>1
<1> QED BY ONLY FlowInv, <1>1, <1>2, <1>3, <1>4, <1>5, <1>6, <1>9, QuietKeepsInv

LEMMA RetryMissingKeepsInv == ASSUME FlowInv, RetryMissing PROVE FlowInv'
<1> USE DEF FlowInv, FlowTypeOK, RetryMissing, runVars, callVars, pageVars, tallyVars, history, Goto
<1>1. Quiet
  BY DEF Quiet
<1>2. ListOK'
  BY DEF ListOK
<1>3. CallOK'
  BY DEF CallOK
<1>4. TallyOK'
  BY DEF TallyOK
<1>5. Untried'
  <2>1. attempt \in Nat /\ attempt > 0 /\ attempt < MaxAttempts
    BY DEF Untried, CallOK
  <2>2. Retryable(Here)
    BY <2>1 DEF MaxAttempts
  <2>3. Retryable(Here)'
    BY <1>1, <2>2 DEF Quiet, Retryable, Here
  <2>4. phase' = "ready" /\ attempt' = attempt
    OBVIOUS
  <2> QED BY <2>1, <2>3, <2>4 DEF Untried
<1>6. StoppedByCheck'
  BY DEF StoppedByCheck
<1>9. phase' \in {"called", "returned", "failed"} => phase \in {"called", "returned", "failed"}
  BY <1>1
<1> QED BY ONLY FlowInv, <1>1, <1>2, <1>3, <1>4, <1>5, <1>6, <1>9, QuietKeepsInv

LEMMA RetryDialogKeepsInv == ASSUME FlowInv, RetryDialog PROVE FlowInv'
<1> USE DEF FlowInv, FlowTypeOK, RetryDialog, CloseDialog, runVars, callVars, tallyVars, history, Goto
<1>1. Quiet
  BY DEF Quiet
<1>2. ListOK'
  BY DEF ListOK
<1>3. CallOK'
  BY DEF CallOK
<1>4. TallyOK'
  BY DEF TallyOK
<1>5. Untried'
  <2>1. attempt \in Nat /\ attempt > 0 /\ attempt < MaxAttempts
    BY DEF Untried, CallOK
  <2>2. Retryable(Here)
    BY <2>1 DEF MaxAttempts
  <2>3. Retryable(Here)'
    BY <1>1, <2>2 DEF Quiet, Retryable, Here
  <2>4. phase' = "ready" /\ attempt' = attempt
    OBVIOUS
  <2> QED BY <2>1, <2>3, <2>4 DEF Untried
<1>6. StoppedByCheck'
  BY DEF StoppedByCheck
<1>9. phase' \in {"called", "returned", "failed"} => phase \in {"called", "returned", "failed"}
  BY <1>1
<1> QED BY ONLY FlowInv, <1>1, <1>2, <1>3, <1>4, <1>5, <1>6, <1>9, QuietKeepsInv

LEMMA GiveUpKeepsInv == ASSUME FlowInv, GiveUp PROVE FlowInv'
<1> USE DEF FlowInv, FlowTypeOK, GiveUp, CloseDialog, runVars, callVars, pageVars, tallyVars, history, Goto
<1>1. Quiet
  BY DEF Quiet
<1>2. ListOK'
  BY DEF ListOK
<1>3. CallOK'
  BY DEF CallOK
<1>4. TallyOK'
  BY DEF TallyOK
<1>5. Untried'
  <2>1. phase' = "failed" /\ attempt' = attempt /\ attempt > 0
    BY DEF Untried
  <2> QED BY ONLY <2>1 DEF Untried
<1>6. StoppedByCheck'
  BY DEF StoppedByCheck
<1>9. phase' \in {"called", "returned", "failed"} => phase \in {"called", "returned", "failed"}
  BY <1>1
<1> QED BY ONLY FlowInv, <1>1, <1>2, <1>3, <1>4, <1>5, <1>6, <1>9, QuietKeepsInv

LEMMA BrickedKeepsInv == ASSUME FlowInv, Bricked PROVE FlowInv'
<1> USE DEF FlowInv, FlowTypeOK, Bricked, Recoverable, callVars, pageVars, tallyVars, history, Goto
<1>1. Quiet
  BY DEF Quiet
<1>2. ListOK'
  BY DEF ListOK
<1>3. CallOK'
  BY DEF CallOK
<1>4. TallyOK'
  BY DEF TallyOK
<1>5. Untried'
  BY DEF Untried
<1>6. StoppedByCheck'
  BY DEF StoppedByCheck
<1>9. phase' \in {"called", "returned", "failed"} => phase \in {"called", "returned", "failed"}
  BY <1>1
<1> QED BY ONLY FlowInv, <1>1, <1>2, <1>3, <1>4, <1>5, <1>6, <1>9, QuietKeepsInv

LEMMA ToolWorkedKeepsInv == ASSUME FlowInv, ToolWorked PROVE FlowInv'
<1> USE DEF FlowInv, FlowTypeOK, ToolWorked, runVars, callVars, pageVars, tallyVars, history, Goto
<1>1. Quiet
  BY DEF Quiet
<1>2. ListOK'
  BY DEF ListOK
<1>3. CallOK'
  BY DEF CallOK
<1>4. TallyOK'
  BY DEF TallyOK
<1>5. Untried'
  BY DEF Untried
<1>6. StoppedByCheck'
  BY DEF StoppedByCheck
<1>9. phase' \in {"called", "returned", "failed"} => phase \in {"called", "returned", "failed"}
  BY <1>1
<1> QED BY ONLY FlowInv, <1>1, <1>2, <1>3, <1>4, <1>5, <1>6, <1>9, QuietKeepsInv

LEMMA SuppressedKeepsInv == ASSUME FlowInv, Suppressed PROVE FlowInv'
<1> USE DEF FlowInv, FlowTypeOK, Suppressed, Recoverable, callVars, pageVars, history, Goto
<1>1. Quiet
  BY DEF Quiet
<1>2. ListOK'
  BY DEF ListOK
<1>3. CallOK'
  BY DEF CallOK
<1>4. TallyOK'
  <2>1. executed' \in {executed, executed + 1}
    OBVIOUS
  <2>2. executed' \in Nat
    BY <2>1 DEF TallyOK
  <2>3. firstError' \in BOOLEAN
    BY DEF TallyOK
  <2>4. outcome' \in {outcome, "raised"}
    OBVIOUS
  <2>5. /\ UNCHANGED <<messageBound, includes, recoveries, opts, recorded>> /\ TallyOK
    OBVIOUS
  <2> QED BY ONLY <2>2, <2>3, <2>4, <2>5 DEF TallyOK
<1>5. Untried'
  BY DEF Untried
<1>6. StoppedByCheck'
  BY DEF StoppedByCheck
<1>9. phase' \in {"called", "returned", "failed"} => phase \in {"called", "returned", "failed"}
  BY <1>1
<1> QED BY ONLY FlowInv, <1>1, <1>2, <1>3, <1>4, <1>5, <1>6, <1>9, QuietKeepsInv

LEMMA PageDialogKeepsInv == ASSUME FlowInv, PageDialog PROVE FlowInv'
<1> USE DEF FlowInv, FlowTypeOK, PageDialog, runVars, callVars, tallyVars, history
<1>1. Quiet
  BY DEF Quiet
<1>2. ListOK'
  BY DEF ListOK
<1>3. CallOK'
  <2>1. /\ dialog' \in BOOLEAN /\ dialogs' \in {dialogs, dialogs + 1}
        /\ UNCHANGED <<attempt, struck, dog, result, conn, stray>>
    OBVIOUS
  <2> QED BY <2>1 DEF CallOK
<1>4. TallyOK'
  BY DEF TallyOK
<1>5. Untried'
  <2>1. UNCHANGED <<phase, attempt, result>> /\ Untried
    OBVIOUS
  <2> QED BY ONLY <1>1, <2>1 DEF Quiet, history, Untried, Retryable, Here
<1>6. StoppedByCheck'
  BY DEF StoppedByCheck
<1>9. phase' \in {"called", "returned", "failed"} => phase \in {"called", "returned", "failed"}
  BY <1>1
<1> QED BY ONLY FlowInv, <1>1, <1>2, <1>3, <1>4, <1>5, <1>6, <1>9, QuietKeepsInv

LEMMA ReportKeepsInv == ASSUME FlowInv, Report PROVE FlowInv'
<1>1. /\ Quiet /\ phase' = "over" /\ recorded' = Record /\ outcome' \in {"ok", "errors"}
      /\ UNCHANGED <<recoveries, callVars, tallyVars>>
  BY DEF Report, Quiet, Goto
<1>2. ListOK'
  BY <1>1 DEF FlowInv, FlowTypeOK, ListOK, Quiet
<1>3. PageTyped
  BY GuardTyped DEF FlowInv, Report
<1>4. CallOK'
  BY <1>1, <1>3 DEF FlowInv, FlowTypeOK, CallOK, PageTyped, callVars
<1>5. TallyOK'
  <2>1. Record \in Seq(Entry)
    BY DEF FlowInv, FlowTypeOK, ListOK, Record
  <2> QED BY <1>1, <2>1 DEF FlowInv, FlowTypeOK, TallyOK, Quiet, tallyVars
<1>6. Untried' /\ StoppedByCheck'
  BY <1>1 DEF FlowInv, Untried, StoppedByCheck
<1>9. phase' \in {"called", "returned", "failed"} => phase \in {"called", "returned", "failed"}
  BY <1>1 DEF Report, Goto
<1> QED BY <1>1, <1>2, <1>4, <1>5, <1>6, <1>9, QuietKeepsInv

-----------------------------------------------------------------------------
(* Steps that end at the cursor.                                           *)

LEMMA PageKept == ASSUME FlowInv, UNCHANGED pageVars PROVE PageTyped
  BY DEF FlowInv, FlowTypeOK, CallOK, PageTyped, pageVars

LEMMA ReadyFacts ==
  ASSUME FlowInv, phase \in {"ready", "called", "returned", "failed", "post"}
  PROVE  cursor <= Len(list) /\ list[cursor].ends = NoKey
  BY DEF FlowInv, FlowTypeOK, ListOK

LEMMA TooManyStepsKeepsInv == ASSUME FlowInv, TooManySteps PROVE FlowInv'
<1>1. StepEnds
  BY DEF FlowInv, FlowTypeOK, TallyOK, TooManySteps, StepEnds
<1>2. cursor <= Len(list) /\ phase = "top" /\ cursor' = cursor
      /\ UNCHANGED <<runVars, list, first, callVars, includes, messageBound>> /\ UNCHANGED pageVars
  BY DEF TooManySteps, Goto
<1> QED BY <1>1, <1>2, PageKept, EndKeepsInv

LEMMA MissingValueKeepsInv == ASSUME FlowInv, MissingValue PROVE FlowInv'
<1>1. StepEnds
  BY FailEnds DEF MissingValue, FlowInv
<1>2. cursor <= Len(list) /\ phase = "top" /\ list[cursor].ends = NoKey
      /\ UNCHANGED <<runVars, list, first, callVars, includes, messageBound>> /\ UNCHANGED pageVars
  BY DEF MissingValue, Keep, AtTool, AtStep
<1> QED BY <1>1, <1>2, PageKept, EndKeepsInv

LEMMA StopAtGuardKeepsInv == ASSUME FlowInv, StopAtGuard PROVE FlowInv'
<1>1. StepEnds
  BY FailEnds DEF StopAtGuard, FlowInv
<1>2. cursor <= Len(list) /\ phase = "top" /\ list[cursor].ends = NoKey
      /\ UNCHANGED <<runVars, list, first, callVars, includes, messageBound>>
      /\ DialogGuard(FALSE)
  BY DEF StopAtGuard, AtTool, AtStep
<1>3. PageTyped
  BY <1>2, GuardTyped DEF FlowInv
<1> QED BY <1>1, <1>2, <1>3, EndKeepsInv

LEMMA NotDispatchableKeepsInv == ASSUME FlowInv, NotDispatchable PROVE FlowInv'
<1>1. StepEnds
  BY FailEnds DEF NotDispatchable, FlowInv
<1>2. phase = "ready" /\ UNCHANGED pageVars
      /\ UNCHANGED <<runVars, list, first, callVars, includes, messageBound>>
  BY DEF NotDispatchable, Keep
<1> QED BY <1>1, <1>2, PageKept, ReadyFacts, EndKeepsInv

\* An internal action that leaves the list alone.
LEMMA InternalEnd ==
  ASSUME FlowInv, phase = "ready", StepEnds, InternalKeeps, UNCHANGED <<list, includes>>
  PROVE  FlowInv'
<1>1. UNCHANGED pageVars /\ UNCHANGED <<runVars, list, first, callVars, includes, messageBound>>
  BY DEF InternalKeeps
<1> QED BY <1>1, PageKept, ReadyFacts, EndKeepsInv

\* The same action, once a branch has been put into the list.
LEMMA InternalInsert ==
  ASSUME FlowInv, phase = "ready", StepEnds, InternalKeeps, NEW s \in Seq(Steps),
         list' = Inserted(Entries(s)), UNCHANGED includes
  PROVE  FlowInv'
  BY EntriesFacts, InsertKeepsInv

LEMMA HereTyped ==
  ASSUME FlowInv, phase \in {"ready", "called", "returned", "failed", "post"}
  PROVE  Here \in StepFields /\ list[cursor] \in Entry
<1>1. list[cursor] \in Entry
  BY DEF FlowInv, FlowTypeOK, ListOK
<1> QED BY <1>1, StepsAssumption DEF Here, Entry

LEMMA AssertionKeepsInv == ASSUME FlowInv, Assertion PROVE FlowInv'
<1>1. StepEnds
  BY NoteEnds, FailUnlessOptionalEnds DEF Assertion, FlowInv
<1> QED BY <1>1, InternalEnd DEF Assertion, AtInternal

LEMMA WhenKeepsInv == ASSUME FlowInv, When PROVE FlowInv'
<1>1. StepEnds
  BY NoteEnds, FailUnlessOptionalEnds DEF When, FlowInv
<1>2. phase = "ready" /\ InternalKeeps /\ UNCHANGED includes
  BY DEF When, AtInternal
<1>3. UNCHANGED list \/ \E s \in Seq(Steps) : list' = Inserted(Entries(s))
  <2>1. Here.yes \in Seq(Steps) /\ Here.no \in Seq(Steps)
    BY <1>2, HereTyped DEF StepFields
  <2> QED BY <2>1 DEF When
<1> QED BY <1>1, <1>2, <1>3, InternalEnd, InternalInsert

LEMMA RejectRepeatKeepsInv == ASSUME FlowInv, RejectRepeat PROVE FlowInv'
<1>1. StepEnds
  BY DEF FlowInv, FlowTypeOK, TallyOK, RejectRepeat, StepEnds
<1> QED BY <1>1, InternalEnd DEF RejectRepeat, AtInternal

LEMMA RepeatKeepsInv == ASSUME FlowInv, Repeat PROVE FlowInv'
<1>1. StepEnds
  BY NoteEnds, FailUnlessOptionalEnds DEF Repeat, FlowInv
<1>2. phase = "ready" /\ InternalKeeps /\ UNCHANGED includes
  BY DEF Repeat, AtInternal
<1>3. CASE UNCHANGED list
  BY <1>1, <1>2, <1>3, InternalEnd
<1>4. CASE list' = Unrolled
  <2> DEFINE new == Append(Entries(Here.yes), [list[cursor] EXCEPT !.iter = @ + 1])
  <2>1. Here.yes \in Seq(Steps)
    BY <1>2, HereTyped DEF StepFields
  <2>2. [list[cursor] EXCEPT !.iter = @ + 1] \in Entry
    BY <1>2, HereTyped DEF Entry
  <2>3. new \in Seq(Entry)
    BY <2>1, <2>2, EntriesFacts
  <2>4. list' = Inserted(new)
    BY <1>4 DEF Unrolled
  <2> QED BY <1>1, <1>2, <2>3, <2>4, InsertKeepsInv
<1> QED BY <1>3, <1>4 DEF Repeat

LEMMA RefuseMacroKeepsInv == ASSUME FlowInv, RefuseMacro PROVE FlowInv'
<1>1. StepEnds
  <2>1. executed' \in Nat /\ UNCHANGED <<failedTools, sent, again, hit, hitAgain>>
    BY DEF FlowInv, FlowTypeOK, TallyOK, RefuseMacro
  <2>2. CASE Here.optional
    BY <2>1, <2>2 DEF FlowInv, FlowTypeOK, TallyOK, RefuseMacro, StepEnds
  <2>3. CASE ~Here.optional
    BY <2>1, <2>3 DEF RefuseMacro, StepEnds
  <2> QED BY <2>2, <2>3
<1> QED BY <1>1, InternalEnd DEF RefuseMacro, AtInternal

LEMMA NoExpansionKeepsInv == ASSUME FlowInv, NoExpansion PROVE FlowInv'
<1>1. StepEnds
  BY NoteEnds, FailUnlessOptionalEnds DEF NoExpansion, FlowInv
<1> QED BY <1>1, InternalEnd DEF NoExpansion, AtInternal

LEMMA IncludeKeepsInv == ASSUME FlowInv, Include PROVE FlowInv'
<1>1. StepEnds
  <2>1. CASE Len(list') > MaxTotalSteps
    BY <2>1 DEF FlowInv, FlowTypeOK, TallyOK, Include, StepEnds
  <2>2. CASE ~(Len(list') > MaxTotalSteps)
    BY <2>2, NoteEnds DEF Include, FlowInv
  <2> QED BY <2>1, <2>2
<1>2. phase = "ready" /\ InternalKeeps /\ includes' = includes \cup {Here.key}
  BY DEF Include, AtInternal
<1>3. Here.key \in Keys
  BY <1>2, HereTyped DEF Include, Expansion, StepFields
<1> DEFINE new == Append(Entries(Expansion), EndMarker(Here.key))
<1>4. Expansion \in Seq(Steps)
  BY <1>3, StepsAssumption DEF Expansion
<1>5. EndMarker(Here.key) \in Entry /\ EndMarker(Here.key).ends = Here.key
  BY <1>2, <1>3, HereTyped DEF EndMarker, Entry
<1>6. new \in Seq(Entry) /\ Len(new) > 0 /\ new[Len(new)].ends = Here.key
  BY <1>4, <1>5, EntriesFacts
<1> QED BY <1>1, <1>2, <1>3, <1>6, InsertKeepsInv DEF Include

LEMMA AfterStepKeepsInv == ASSUME FlowInv, AfterStep PROVE FlowInv'
<1>1. phase = "post" /\ UNCHANGED <<runVars, list, first, callVars, includes, messageBound>>
  BY DEF AfterStep
<1>2. StepEnds
  <2>1. CASE Note
    BY <2>1, NoteEnds DEF FlowInv
  <2>2. CASE ~Note
    <3>1. /\ executed' = executed + 2 /\ firstError' = TRUE
          /\ failedChecks' = failedChecks \cup {cursor}
          /\ IF opts.stop THEN Goto("report") ELSE NextStep
          /\ UNCHANGED <<failedTools, sent, again, hit, hitAgain>>
      BY <2>2 DEF AfterStep
    <3>2. executed' \in Nat
      BY <3>1 DEF FlowInv, FlowTypeOK, TallyOK
    <3> QED BY <3>1, <3>2 DEF StepEnds
  <2> QED BY <2>1, <2>2
<1>3. PageTyped
  <2>1. UNCHANGED pageVars \/ DialogGuard(TRUE) \/ DialogGuard(FALSE)
    BY DEF AfterStep
  <2> QED BY <2>1, PageKept, GuardTyped DEF FlowInv
<1> QED BY <1>1, <1>2, <1>3, ReadyFacts, EndKeepsInv

-----------------------------------------------------------------------------
(* The other steps.                                                        *)

LEMMA StartKeepsInv == ASSUME FlowInv, Start PROVE FlowInv'
<1> USE DEF FlowInv, FlowTypeOK, Start, runVars, callVars, pageVars, tallyVars, history
<1>1. /\ cursor' \in 1..Len(list) /\ first' = cursor' /\ Len(list) \in Nat /\ list' = list
      /\ phase' = "top" /\ sent = {} /\ failedChecks = {} /\ failedTools = {} /\ includes = {}
  BY DEF Untried, ListOK
<1>2. ListOK'
  BY <1>1 DEF ListOK
<1>3. CallOK' /\ TallyOK'
  BY DEF CallOK, TallyOK
<1>4. HistoryOK'
  BY <1>1 DEF HistoryOK, ListOK
<1>5. IrreversibleOnce' /\ IncludesEnd' /\ ChecksStop'
  BY <1>1 DEF HistoryOK, IrreversibleOnce, IncludesEnd, ChecksStop
<1>6. Untried' /\ StoppedByCheck' /\ DispatchedWhileCalled'
  BY <1>1 DEF Untried, StoppedByCheck, DispatchedWhileCalled
<1> QED BY <1>2, <1>3, <1>4, <1>5, <1>6

\* The marker is passed that ends an include; the keys that stay have theirs
\* ahead.
LEMMA EndIncludeKeepsInv == ASSUME FlowInv, EndInclude PROVE FlowInv'
<1>1. /\ phase = "top" /\ phase' = "top" /\ cursor' = cursor + 1
      /\ includes' = includes \ {list[cursor].ends}
      /\ UNCHANGED <<runVars, list, first, callVars, pageVars, tallyVars, history>>
  BY DEF EndInclude, AtMarker, AtStep, NextStep
<1>2. cursor \in 1..Len(list) /\ Len(list) \in Nat /\ first \in 1..cursor
  BY DEF FlowInv, FlowTypeOK, ListOK, EndInclude, AtMarker, AtStep
<1>3. ListOK'
  BY <1>1, <1>2 DEF FlowInv, FlowTypeOK, ListOK, runVars
<1>4. CallOK' /\ TallyOK'
  BY <1>1 DEF FlowInv, FlowTypeOK, CallOK, TallyOK, runVars, callVars, pageVars, tallyVars
<1>5. HistoryOK'
  <2>1. 1..cursor \subseteq 1..cursor'
    BY <1>1, <1>2
  <2> QED BY <1>1, <2>1 DEF FlowInv, FlowTypeOK, HistoryOK, history
<1>6. IrreversibleOnce' /\ ChecksStop' /\ StoppedByCheck'
  BY <1>1 DEF FlowInv, IrreversibleOnce, ChecksStop, StoppedByCheck, StepAt, Retryable, runVars,
              history
<1>7. IncludesEnd'
  <2> SUFFICES ASSUME NEW k \in includes, k # list[cursor].ends
               PROVE  \E j \in cursor'..Len(list) : list[j].ends = k
    BY <1>1 DEF IncludesEnd
  <2>1. PICK j \in cursor..Len(list) : list[j].ends = k
    BY DEF FlowInv, IncludesEnd
  <2> QED BY <1>1, <1>2, <2>1
<1>8. Untried' /\ DispatchedWhileCalled'
  BY <1>1, <1>2 DEF FlowInv, FlowTypeOK, HistoryOK, Untried, DispatchedWhileCalled, history
<1> QED BY <1>3, <1>4, <1>5, <1>6, <1>7, <1>8 DEF FlowInv, FlowTypeOK

\* A step is dispatched again only if a second attempt at it is allowed, and
\* never behind a check that failed under stop_on_error.
LEMMA DispatchKeepsInv == ASSUME FlowInv, Dispatch PROVE FlowInv'
<1>1. /\ phase = "ready" /\ phase' = "called" /\ cursor' = cursor
      /\ attempt' = attempt + 1 /\ struck' = FALSE /\ dog' = "armed" /\ result' = "none"
      /\ sent' = sent \cup {cursor}
      /\ again' = (IF cursor \in sent THEN again \cup {cursor} ELSE again)
      /\ UNCHANGED <<runVars, list, first, pageVars, tallyVars, includes, hit, hitAgain,
                     failedTools, failedChecks>>
  BY DEF Dispatch, Goto
<1>2. cursor \in 1..Len(list) /\ Len(list) \in Nat /\ attempt \in Nat
  BY <1>1 DEF FlowInv, FlowTypeOK, ListOK, CallOK
<1>3. ListOK'
  BY <1>1 DEF FlowInv, FlowTypeOK, ListOK, runVars
<1>4. CallOK'
  <2>1. attempt' \in Nat
    BY <1>1, <1>2
  <2>2. CallOK /\ UNCHANGED pageVars
    BY <1>1 DEF FlowInv, FlowTypeOK
  <2>3. struck' = FALSE /\ dog' = "armed" /\ result' = "none"
    BY <1>1
  <2> QED BY ONLY <2>1, <2>2, <2>3 DEF CallOK, pageVars
<1>5. TallyOK'
  BY <1>1 DEF FlowInv, FlowTypeOK, TallyOK, runVars, tallyVars
<1>6. HistoryOK'
  <2>1. cursor \in 1..cursor
    BY <1>2
  <2>2. again' \subseteq again \cup {cursor} /\ sent' = sent \cup {cursor}
    BY <1>1
  <2>3. UNCHANGED <<hit, hitAgain, failedTools, failedChecks, cursor>>
    BY <1>1
  <2> QED BY <2>1, <2>2, <2>3 DEF FlowInv, FlowTypeOK, HistoryOK
<1>7. IrreversibleOnce'
  <2>1. cursor \in sent => Retryable(StepAt(cursor))
    BY <1>1, <1>2 DEF FlowInv, Untried, StepAt, Here
  <2> QED BY <1>1, <2>1 DEF FlowInv, IrreversibleOnce, StepAt, Retryable, runVars
<1>8. IncludesEnd'
  BY <1>1 DEF FlowInv, IncludesEnd
<1>9. ChecksStop' /\ StoppedByCheck'
  BY <1>1 DEF FlowInv, ChecksStop, StoppedByCheck, runVars
<1>10. Untried' /\ DispatchedWhileCalled'
  BY <1>1, <1>2 DEF Untried, DispatchedWhileCalled
<1> QED BY <1>3, <1>4, <1>5, <1>6, <1>7, <1>8, <1>9, <1>10 DEF FlowInv, FlowTypeOK

LEMMA StrikeKeepsInv == ASSUME FlowInv, Strike PROVE FlowInv'
<1>1. /\ phase = "called" /\ struck' = TRUE
      /\ hit' = hit \cup {cursor}
      /\ hitAgain' = (IF cursor \in hit THEN hitAgain \cup {cursor} ELSE hitAgain)
      /\ UNCHANGED <<runVars, list, cursor, first, phase, attempt, result, dog, conn, stray,
                     tallyVars, includes, sent, again, failedTools, failedChecks>>
  BY DEF Strike
<1>2. dialog' \in BOOLEAN /\ dialogs' \in Nat
  <2>1. dialogs' \in {dialogs, dialogs + 1}
    BY DEF Strike
  <2>2. dialog' \in BOOLEAN
    BY DEF Strike, FlowInv, FlowTypeOK, CallOK
  <2> QED BY <2>1, <2>2 DEF FlowInv, FlowTypeOK, CallOK
<1>3. ListOK'
  BY <1>1 DEF FlowInv, FlowTypeOK, ListOK, runVars
<1>4. CallOK'
  BY <1>1, <1>2 DEF FlowInv, FlowTypeOK, CallOK
<1>5. TallyOK'
  BY <1>1 DEF FlowInv, FlowTypeOK, TallyOK, runVars, tallyVars
<1>6. HistoryOK'
  <2>1. cursor \in sent
    BY <1>1 DEF FlowInv, DispatchedWhileCalled
  <2> QED BY <1>1, <2>1 DEF FlowInv, FlowTypeOK, HistoryOK
<1>7. IrreversibleOnce' /\ IncludesEnd' /\ ChecksStop' /\ StoppedByCheck'
  BY <1>1 DEF FlowInv, IrreversibleOnce, IncludesEnd, ChecksStop, StoppedByCheck, StepAt,
              Retryable, runVars
<1>8. Untried' /\ DispatchedWhileCalled'
  BY <1>1 DEF FlowInv, Untried, DispatchedWhileCalled, Retryable, Here, runVars
<1> QED BY <1>3, <1>4, <1>5, <1>6, <1>7, <1>8 DEF FlowInv, FlowTypeOK

\* run() goes on behind the failed step.
LEMMA ResumeKeepsInv == ASSUME FlowInv, Resume PROVE FlowInv'
<1>1. /\ phase = "failed" /\ phase' = "top" /\ cursor < Len(list)
      /\ cursor' = cursor + 1 /\ first' = cursor + 1
      /\ recoveries < opts.budget /\ recoveries' = recoveries + 1
      /\ conn' = "open" /\ stray' = FALSE /\ dialog' \in {dialog, FALSE}
      /\ firstError' = FALSE /\ executed' = 0 /\ messageBound' = FALSE /\ includes' = {}
      /\ attempt' = 0 /\ result' = "none" /\ struck' = FALSE
      /\ UNCHANGED <<program, opts, outcome, recorded, list, dog, dialogs, history>>
  BY DEF Resume, Recoverable
<1>2. cursor \in 1..Len(list) /\ Len(list) \in Nat /\ opts.budget \in Nat
  BY <1>1, RunAssumption DEF FlowInv, FlowTypeOK, ListOK, Option
<1>3. ListOK'
  BY <1>1, <1>2 DEF FlowInv, FlowTypeOK, ListOK
<1>4. CallOK'
  <2>1. dialog' \in BOOLEAN
    BY <1>1 DEF FlowInv, FlowTypeOK, CallOK
  <2>2. /\ conn' = "open" /\ stray' = FALSE /\ attempt' = 0 /\ result' = "none"
        /\ struck' = FALSE /\ UNCHANGED <<dog, dialogs>>
    BY <1>1
  <2> QED BY <2>1, <2>2 DEF FlowInv, FlowTypeOK, CallOK
<1>5. TallyOK'
  <2>1. recoveries' \in 0..opts'.budget
    BY <1>1, <1>2 DEF FlowInv, FlowTypeOK, TallyOK
  <2>2. /\ firstError' = FALSE /\ executed' = 0 /\ messageBound' = FALSE /\ includes' = {}
        /\ UNCHANGED <<outcome, recorded>>
    BY <1>1
  <2> QED BY <2>1, <2>2 DEF FlowInv, FlowTypeOK, TallyOK
<1>6. HistoryOK'
  <2>1. 1..cursor \subseteq 1..cursor'
    BY <1>1, <1>2
  <2> QED BY <1>1, <2>1 DEF FlowInv, FlowTypeOK, HistoryOK, history
<1>7. IrreversibleOnce' /\ IncludesEnd' /\ ChecksStop' /\ StoppedByCheck'
  BY <1>1 DEF FlowInv, IrreversibleOnce, IncludesEnd, ChecksStop, StoppedByCheck, StepAt,
              Retryable, history
<1>8. Untried' /\ DispatchedWhileCalled'
  BY <1>1, <1>2 DEF FlowInv, FlowTypeOK, HistoryOK, Untried, DispatchedWhileCalled, history
<1> QED BY <1>3, <1>4, <1>5, <1>6, <1>7, <1>8 DEF FlowInv, FlowTypeOK

LEMMA ToolFailedKeepsInv == ASSUME FlowInv, ToolFailed PROVE FlowInv'
<1>1. /\ phase = "failed" /\ phase' = "post" /\ cursor' = cursor /\ messageBound' = TRUE
      /\ failedTools' \subseteq failedTools \cup {cursor}
      /\ UNCHANGED <<runVars, list, first, callVars, pageVars, firstError, executed, includes,
                     sent, again, hit, hitAgain, failedChecks>>
  BY DEF ToolFailed, Goto
<1>2. ListOK' /\ CallOK' /\ TallyOK'
  BY <1>1 DEF FlowInv, FlowTypeOK, ListOK, CallOK, TallyOK, runVars, callVars, pageVars
<1>3. HistoryOK'
  BY <1>1 DEF FlowInv, FlowTypeOK, ListOK, HistoryOK
<1>4. IrreversibleOnce' /\ IncludesEnd' /\ ChecksStop' /\ StoppedByCheck'
  BY <1>1 DEF FlowInv, IrreversibleOnce, IncludesEnd, ChecksStop, StoppedByCheck, StepAt,
              Retryable, runVars
<1>5. Untried' /\ DispatchedWhileCalled'
  BY <1>1 DEF FlowInv, Untried, DispatchedWhileCalled
<1> QED BY <1>2, <1>3, <1>4, <1>5 DEF FlowInv, FlowTypeOK

LEMMA DownloadMissingKeepsInv == ASSUME FlowInv, DownloadMissing PROVE FlowInv'
<1>1. /\ phase = "returned" /\ phase' \in {"post", "report"} /\ cursor' = cursor
      /\ opts.stop => phase' = "report"
      /\ firstError' = TRUE /\ failedChecks' = failedChecks \cup {cursor}
      /\ executed' \in {executed, executed + 1}
      /\ UNCHANGED <<runVars, list, first, callVars, pageVars, messageBound, includes,
                     failedTools, sent, again, hit, hitAgain>>
  BY DEF DownloadMissing, Goto
<1>2. ListOK' /\ CallOK'
  BY <1>1 DEF FlowInv, FlowTypeOK, ListOK, CallOK, runVars, callVars, pageVars
<1>3. TallyOK'
  <2>1. executed' \in Nat
    BY <1>1 DEF FlowInv, FlowTypeOK, TallyOK
  <2>2. UNCHANGED <<messageBound, includes, recoveries, opts, outcome, recorded>>
    BY <1>1 DEF runVars
  <2>3. firstError' \in BOOLEAN /\ messageBound' \in BOOLEAN
    BY <1>1, <2>2 DEF FlowInv, FlowTypeOK, TallyOK
  <2>4. recoveries' \in 0..opts'.budget
    BY <2>2 DEF FlowInv, FlowTypeOK, TallyOK
  <2> QED BY <2>1, <2>2, <2>3, <2>4 DEF FlowInv, FlowTypeOK, TallyOK
<1>4. HistoryOK'
  BY <1>1 DEF FlowInv, FlowTypeOK, ListOK, HistoryOK
<1>5. IrreversibleOnce' /\ IncludesEnd' /\ StoppedByCheck'
  BY <1>1 DEF FlowInv, IrreversibleOnce, IncludesEnd, StoppedByCheck, StepAt, Retryable, runVars
<1>6. ChecksStop'
  <2>1. \A m \in sent : m <= cursor
    BY DEF FlowInv, FlowTypeOK, ListOK, HistoryOK
  <2> QED BY <1>1, <2>1 DEF FlowInv, ChecksStop, runVars
<1>7. Untried' /\ DispatchedWhileCalled'
  BY <1>1 DEF FlowInv, Untried, DispatchedWhileCalled
<1> QED BY <1>2, <1>3, <1>4, <1>5, <1>6, <1>7 DEF FlowInv, FlowTypeOK

-----------------------------------------------------------------------------
(* Theorems.                                                               *)

LEMMA FlowNextInv == FlowInv /\ [FlowNext]_flowVars => FlowInv'
<1> SUFFICES ASSUME FlowInv, [FlowNext]_flowVars PROVE FlowInv'
  OBVIOUS
<1>1. CASE UNCHANGED flowVars
  BY <1>1 DEF flowVars, FlowInv, FlowTypeOK, ListOK, CallOK, TallyOK, HistoryOK, IrreversibleOnce,
     IncludesEnd, ChecksStop, Untried, StoppedByCheck, DispatchedWhileCalled, StepAt, Retryable,
     Here, callVars, pageVars, tallyVars, history
<1>2. CASE BeforeStep
  BY <1>2, TooManyStepsKeepsInv, EndIncludeKeepsInv, MissingValueKeepsInv, PassGuardKeepsInv,
     StopAtGuardKeepsInv, NotDispatchableKeepsInv DEF BeforeStep
<1>3. CASE InternalStep
  BY <1>3, ConditionRaisesKeepsInv, AssertionKeepsInv, WhenKeepsInv, RejectRepeatKeepsInv,
     RepeatKeepsInv, RefuseMacroKeepsInv, IncludeKeepsInv, NoExpansionKeepsInv DEF InternalStep
<1>4. CASE ResultStep
  BY <1>4, RetryMissingKeepsInv, RetryDialogKeepsInv, GiveUpKeepsInv, ResumeKeepsInv,
     BrickedKeepsInv, ToolFailedKeepsInv, SuppressedKeepsInv, ToolWorkedKeepsInv,
     DownloadMissingKeepsInv, AfterStepKeepsInv DEF ResultStep
<1> QED
  BY <1>1, <1>2, <1>3, <1>4, RefuseKeepsInv, StartKeepsInv, ReportKeepsInv, DispatchKeepsInv,
     StrikeKeepsInv, ReturnKeepsInv, FireKeepsInv, AbortKeepsInv, PageDialogKeepsInv
  DEF FlowNext

LEMMA FlowInvAlways == FlowSpec => []FlowInv
  BY FlowInitInv, FlowNextInv, PTL DEF FlowSpec

\* Every list of steps, whatever is put into it, leaves the state well-typed.
THEOREM FlowTypeCorrect == FlowSpec => []FlowTypeOK
<1>1. FlowInv => FlowTypeOK
  BY DEF FlowInv
<1> QED BY <1>1, FlowInvAlways, PTL

\* Whatever fails, times out or is recovered: a step marked irreversible is
\* dispatched once, js expressions apart.
THEOREM IrreversibleDispatchedOnce == FlowSpec => []IrreversibleOnce
<1>1. FlowInv => IrreversibleOnce
  BY DEF FlowInv
<1> QED BY <1>1, FlowInvAlways, PTL

\* Every include that is on the stack is going to be taken off it.
THEOREM EveryIncludeEnds == FlowSpec => []IncludesEnd
<1>1. FlowInv => IncludesEnd
  BY DEF FlowInv
<1> QED BY <1>1, FlowInvAlways, PTL

\* Behind a check that failed under stop_on_error nothing is dispatched.
THEOREM FailedCheckStops == FlowSpec => []ChecksStop
<1>1. FlowInv => ChecksStop
  BY DEF FlowInv
<1> QED BY <1>1, FlowInvAlways, PTL

\* What a step does to the list and the cursor.
Moves ==
  /\ cursor' \in {cursor, cursor + 1} \/ (phase = "idle" /\ cursor' \in 1..Len(list))
  /\ UNCHANGED list \/ \E new \in Seq(Entry) : list' = Inserted(new) /\ cursor <= Len(list)

LEMMA EndMoves == ASSUME StepEnds PROVE cursor' \in {cursor, cursor + 1}
  BY DEF StepEnds, NextStep, Goto

LEMMA BeforeMoves == ASSUME FlowInv, BeforeStep PROVE Moves
<1> USE DEF Goto, NextStep, FlowInv
<1>1. CASE TooManySteps \/ EndInclude \/ PassGuard
  BY <1>1 DEF TooManySteps, EndInclude, PassGuard, Moves
<1>2. CASE MissingValue
  BY <1>2, FailEnds, EndMoves DEF MissingValue, Keep, Moves
<1>3. CASE StopAtGuard
  BY <1>3, FailEnds, EndMoves DEF StopAtGuard, Moves
<1>4. CASE NotDispatchable
  BY <1>4, FailEnds, EndMoves DEF NotDispatchable, Keep, Moves
<1> QED BY <1>1, <1>2, <1>3, <1>4 DEF BeforeStep

LEMMA InternalMoves == ASSUME FlowInv, InternalStep PROVE Moves
<1>1. cursor <= Len(list) /\ Here \in StepFields /\ list[cursor] \in Entry
  <2>1. phase = "ready"
    BY DEF InternalStep, ConditionRaises, Assertion, When, RejectRepeat, Repeat, RefuseMacro,
           Include, NoExpansion, AtInternal
  <2> QED BY <2>1, ReadyFacts, HereTyped
<1>2. cursor' \in {cursor, cursor + 1}
  <2>1. CASE ConditionRaises
    BY <2>1 DEF ConditionRaises, Raise, Goto
  <2>2. CASE RejectRepeat \/ RefuseMacro
    BY <2>2 DEF RejectRepeat, RefuseMacro, Goto, NextStep
  <2>3. CASE Assertion \/ When \/ Repeat \/ NoExpansion
    BY <2>3, NoteEnds, FailUnlessOptionalEnds, EndMoves
    DEF Assertion, When, Repeat, NoExpansion, FlowInv
  <2>4. CASE Include
    BY <2>4 DEF Include, Note, Goto, NextStep
  <2> QED BY <2>1, <2>2, <2>3, <2>4 DEF InternalStep
<1>3. UNCHANGED list \/ \E new \in Seq(Entry) : list' = Inserted(new)
  <2>1. CASE ConditionRaises \/ Assertion \/ RejectRepeat \/ RefuseMacro \/ NoExpansion
    BY <2>1 DEF ConditionRaises, Raise, Assertion, RejectRepeat, RefuseMacro, NoExpansion
  <2>2. CASE When
    <3>1. Here.yes \in Seq(Steps) /\ Here.no \in Seq(Steps)
      BY <1>1 DEF StepFields
    <3> QED BY <2>2, <3>1, EntriesFacts DEF When
  <2>3. CASE Repeat
    <3> DEFINE new == Append(Entries(Here.yes), [list[cursor] EXCEPT !.iter = @ + 1])
    <3>1. Here.yes \in Seq(Steps) /\ [list[cursor] EXCEPT !.iter = @ + 1] \in Entry
      BY <1>1, SMTT(60) DEF StepFields, Entry
    <3>2. new \in Seq(Entry)
      BY <3>1, EntriesFacts
    <3>3. UNCHANGED list \/ list' = Inserted(new)
      BY <2>3 DEF Repeat, Unrolled
    <3> QED BY <3>2, <3>3
  <2>4. CASE Include
    <3> DEFINE new == Append(Entries(Expansion), EndMarker(Here.key))
    <3>1. Here.key \in Keys
      BY <1>1, <2>4 DEF Include, Expansion, StepFields
    <3>2. Expansion \in Seq(Steps) /\ EndMarker(Here.key) \in Entry
      BY <1>1, <3>1, StepsAssumption DEF Expansion, EndMarker, Entry
    <3>3. new \in Seq(Entry)
      BY <3>2, EntriesFacts
    <3>4. list' = Inserted(new)
      BY <2>4 DEF Include
    <3> QED BY <3>3, <3>4
  <2> QED BY <2>1, <2>2, <2>3, <2>4 DEF InternalStep
<1> QED BY <1>1, <1>2, <1>3 DEF Moves

LEMMA ResultMoves == ASSUME FlowInv, ResultStep PROVE Moves
<1>1. UNCHANGED list
  BY DEF ResultStep, RetryMissing, RetryDialog, GiveUp, Resume, Bricked, ToolFailed, Suppressed,
         ToolWorked, DownloadMissing, AfterStep
<1>2. cursor' \in {cursor, cursor + 1}
  <2>1. CASE RetryMissing \/ RetryDialog \/ GiveUp \/ Resume \/ Bricked \/ ToolFailed
    BY <2>1 DEF RetryMissing, RetryDialog, GiveUp, Resume, Bricked, ToolFailed, Goto
  <2>2. CASE Suppressed \/ ToolWorked \/ DownloadMissing
    BY <2>2 DEF Suppressed, ToolWorked, DownloadMissing, Goto
  <2>3. CASE AfterStep
    BY <2>3 DEF AfterStep, Note, NextStep, Goto
  <2> QED BY <2>1, <2>2, <2>3 DEF ResultStep
<1> QED BY <1>1, <1>2 DEF Moves

LEMMA OtherMoves ==
  ASSUME FlowInv,
         \/ Refuse \/ Start \/ Report \/ Dispatch \/ Strike \/ Return \/ Fire \/ Abort \/ PageDialog
  PROVE  Moves
<1>1. UNCHANGED list
  BY DEF Refuse, Start, Report, Dispatch, Strike, Return, Fire, Abort, PageDialog
<1>2. cursor' = cursor \/ (phase = "idle" /\ cursor' \in 1..Len(list))
  BY DEF Refuse, Start, Report, Dispatch, Strike, Return, Fire, Abort, PageDialog, Goto
<1> QED BY <1>1, <1>2 DEF Moves

\* What is behind run() is never touched again: a resumption may name its place
\* by an index.
THEOREM PastNeverChanges == FlowSpec => PastIsFixed
<1> DEFINE Fixed == /\ cursor' >= cursor
                    /\ \A k \in DOMAIN list : k <= cursor => k \in DOMAIN list' /\ list'[k] = list[k]
<1>1. FlowInv /\ [FlowNext]_flowVars => [Fixed]_flowVars
  <2> SUFFICES ASSUME FlowInv, FlowNext PROVE Fixed
    OBVIOUS
  <2>1. Moves
    BY BeforeMoves, InternalMoves, ResultMoves, OtherMoves DEF FlowNext
  <2>2. list \in Seq(Entry) /\ cursor \in Nat \ {0} /\ Len(list) \in Nat
    BY DEF FlowInv, FlowTypeOK, ListOK
  <2>3. cursor' >= cursor
    BY <2>1, <2>2 DEF Moves, FlowInv, Untried
  <2>4. ASSUME NEW k \in DOMAIN list, k <= cursor PROVE k \in DOMAIN list' /\ list'[k] = list[k]
    <3>1. CASE UNCHANGED list
      BY <3>1
    <3>2. CASE \E new \in Seq(Entry) : list' = Inserted(new) /\ cursor <= Len(list)
      <4>1. PICK new \in Seq(Entry) : list' = Inserted(new) /\ cursor <= Len(list)
        BY <3>2
      <4>2. /\ Inserted(new) \in Seq(Entry)
            /\ Len(Inserted(new)) = Len(list) + Len(new)
            /\ \A m \in 1..cursor : Inserted(new)[m] = list[m]
        <5>1. cursor \in 1..Len(list)
          BY <2>2, <4>1
        <5> QED BY <2>2, <5>1, InsertedFacts
      <4>3. k \in 1..cursor /\ k \in 1..Len(list) /\ Len(new) \in Nat
        BY <2>2, <2>4
      <4>4. k \in 1..Len(Inserted(new)) /\ DOMAIN Inserted(new) = 1..Len(Inserted(new))
        BY <2>2, <4>2, <4>3
      <4> QED BY <4>1, <4>2, <4>3, <4>4
    <3> QED BY <2>1, <3>1, <3>2 DEF Moves
  <2> QED BY <2>3, <2>4
<1> QED BY <1>1, FlowInvAlways, PTL DEF FlowSpec, PastIsFixed

-----------------------------------------------------------------------------
(* What an answer of ok stands for. No step adds more than one entry while  *)
(* there is no error, and none is left behind unsent without one: so far as *)
(* the loop has come, the entries are at most as many as the steps. An      *)
(* optional macro is the exception, which the property excludes.            *)

\* How far the list has been worked off.
Reached == IF phase = "report" THEN cursor ELSE cursor - 1

PlannedTo(n) == {k \in first..n : list[k].ends = NoKey}

ToolStep(k) == list[k].ends = NoKey /\ StepAt(k).tool \notin Internal \cup {"flow"}

NoOptionalMacro == \A k \in DOMAIN list : StepAt(k).tool = "macro" => ~StepAt(k).optional

Counted ==
  /\ NoOptionalMacro => executed <= Cardinality(PlannedTo(Reached))
  /\ \A k \in first..Reached : ToolStep(k) => k \in sent

AllSent == \A k \in first..Len(list) : ToolStep(k) => k \in sent

CountInv ==
  /\ phase # "over" /\ ~firstError => Counted
  /\ phase = "post" => cursor \in sent
  /\ phase = "report" => cursor <= Len(list)
  /\ outcome # "none" => phase = "over"
  /\ outcome = "ok" /\ NoOptionalMacro => AllSent

LEMMA PlannedFinite ==
  ASSUME first \in Nat, NEW n \in Int
  PROVE  IsFiniteSet(PlannedTo(n)) /\ Cardinality(PlannedTo(n)) \in Nat
<1>1. IsFiniteSet(first..n)
  BY FS_Interval
<1>2. PlannedTo(n) \in SUBSET (first..n)
  BY DEF PlannedTo
<1>3. IsFiniteSet(PlannedTo(n))
  BY <1>1, <1>2, FS_Subset
<1> QED BY <1>3, FS_CardinalityType

\* One step more, and with it one entry more at most.
LEMMA PlannedGrows ==
  ASSUME first \in Nat, cursor \in Nat, first <= cursor
  PROVE  /\ Cardinality(PlannedTo(cursor)) =
              Cardinality(PlannedTo(cursor - 1)) + (IF list[cursor].ends = NoKey THEN 1 ELSE 0)
<1>1. IsFiniteSet(PlannedTo(cursor - 1)) /\ Cardinality(PlannedTo(cursor - 1)) \in Nat
  BY PlannedFinite
<1>2. cursor \notin PlannedTo(cursor - 1)
  BY DEF PlannedTo
<1>3. PlannedTo(cursor) =
        IF list[cursor].ends = NoKey THEN PlannedTo(cursor - 1) \cup {cursor}
        ELSE PlannedTo(cursor - 1)
  BY DEF PlannedTo
<1>4. CASE list[cursor].ends = NoKey
  BY <1>1, <1>2, <1>3, <1>4, FS_AddElement
<1>5. CASE list[cursor].ends # NoKey
  BY <1>1, <1>3, <1>5
<1> QED BY <1>4, <1>5

\* The list up to the cursor stays as it is; what it was made of stays in it.
Kept ==
  /\ \A k \in 1..cursor : list'[k] = list[k]
  /\ Len(list') \in Nat /\ Len(list) <= Len(list')
  /\ NoOptionalMacro' => NoOptionalMacro

LEMMA InsertedKept ==
  ASSUME FlowInv, cursor <= Len(list), NEW new \in Seq(Entry), list' = Inserted(new)
  PROVE  Kept
<1>1. list \in Seq(Entry) /\ cursor \in 1..Len(list) /\ Len(list) \in Nat /\ Len(new) \in Nat
  BY DEF FlowInv, FlowTypeOK, ListOK
<1>2. /\ Inserted(new) \in Seq(Entry)
      /\ Len(Inserted(new)) = Len(list) + Len(new)
      /\ \A k \in 1..cursor : Inserted(new)[k] = list[k]
      /\ \A k \in 1..Len(list) : k > cursor => Inserted(new)[k + Len(new)] = list[k]
  BY <1>1, InsertedFacts
<1>3. /\ list' \in Seq(Entry) /\ Len(list') = Len(list) + Len(new)
      /\ \A k \in 1..cursor : list'[k] = list[k]
      /\ \A k \in 1..Len(list) : k > cursor => list'[k + Len(new)] = list[k]
  BY ONLY <1>2, list' = Inserted(new)
<1>4. ASSUME NoOptionalMacro', NEW k \in DOMAIN list, StepAt(k).tool = "macro"
      PROVE  ~StepAt(k).optional
  <2>1. k \in 1..Len(list) /\ DOMAIN list' = 1..Len(list')
    BY <1>1, <1>3
  <2>2. PICK j \in DOMAIN list' : list'[j] = list[k]
    <3>1. CASE k <= cursor
      BY <1>1, <1>3, <2>1, <3>1
    <3>2. CASE k > cursor
      <4>1. k + Len(new) \in DOMAIN list' /\ list'[k + Len(new)] = list[k]
        BY <1>1, <1>3, <2>1, <3>2
      <4> QED BY <4>1
    <3> QED BY <1>1, <2>1, <3>1, <3>2
  <2>3. Step[list'[j].step].tool = "macro" => ~Step[list'[j].step].optional
    BY <1>4, <2>2 DEF NoOptionalMacro, StepAt
  <2> QED BY <1>4, <2>2, <2>3 DEF StepAt
<1> QED BY <1>1, <1>3, <1>4 DEF Kept, NoOptionalMacro

LEMMA UnchangedKept == ASSUME FlowInv, UNCHANGED list PROVE Kept
  BY DEF Kept, NoOptionalMacro, StepAt, FlowInv, FlowTypeOK, ListOK

\* A step that ends without an error adds one entry, and was sent if it is a
\* tool's; one that ends in an error need not be looked at further.
LEMMA StepEndsCounted ==
  ASSUME FlowInv, CountInv, phase # "over", cursor <= Len(list), Kept,
         UNCHANGED <<first, sent, outcome>>,
         \/ NextStep
         \/ Goto("report"),
         ~firstError' =>
           /\ ~firstError /\ phase # "report"
           /\ ToolStep(cursor) => cursor \in sent
           /\ NoOptionalMacro' =>
                executed' = executed + (IF list[cursor].ends = NoKey THEN 1 ELSE 0)
  PROVE  CountInv'
<1>1. /\ first \in Nat \ {0} /\ cursor \in Nat \ {0} /\ first <= cursor /\ executed \in Nat
      /\ first' = first /\ sent' = sent
  BY DEF FlowInv, FlowTypeOK, ListOK, TallyOK
<1>2. Reached' = cursor
  BY <1>1 DEF NextStep, Goto, Reached
<1>3. \A k \in first..cursor : list'[k] = list[k]
  BY <1>1 DEF Kept
<1>4. PlannedTo(Reached)' = PlannedTo(cursor)
  BY <1>1, <1>2, <1>3 DEF PlannedTo
<1>5. ASSUME ~firstError' PROVE Counted'
  <2>1. ~firstError /\ Counted /\ Reached = cursor - 1
    BY <1>5 DEF CountInv, Reached
  <2>2. NoOptionalMacro' => executed' <= Cardinality(PlannedTo(Reached)')
    <3> SUFFICES ASSUME NoOptionalMacro' PROVE executed' <= Cardinality(PlannedTo(cursor))
      BY <1>4
    <3>1. executed <= Cardinality(PlannedTo(cursor - 1))
      BY <2>1 DEF Counted, Kept
    <3>2. executed' = executed + (IF list[cursor].ends = NoKey THEN 1 ELSE 0)
      BY <1>5
    <3>3. Cardinality(PlannedTo(cursor - 1)) \in Nat
      BY <1>1, PlannedFinite
    <3>4. Cardinality(PlannedTo(cursor)) =
            Cardinality(PlannedTo(cursor - 1)) + (IF list[cursor].ends = NoKey THEN 1 ELSE 0)
      BY <1>1, PlannedGrows
    <3> QED BY ONLY <1>1, <3>1, <3>2, <3>3, <3>4
  <2>3. ASSUME NEW k \in first'..Reached', ToolStep(k)' PROVE k \in sent'
    <3>1. k \in first..cursor /\ ToolStep(k)
      BY <1>1, <1>2, <1>3, <2>3 DEF ToolStep, StepAt
    <3>2. CASE k = cursor
      BY <1>1, <1>5, <3>1, <3>2
    <3>3. CASE k # cursor
      <4>1. k \in first..Reached
        BY <1>1, <2>1, <3>1, <3>3
      <4> QED BY <1>1, <2>1, <3>1, <4>1 DEF Counted
    <3> QED BY <3>2, <3>3
  <2> QED BY <2>2, <2>3 DEF Counted
<1>6. phase' # "post" /\ outcome' = "none"
  BY DEF NextStep, Goto, CountInv
<1>7. phase' = "report" => cursor' <= Len(list')
  <2>1. Len(list) \in Nat
    BY DEF FlowInv, FlowTypeOK, ListOK
  <2> QED BY <1>1, <2>1 DEF NextStep, Goto, Kept
<1> QED BY <1>5, <1>6, <1>7 DEF CountInv

\* A step in the middle, by which the loop comes no further.
LEMMA MiddleCounted ==
  ASSUME FlowInv, CountInv, phase # "over", phase' # "over",
         UNCHANGED <<list, cursor, first, outcome>>, sent \subseteq sent',
         phase' = "report" <=> phase = "report",
         ~firstError' => ~firstError /\ executed' = executed,
         phase' = "post" => cursor \in sent
  PROVE  CountInv'
<1>1. Reached' = Reached /\ PlannedTo(Reached)' = PlannedTo(Reached)
  BY DEF Reached, PlannedTo
<1>2. NoOptionalMacro' = NoOptionalMacro /\ \A k : ToolStep(k)' = ToolStep(k)
  BY DEF NoOptionalMacro, ToolStep, StepAt
<1>3. ASSUME ~firstError' PROVE Counted'
  <2>1. Counted
    BY <1>3 DEF CountInv
  <2>2. NoOptionalMacro' => executed' <= Cardinality(PlannedTo(Reached)')
    BY <1>1, <1>2, <1>3, <2>1 DEF Counted
  <2>3. ASSUME NEW k \in first'..Reached', ToolStep(k)' PROVE k \in sent'
    BY <1>1, <1>2, <2>1, <2>3 DEF Counted
  <2> QED BY <2>2, <2>3 DEF Counted
<1>4. outcome' = "none"
  BY DEF CountInv
<1>5. phase' = "post" => cursor' \in sent'
  OBVIOUS
<1> QED BY <1>3, <1>4, <1>5 DEF CountInv

\* The run is over, and does not say ok.
LEMMA OverCounted ==
  ASSUME phase' = "over", outcome' # "ok"
  PROVE  CountInv'
  BY DEF CountInv

-----------------------------------------------------------------------------
(* Every action.                                                           *)

LEMMA NoteCounted ==
  ASSUME FlowInv, CountInv, phase \in {"top", "ready", "post"}, cursor <= Len(list), Kept,
         list[cursor].ends = NoKey, ToolStep(cursor) => cursor \in sent,
         UNCHANGED <<first, outcome>>, Note
  PROVE  CountInv'
<1>1. /\ UNCHANGED <<first, sent, outcome, firstError>> /\ NextStep
      /\ executed' = executed + 1
  BY DEF Note
<1> QED BY <1>1, StepEndsCounted

LEMMA FailCounted ==
  ASSUME FlowInv, CountInv, phase \in {"top", "ready", "post"}, cursor <= Len(list), Kept,
         UNCHANGED <<first, outcome>>, Fail
  PROVE  CountInv'
<1>1. UNCHANGED <<first, sent, outcome>> /\ firstError' = TRUE /\ (NextStep \/ Goto("report"))
  BY DEF Fail
<1> QED BY <1>1, StepEndsCounted

LEMMA FailUnlessOptionalCounted ==
  ASSUME FlowInv, CountInv, phase \in {"top", "ready", "post"}, cursor <= Len(list), Kept,
         list[cursor].ends = NoKey, ToolStep(cursor) => cursor \in sent,
         UNCHANGED <<first, outcome>>, FailUnlessOptional
  PROVE  CountInv'
  BY NoteCounted, FailCounted DEF FailUnlessOptional

LEMMA FlowInitCounted == FlowInit => CountInv
<1> SUFFICES ASSUME FlowInit PROVE CountInv
  OBVIOUS
<1>1. /\ cursor = 1 /\ first = 1 /\ phase = "idle" /\ executed = 0 /\ outcome = "none"
  BY DEF FlowInit
<1>2. Reached = 0 /\ Cardinality(PlannedTo(Reached)) \in Nat
  BY <1>1, PlannedFinite DEF Reached
<1> QED BY <1>1, <1>2 DEF CountInv, Counted

LEMMA StartCounted == ASSUME FlowInv, CountInv, Start PROVE CountInv'
<1>1. /\ phase = "idle" /\ phase' = "top" /\ first' \in Nat /\ cursor' = first'
      /\ UNCHANGED <<list, outcome, firstError, executed, sent>>
  BY DEF Start, runVars, tallyVars, history, FlowInv, FlowTypeOK, ListOK
<1>2. NoOptionalMacro' = NoOptionalMacro
  BY <1>1 DEF NoOptionalMacro, StepAt
<1>3. ASSUME ~firstError', NoOptionalMacro' PROVE executed' = 0
  <2>1. executed <= Cardinality(PlannedTo(Reached)) /\ executed \in Nat
    BY <1>1, <1>2, <1>3 DEF CountInv, Counted, FlowInv, FlowTypeOK, TallyOK
  <2>2. cursor = 1 /\ first = 1 /\ Reached = 0
    BY <1>1 DEF FlowInv, FlowTypeOK, ListOK, Untried, Reached
  <2>3. PlannedTo(Reached) = {}
    BY <2>2 DEF PlannedTo
  <2> QED BY <1>1, <2>1, <2>3, FS_EmptySet
<1>4. Reached' = first' - 1 /\ first'..Reached' = {}
  <2>1. Reached' = first' - 1
    BY <1>1 DEF Reached
  <2>2. \A n \in Nat : n..(n - 1) = {}
    OBVIOUS
  <2> QED BY <1>1, <2>1, <2>2
<1>5. PlannedTo(Reached)' = {}
  BY <1>4 DEF PlannedTo
<1>6. ~firstError' => Counted'
  BY <1>3, <1>4, <1>5, FS_EmptySet DEF Counted
<1> QED BY <1>1, <1>6 DEF CountInv

LEMMA BeforeCounted == ASSUME FlowInv, CountInv, BeforeStep PROVE CountInv'
<1>1. CASE TooManySteps
  <2>1. /\ phase = "top" /\ cursor <= Len(list) /\ Goto("report") /\ firstError' = TRUE
        /\ UNCHANGED <<list, first, sent, outcome>>
    BY <1>1 DEF TooManySteps, runVars
  <2> QED BY <2>1, UnchangedKept, StepEndsCounted
<1>2. CASE EndInclude
  <2>1. /\ phase = "top" /\ cursor <= Len(list) /\ NextStep /\ list[cursor].ends # NoKey
        /\ UNCHANGED <<list, first, sent, outcome, firstError, executed>>
    BY <1>2 DEF EndInclude, AtMarker, AtStep, runVars, tallyVars, history
  <2>2. ~ToolStep(cursor) /\ executed' = executed + 0
    BY <2>1 DEF ToolStep, FlowInv, FlowTypeOK, TallyOK
  <2> QED BY <2>1, <2>2, UnchangedKept, StepEndsCounted
<1>3. CASE MissingValue \/ StopAtGuard
  <2>1. /\ phase = "top" /\ cursor <= Len(list) /\ Fail
        /\ UNCHANGED <<list, first, outcome>>
    BY <1>3 DEF MissingValue, StopAtGuard, AtTool, AtStep, Keep, runVars
  <2> QED BY <2>1, UnchangedKept, FailCounted
<1>4. CASE NotDispatchable
  <2>1. /\ phase = "ready" /\ cursor <= Len(list) /\ Fail
        /\ UNCHANGED <<list, first, outcome>>
    BY <1>4, ReadyFacts DEF NotDispatchable, Keep, runVars
  <2> QED BY <2>1, UnchangedKept, FailCounted
<1>5. CASE PassGuard
  <2>1. /\ phase = "top" /\ phase' = "ready"
        /\ UNCHANGED <<list, cursor, first, outcome, sent, firstError, executed>>
    BY <1>5 DEF PassGuard, AtTool, AtStep, Goto, runVars, tallyVars, history
  <2> QED BY <2>1, MiddleCounted
<1> QED BY <1>1, <1>2, <1>3, <1>4, <1>5 DEF BeforeStep

LEMMA InternalCounted == ASSUME FlowInv, CountInv, InternalStep PROVE CountInv'
<1>1. /\ phase = "ready" /\ cursor <= Len(list) /\ list[cursor].ends = NoKey
      /\ Here \in StepFields /\ list[cursor] \in Entry
  <2>1. phase = "ready"
    BY DEF InternalStep, ConditionRaises, Assertion, When, RejectRepeat, Repeat, RefuseMacro,
           Include, NoExpansion, AtInternal
  <2> QED BY <2>1, ReadyFacts, HereTyped
<1>2. Kept
  <2>1. Moves
    BY InternalMoves
  <2>2. CASE UNCHANGED list
    BY <2>2, UnchangedKept
  <2>3. CASE \E new \in Seq(Entry) : list' = Inserted(new) /\ cursor <= Len(list)
    BY <2>3, InsertedKept
  <2> QED BY <2>1, <2>2, <2>3 DEF Moves
<1>3. ASSUME Here.tool \in Internal PROVE ~ToolStep(cursor)
  BY <1>3 DEF ToolStep, StepAt, Here
<1>4. CASE ConditionRaises
  <2>1. phase' = "over" /\ outcome' = "raised"
    BY <1>4 DEF ConditionRaises, Raise, Goto
  <2> QED BY <2>1, OverCounted
<1>5. CASE Assertion \/ When \/ Repeat \/ NoExpansion
  <2>1. /\ Note \/ FailUnlessOptional
        /\ UNCHANGED <<first, outcome>> /\ Here.tool \in Internal
    BY <1>5 DEF Assertion, When, Repeat, NoExpansion, InternalKeeps, runVars, AtInternal, Internal
  <2> QED BY <1>1, <1>2, <1>3, <2>1, NoteCounted, FailUnlessOptionalCounted
<1>6. CASE RejectRepeat
  <2>1. /\ executed' = executed + 1 /\ firstError' = (firstError \/ ~Here.optional)
        /\ NextStep \/ Goto("report")
        /\ UNCHANGED <<first, outcome, sent>> /\ Here.tool \in Internal
    BY <1>6 DEF RejectRepeat, InternalKeeps, runVars, AtInternal, Internal
  <2> QED BY <1>1, <1>2, <1>3, <2>1, StepEndsCounted
<1>7. CASE RefuseMacro
  <2>1. /\ NextStep \/ Goto("report")
        /\ UNCHANGED <<list, first, outcome, sent>> /\ Here.tool = "macro"
        /\ ~Here.optional => firstError' = TRUE
        /\ Here.optional => UNCHANGED firstError
    BY <1>7 DEF RefuseMacro, InternalKeeps, runVars, AtInternal
  <2>2. ASSUME Here.optional PROVE ~NoOptionalMacro'
    <3>1. cursor \in DOMAIN list
      BY <1>1 DEF FlowInv, FlowTypeOK, ListOK
    <3> QED BY <2>1, <2>2, <3>1, <1>2 DEF NoOptionalMacro, StepAt, Here, Kept
  <2>3. Here.tool \in Internal
    BY <2>1 DEF Internal
  <2> QED BY <1>1, <1>2, <1>3, <2>1, <2>2, <2>3, StepEndsCounted
<1>8. CASE Include
  <2>1. /\ UNCHANGED <<first, outcome>> /\ Here.tool \in Internal
        /\ \/ Note
           \/ firstError' = TRUE /\ Goto("report") /\ UNCHANGED sent
    BY <1>8 DEF Include, InternalKeeps, runVars, AtInternal, Internal
  <2>2. CASE Note
    BY <1>1, <1>2, <1>3, <2>1, <2>2, NoteCounted
  <2>3. CASE firstError' = TRUE /\ Goto("report") /\ UNCHANGED sent
    BY <1>1, <1>2, <2>1, <2>3, StepEndsCounted
  <2> QED BY <2>1, <2>2, <2>3
<1> QED BY <1>4, <1>5, <1>6, <1>7, <1>8 DEF InternalStep

LEMMA ResultCounted == ASSUME FlowInv, CountInv, ResultStep PROVE CountInv'
<1>1. CASE RetryMissing \/ RetryDialog \/ GiveUp
  <2>1. /\ phase = "returned" /\ phase' \in {"ready", "failed"}
        /\ UNCHANGED <<list, cursor, first, outcome, sent, firstError, executed>>
    BY <1>1 DEF RetryMissing, RetryDialog, GiveUp, Goto, runVars, tallyVars, history
  <2> QED BY <2>1, MiddleCounted
<1>2. CASE Resume
  <2>1. /\ first' = cursor + 1 /\ cursor' = cursor + 1 /\ phase' = "top" /\ executed' = 0
        /\ UNCHANGED <<list, outcome, sent>> /\ phase = "failed" /\ cursor \in Nat
    BY <1>2 DEF Resume, Recoverable, history, FlowInv, FlowTypeOK, ListOK
  <2>2. Reached' = cursor /\ first'..Reached' = {}
    BY <2>1 DEF Reached
  <2>3. PlannedTo(Reached)' = {}
    BY <2>2 DEF PlannedTo
  <2>4. Counted'
    BY <2>1, <2>2, <2>3, FS_EmptySet DEF Counted
  <2> QED BY <2>1, <2>4 DEF CountInv
<1>3. CASE Bricked
  <2>1. phase' = "over" /\ outcome' = "bricked"
    BY <1>3 DEF Bricked, Goto
  <2> QED BY <2>1, OverCounted
<1>4. CASE ToolFailed \/ ToolWorked
  <2>1. /\ phase \in {"returned", "failed"} /\ phase' = "post"
        /\ UNCHANGED <<list, cursor, first, outcome, sent, firstError, executed>>
    BY <1>4 DEF ToolFailed, ToolWorked, Goto, runVars, tallyVars, history
  <2>2. cursor \in sent
    BY <2>1 DEF FlowInv, DispatchedWhileCalled
  <2> QED BY <2>1, <2>2, MiddleCounted
<1>5. CASE Suppressed
  <2>1. /\ phase = "failed" /\ cursor \in sent /\ UNCHANGED <<list, cursor, first, sent>>
        /\ cursor <= Len(list)
    BY <1>5, ReadyFacts DEF Suppressed, Goto, history, FlowInv, DispatchedWhileCalled
  <2>2. \/ phase' = "post" /\ UNCHANGED <<firstError, executed, outcome>>
        \/ phase' = "over" /\ outcome' = "raised"
        \/ firstError' = TRUE /\ UNCHANGED outcome /\ phase' = "report"
        \/ firstError' = TRUE /\ UNCHANGED outcome /\ phase' = "post"
    BY <1>5 DEF Suppressed, Goto
  <2>3. CASE phase' = "post" /\ UNCHANGED outcome
             /\ (firstError' = TRUE \/ UNCHANGED <<firstError, executed>>)
    BY <2>1, <2>3, MiddleCounted
  <2>4. CASE phase' = "over" /\ outcome' = "raised"
    BY <2>4, OverCounted
  <2>5. CASE firstError' = TRUE /\ UNCHANGED outcome /\ phase' = "report"
    BY <2>1, <2>5, UnchangedKept, StepEndsCounted DEF Goto
  <2> QED BY <2>2, <2>3, <2>4, <2>5
<1>6. CASE DownloadMissing
  <2>1. /\ phase = "returned" /\ cursor \in sent /\ firstError' = TRUE
        /\ UNCHANGED <<list, cursor, first, sent, outcome>> /\ cursor <= Len(list)
        /\ phase' \in {"report", "post"}
    BY <1>6, ReadyFacts DEF DownloadMissing, Goto, runVars, FlowInv, DispatchedWhileCalled
  <2>2. CASE phase' = "post"
    BY <2>1, <2>2, MiddleCounted
  <2>3. CASE phase' = "report"
    BY <2>1, <2>3, UnchangedKept, StepEndsCounted DEF Goto
  <2> QED BY <2>1, <2>2, <2>3
<1>7. CASE AfterStep
  <2>1. /\ phase = "post" /\ cursor \in sent /\ UNCHANGED <<list, first, outcome>>
        /\ cursor <= Len(list) /\ list[cursor].ends = NoKey
        /\ \/ Note
           \/ firstError' = TRUE /\ (NextStep \/ Goto("report")) /\ UNCHANGED sent
    BY <1>7, ReadyFacts DEF AfterStep, runVars, CountInv
  <2>2. CASE Note
    BY <2>1, <2>2, UnchangedKept, NoteCounted
  <2>3. CASE firstError' = TRUE /\ (NextStep \/ Goto("report")) /\ UNCHANGED sent
    BY <2>1, <2>3, UnchangedKept, StepEndsCounted
  <2> QED BY <2>1, <2>2, <2>3
<1> QED BY <1>1, <1>2, <1>3, <1>4, <1>5, <1>6, <1>7 DEF ResultStep

LEMMA ToolCounted ==
  ASSUME FlowInv, CountInv, Dispatch \/ Strike \/ Return \/ Fire \/ PageDialog
  PROVE  CountInv'
<1>1. CASE Dispatch \/ Strike \/ Return \/ Fire
  <2>1. /\ phase \in {"ready", "called"} /\ phase' \in {"called", "returned"}
        /\ UNCHANGED <<list, cursor, first, outcome, firstError, executed>>
        /\ sent \subseteq sent'
    BY <1>1 DEF Dispatch, Strike, Return, Fire, Goto, runVars, tallyVars, history
  <2> QED BY <2>1, MiddleCounted
<1>2. CASE PageDialog
  <2>1. /\ phase # "over" /\ phase' = phase
        /\ UNCHANGED <<list, cursor, first, outcome, firstError, executed, sent>>
    BY <1>2 DEF PageDialog, runVars, tallyVars, history
  <2>2. phase' = "post" => cursor \in sent
    BY <2>1 DEF CountInv
  <2> QED BY <2>1, <2>2, MiddleCounted
<1> QED BY <1>1, <1>2

LEMMA SameCounted ==
  ASSUME CountInv, UNCHANGED <<list, cursor, first, phase, outcome, firstError, executed, sent>>
  PROVE  CountInv'
  BY DEF CountInv, Counted, AllSent, Reached, PlannedTo, ToolStep, NoOptionalMacro, StepAt

\* The report counts: as many entries as steps, and none behind the last one.
LEMMA ReportCounted == ASSUME FlowInv, CountInv, Report PROVE CountInv'
<1>1. /\ phase' = "over" /\ outcome' = (IF Completed THEN "ok" ELSE "errors")
      /\ UNCHANGED <<list, cursor, first, sent>>
      /\ phase \in {"report", "top"} /\ (phase = "top" => cursor > Len(list))
  BY DEF Report, Goto, history
<1>2. /\ cursor \in Nat \ {0} /\ first \in 1..cursor /\ Len(list) \in Nat
      /\ cursor <= Len(list) + 1 /\ (phase = "report" => cursor <= Len(list))
  <2>1. phase = "report" => cursor <= Len(list)
    BY DEF CountInv
  <2> QED BY <2>1 DEF FlowInv, FlowTypeOK, ListOK
<1>3. NoOptionalMacro' = NoOptionalMacro /\ AllSent' = AllSent
  BY <1>1 DEF NoOptionalMacro, AllSent, ToolStep, StepAt
<1>4. ASSUME Completed, NoOptionalMacro PROVE AllSent
  <2>1. executed = Cardinality(Planned) /\ Counted
    BY <1>1, <1>4 DEF Completed, CountInv
  <2>2. Reached \in Int /\ Reached <= Len(list)
    BY <1>1, <1>2 DEF Reached
  <2>3. Planned = PlannedTo(Len(list))
    BY DEF Planned, PlannedTo
  <2>4. IsFiniteSet(Planned) /\ Cardinality(Planned) \in Nat
    BY <1>2, <2>3, PlannedFinite
  <2>5. PlannedTo(Reached) \in SUBSET Planned
    BY <1>2, <2>2 DEF PlannedTo, Planned
  <2>6. Cardinality(PlannedTo(Reached)) <= Cardinality(Planned)
        /\ (Cardinality(Planned) = Cardinality(PlannedTo(Reached)) => Planned = PlannedTo(Reached))
    BY <2>4, <2>5, FS_Subset
  <2>7. Cardinality(PlannedTo(Reached)) \in Nat
    BY <1>2, <2>2, PlannedFinite
  <2>8. Planned = PlannedTo(Reached)
    BY <1>4, <2>1, <2>4, <2>6, <2>7 DEF Counted
  <2> SUFFICES ASSUME NEW k \in first..Len(list), ToolStep(k) PROVE k \in sent
    BY DEF AllSent
  <2>9. k \in Planned
    BY DEF ToolStep, Planned
  <2>10. k \in first..Reached
    BY <2>8, <2>9 DEF PlannedTo
  <2> QED BY <2>1, <2>10 DEF Counted
<1> QED BY <1>1, <1>3, <1>4 DEF CountInv

LEMMA CountNext == FlowInv /\ CountInv /\ [FlowNext]_flowVars => CountInv'
<1> SUFFICES ASSUME FlowInv, CountInv, [FlowNext]_flowVars PROVE CountInv'
  OBVIOUS
<1>1. CASE UNCHANGED flowVars
  BY <1>1, SameCounted DEF flowVars, tallyVars, history
<1>2. CASE Abort
  BY <1>2, SameCounted DEF Abort, runVars, tallyVars, history
<1>3. CASE Refuse
  <2>1. phase' = "over" /\ outcome' = "refused"
    BY <1>3 DEF Refuse, Goto
  <2> QED BY <2>1, OverCounted
<1> QED
  BY <1>1, <1>2, <1>3, StartCounted, ReportCounted, BeforeCounted, InternalCounted,
     ResultCounted, ToolCounted DEF FlowNext

\* A run that says ok has sent every tool step from where it began or was
\* resumed, whatever was put into the list, failed or was tried again.
THEOREM OkCorrect == FlowSpec => []OkMeansAllSent
<1>1. CountInv => OkMeansAllSent
  BY DEF CountInv, OkMeansAllSent, NoOptionalMacro, AllSent, ToolStep
<1> QED BY <1>1, FlowInitCounted, CountNext, FlowInvAlways, PTL DEF FlowSpec

=============================================================================
