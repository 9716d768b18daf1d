------------------------------- MODULE MCFlow -------------------------------
(* Small instances of Flow for TLC.                                        *)
EXTENDS Flow, TLC

NoStep ==
  [tool |-> "other", optional |-> FALSE, irreversible |-> FALSE, lookup |-> FALSE,
   download |-> "no", yes |-> <<>>, no |-> <<>>, until |-> FALSE, iters |-> 0, key |-> NoKey]

Is(t) == [NoStep EXCEPT !.tool = t]

\* "pay" is an irreversible click; "outer" includes the runbook of "book", which
\* includes itself.
TheSteps ==
  "click"  :> Is("click") @@
  "pay"    :> [Is("click") EXCEPT !.irreversible = TRUE] @@
  "read"   :> [Is("js") EXCEPT !.lookup = TRUE] @@
  "try"    :> [Is("other") EXCEPT !.optional = TRUE] @@
  "fetch"  :> [Is("other") EXCEPT !.download = "required"] @@
  "dialog" :> Is("dialog") @@
  "nested" :> Is("flow") @@
  "check"  :> Is("assert") @@
  "if"     :> [Is("when") EXCEPT !.yes = <<"pay">>] @@
  "loop"   :> [Is("repeat") EXCEPT !.yes = <<"try">>, !.iters = 2, !.until = TRUE] @@
  "noloop" :> [Is("repeat") EXCEPT !.optional = TRUE] @@
  "book"   :> [Is("macro") EXCEPT !.key = "k"] @@
  "pages"  :> [Is("macro") EXCEPT !.key = "l"]

TheStepNames == DOMAIN TheSteps
TheRunbook == "k" :> <<"book", "click">> @@ "l" :> <<"book">>

Opts(stop, auto, recover, confirm, record, budget) ==
  [stop |-> stop, auto |-> auto, recover |-> recover, confirm |-> confirm,
   record |-> record, budget |-> budget]

SomePrograms ==
  {<<"click", "pay">>, <<"if", "click">>, <<"read", "check", "pay">>, <<"loop", "click">>,
   <<"pages", "pay">>, <<"book", "pay">>, <<"noloop", "try">>, <<"fetch", "dialog", "try">>,
   <<"nested", "click">>}
SomeOptions ==
  {Opts(stop, auto, recover, TRUE, "no", 1) :
     stop, recover \in BOOLEAN, auto \in {"off", "dismiss"}}
  \cup {Opts(TRUE, "dismiss", TRUE, FALSE, "success", 1)}

OneOption == {Opts(TRUE, "dismiss", FALSE, FALSE, "success", 0)}
TwoClicks == {<<"click", "click">>}
ABranch == {<<"if", "click">>}
AnAlert == {<<"click">>}
=============================================================================
