----------------------------- MODULE PageInput -----------------------------
(***************************************************************************)
(* Input tools: click, type, mouse, form and scroll                        *)
(* (server/handlers/unified.py, tools/smart, tools/input, tools/forms.py). *)
(*                                                                         *)
(* A handler calls a tool; most tools are retried (with_retry) and each    *)
(* attempt looks its element up and then sends its commands.  A click by   *)
(* text falls through a ladder of tools.  Commands are carried out by the  *)
(* page in the order they were handed over; the caller may stop waiting    *)
(* for one (timed out) that the page still carries out later.              *)
(***************************************************************************)
EXTENDS Naturals, Sequences, FiniteSets

CONSTANTS
  InputCalls,   \* calls of the handlers, see InputCall
  TextChunks    \* batches of characters a text is cut into (250 each)

\* Commands: "look" finds the element (an evaluation or a query), "read" only
\* reads, "set" changes a field by an evaluation, "submit" fills and submits.
Command == {"look", "press", "release", "move", "insert", "chars", "down", "up",
            "set", "submit", "read"}

\* Mutant: the button is not released.
PressOnly == <<"press">>

Press == <<"press", "release">>
Drag == <<"press", "move", "release">>
Key == <<"down", "up">>
Find == <<"look">>

\* What a tool does: how often it is tried, whether it turns a failure of its
\* evaluations into a SmartToolError, the batches of commands of an attempt.
Does(tries, wraps, sends) == [tries |-> tries, wraps |-> wraps, sends |-> sends]

ClickAccessibility == Does(2, TRUE,  <<Find, Press>>)
ClickElement       == Does(3, FALSE, <<Find, Press>>)
ClickBackendNode   == Does(2, TRUE,  <<Find, Press>>)
DomActionClick     == Does(1, FALSE, <<Find, Press>>)
ClickAtPixel       == Does(1, FALSE, <<Press>>)
TypeBackendNode    == Does(2, TRUE,  <<Find, <<"insert">>>>)
DomActionType      == Does(1, FALSE, <<Find, <<"insert">>, <<"read">>>>)
TypeText           == Does(1, FALSE, <<<<"insert">>>>)
PressKey           == Does(1, FALSE, <<Key>>)
MoveMouseTo        == Does(1, FALSE, <<<<"move">>>>)
HoverElement       == Does(1, FALSE, <<Find, <<"move">>>>)
HoverBackendNode   == Does(2, TRUE,  <<Find, <<"move">>>>)
DragFromTo         == Does(1, FALSE, <<Drag>>)
DragBackendNodes   == Does(2, TRUE,  <<Find, Drag>>)
\* scroll() reads the position afterwards.
ScrollPage         == Does(1, FALSE, <<<<"move">>, <<"read">>>>)
FillForm           == Does(2, FALSE, <<<<"submit">>>>)
FocusField         == Does(2, FALSE, <<<<"set">>>>)
SelectOption       == Does(1, TRUE,  <<<<"set">>>>)

Tool ==
  [ax |-> ClickAccessibility, text |-> ClickElement, fuzzy |-> ClickBackendNode,
   node |-> ClickBackendNode, selector |-> DomActionClick, xy |-> ClickAtPixel,
   typeNode |-> TypeBackendNode, typeSelector |-> DomActionType, typeFocused |-> TypeText,
   key |-> PressKey, enter |-> PressKey,    \* enter: pressed by handle_type after typing
   move |-> MoveMouseTo, hover |-> HoverElement, hoverNode |-> HoverBackendNode,
   drag |-> DragFromTo, dragNode |-> DragBackendNodes, scroll |-> ScrollPage,
   fill |-> FillForm, focus |-> FocusField, change |-> SelectOption]

ToolNames == DOMAIN Tool
\* What the handlers call: handle_click, handle_type (with text, with a key),
\* handle_mouse, handle_form and handle_scroll.
ClickTools == {"ax", "text", "fuzzy", "node", "selector", "xy"}
TypeTools == {"typeNode", "typeSelector", "typeFocused"}
KeyTools == {"key", "enter"}
MouseTools == {"move", "hover", "hoverNode", "drag", "dragNode"}
FormTools == {"fill", "focus", "change"}

\* auto: strategy "auto" with a role, which falls back from the accessibility
\* tree to the text; submit: Enter is pressed after typing.
CallTools ==
  (ClickTools \cup TypeTools \cup KeyTools \cup MouseTools \cup FormTools \cup {"scroll"})
    \ {"fuzzy", "enter"}
InputCall ==
  {c \in [tool : CallTools, auto : BOOLEAN, submit : BOOLEAN] :
     (c.auto => c.tool = "ax") /\ (c.submit => c.tool \in TypeTools)}

ASSUME InputAssumption == InputCalls \subseteq InputCall /\ TextChunks \in Nat \ {0}

VARIABLES
  link,       \* "direct" (one command at a time) or "extension" (a batch at a time)
  call,       \* the call being served, NoCall before it
  tool,       \* the tool at work
  attempt,    \* its attempt, from 1
  todo,       \* batches this attempt has still to send
  wire,       \* commands handed over and not yet carried out; mine: still waited for
  mainSent,   \* this attempt has handed over the command the call is for
  doubts,     \* history: failed attempts that had done so
  done,       \* page: how often each command was carried out
  held,       \* page: the button or key that is down
  outcome     \* "none", "ok" or "error"

inputVars == <<link, call, tool, attempt, todo, wire, mainSent, doubts, done, held, outcome>>

NoCall == [tool |-> "none", auto |-> FALSE, submit |-> FALSE]

\* The commands a call is made for.
Main ==
  CASE call.tool \in ClickTools \cup {"drag", "dragNode"} -> {"press"}
    [] call.tool \in TypeTools -> {"insert", "chars"}
    [] call.tool = "key"    -> {"down"}
    [] call.tool = "fill"   -> {"submit"}
    [] call.tool \in {"focus", "change"} -> {"set"}
    [] OTHER -> {"move"}

\* type_backend_node presses Enter within the attempt.
SendsOf(t, c) ==
  Tool[t].sends \o (IF t = "typeNode" /\ c.submit THEN <<Key>> ELSE <<>>)

InputInit ==
  /\ link \in {"direct", "extension"}
  /\ call = NoCall /\ tool = "none" /\ attempt = 0 /\ todo = <<>> /\ wire = <<>>
  /\ mainSent = FALSE /\ doubts = 0
  /\ done = [c \in Command |-> 0] /\ held = {} /\ outcome = "none"

Awaiting == \E i \in DOMAIN wire : wire[i].mine
Working == tool # "none" /\ outcome = "none"

\* Attempt n of tool t begins.
Start(t, n) == tool' = t /\ attempt' = n /\ todo' = SendsOf(t, call)

\* The ladder of handle_click: the tools that may follow the one at work when its
\* last attempt failed by e, which is "missing" (a reason that says the element
\* was not found), "smart" (another SmartToolError) or "http".
FallBacks(e) ==
  CASE tool = "ax" /\ call.auto /\ e # "http" -> {"text"}
    [] tool = "text" /\ e = "missing" -> {"fuzzy", "none"}  \* a clear winner, or none
    [] OTHER -> {"none"}

\* with_retry: an attempt failed.
Fail(e) ==
  /\ doubts' = doubts + (IF mainSent THEN 1 ELSE 0)
  /\ mainSent' = FALSE
  /\ \/ attempt < Tool[tool].tries /\ Start(tool, attempt + 1) /\ UNCHANGED outcome
     \/ /\ attempt = Tool[tool].tries
        /\ \E next \in FallBacks(e) :
             IF next = "none"
             THEN outcome' = "error" /\ todo' = <<>> /\ UNCHANGED <<tool, attempt>>
             ELSE Start(next, 1) /\ UNCHANGED outcome
  /\ UNCHANGED <<link, call>>

\* Mutant: the characters come last.
CharsLast(cmd, rest) ==
  IF cmd = "insert"
  THEN /\ todo' = rest \o [i \in 1..TextChunks |-> <<"chars">>]
       /\ doubts' = doubts + (IF mainSent THEN 1 ELSE 0) /\ mainSent' = FALSE
       /\ UNCHANGED <<link, call, tool, attempt, outcome>>
  ELSE Fail(IF Tool[tool].wraps /\ cmd \in {"look", "set"} THEN "smart" ELSE "http")

\* A command failed on the way.  type_text answers a failed insertText by
\* sending the characters.
Trouble(cmd, rest) ==
  IF cmd = "insert"
  THEN /\ todo' = [i \in 1..TextChunks |-> <<"chars">>] \o rest
       /\ doubts' = doubts + (IF mainSent THEN 1 ELSE 0) /\ mainSent' = FALSE
       /\ UNCHANGED <<link, call, tool, attempt, outcome>>
  ELSE Fail(IF Tool[tool].wraps /\ cmd \in {"look", "set"} THEN "smart" ELSE "http")

\* A handler is called and calls its first tool.
Called(c) ==
  /\ tool = "none"
  /\ call' = c /\ tool' = c.tool /\ attempt' = 1 /\ todo' = SendsOf(c.tool, c)
  /\ UNCHANGED <<link, wire, mainSent, doubts, done, held, outcome>>

\* No session for the attempt.
ConnectFails ==
  /\ Working /\ ~Awaiting /\ todo = SendsOf(tool, call)
  /\ Fail("smart")
  /\ UNCHANGED <<wire, done, held>>

HandOver ==
  /\ Working /\ ~Awaiting /\ todo # <<>>
  /\ LET batch == Head(todo)
         sent == IF link = "direct" THEN <<Head(batch)>> ELSE batch
         left == SubSeq(batch, Len(sent) + 1, Len(batch))
     IN /\ wire' = wire \o [i \in DOMAIN sent |-> [cmd |-> sent[i], mine |-> TRUE]]
        /\ todo' = (IF left = <<>> THEN <<>> ELSE <<left>>) \o Tail(todo)
        /\ mainSent' = (mainSent \/ \E i \in DOMAIN sent : sent[i] \in Main)
  /\ UNCHANGED <<link, call, tool, attempt, doubts, done, held, outcome>>

\* The send itself fails.
Refused ==
  /\ Working /\ ~Awaiting /\ todo # <<>>
  /\ Trouble(Head(Head(todo)), Tail(todo))
  /\ UNCHANGED <<wire, done, held>>

\* The effect of a command on the page.
Effect(cmd) ==
  /\ done' = [done EXCEPT ![cmd] = @ + 1]
  /\ held' = CASE cmd = "press"   -> held \cup {"button"}
               [] cmd = "release" -> held \ {"button"}
               [] cmd = "down"    -> held \cup {"key"}
               [] cmd = "up"      -> held \ {"key"}
               [] OTHER           -> held

\* The page carries out the oldest command and answers; nobody may be waiting.
CarryOut ==
  /\ wire # <<>>
  /\ Effect(Head(wire).cmd) /\ wire' = Tail(wire)
  /\ UNCHANGED <<link, call, tool, attempt, todo, mainSent, doubts, outcome>>

\* An answer that the element is not there (or no answer value).
NotFound ==
  /\ Working /\ wire # <<>> /\ Head(wire).mine /\ Head(wire).cmd \in {"look", "submit"}
  /\ wire' = <<>>
  /\ Fail("missing")
  /\ UNCHANGED <<done, held>>

\* An error answer: the command, and the rest of its batch, is not carried out,
\* except that a submit may have navigated away first.
Rejected ==
  /\ Working /\ wire # <<>> /\ Head(wire).mine
  /\ wire' = <<>>
  /\ \/ UNCHANGED <<done, held>>
     \/ Head(wire).cmd = "submit" /\ Effect("submit")
  /\ Trouble(Head(wire).cmd, todo)

\* Mutant: the command is sent once more.
SentAgain ==
  /\ Working /\ Awaiting
  /\ wire' = [i \in DOMAIN wire |-> [wire[i] EXCEPT !.mine = FALSE]]
  /\ todo' = <<<<wire[Len(wire)].cmd>>>> \o todo
  /\ UNCHANGED <<link, call, tool, attempt, mainSent, doubts, done, held, outcome>>

\* The answer does not come in time; what was handed over stays on its way.
TimesOut ==
  /\ Working /\ Awaiting
  /\ wire' = [i \in DOMAIN wire |-> [wire[i] EXCEPT !.mine = FALSE]]
  /\ Trouble(wire[Len(wire)].cmd, todo)
  /\ UNCHANGED <<done, held>>

\* The connection breaks with everything on it.
Breaks ==
  /\ Working /\ wire # <<>>
  /\ wire' = <<>>
  /\ IF Awaiting THEN Trouble(wire[Len(wire)].cmd, todo)
     ELSE UNCHANGED <<link, call, tool, attempt, todo, mainSent, doubts, outcome>>
  /\ UNCHANGED <<done, held>>

\* The tool returns; handle_type may still press Enter.
Finish ==
  /\ Working /\ ~Awaiting /\ todo = <<>>
  /\ IF tool \in {"typeSelector", "typeFocused"} /\ call.submit
     THEN Start("enter", 1) /\ UNCHANGED outcome
     ELSE outcome' = "ok" /\ UNCHANGED <<tool, attempt, todo>>
  /\ UNCHANGED <<link, call, wire, mainSent, doubts, done, held>>

InputStep ==
  \/ ConnectFails \/ HandOver \/ Refused \/ CarryOut \/ NotFound \/ Rejected
  \/ TimesOut \/ Breaks \/ Finish

InputNext == (\E c \in InputCalls : Called(c)) \/ InputStep

InputSpec == InputInit /\ [][InputNext]_inputVars

-----------------------------------------------------------------------------
InputTypeOK ==
  /\ link \in {"direct", "extension"}
  /\ call \in InputCalls \cup {NoCall} /\ tool \in ToolNames \cup {"none"}
  /\ attempt \in 0..3 /\ doubts \in Nat /\ mainSent \in BOOLEAN
  /\ todo \in Seq(Seq(Command)) /\ wire \in Seq([cmd : Command, mine : BOOLEAN])
  /\ done \in [Command -> Nat] /\ held \subseteq {"button", "key"}
  /\ outcome \in {"none", "ok", "error"}

TextIn == done["insert"] >= 1 \/ done["chars"] >= TextChunks

\* However a call was retried and fell back from tool to tool: if no attempt
\* failed after it had handed over what the call is for, a call that reports
\* success has done it once, and one that reports an error has not done it.
OnceUnlessInDoubt ==
  doubts = 0 =>
    /\ outcome = "error" => \A c \in Main : done[c] = 0
    /\ outcome = "ok" =>
         IF Main = {"insert", "chars"}
         THEN <<done["insert"], done["chars"]>> \in {<<1, 0>>, <<0, TextChunks>>}
         ELSE \A c \in Main : done[c] = 1

\* A call that reports success has done what it is for, and has let go of the
\* button and of the key, whatever was left over from attempts that failed.
\* Enter is pressed only after the whole text, whichever way it was typed.
OkMeansDone ==
  /\ call.submit /\ done["down"] > 0 => TextIn
  /\ outcome = "ok" =>
    /\ IF Main = {"insert", "chars"} THEN TextIn ELSE \A c \in Main : done[c] > 0
    /\ held = {}

\* The comment above the last fallback of handle_click (unified.py:257): it is
\* used only when the click wasn't executed.
FallbackOnlyUnclicked ==
  [][tool = "text" /\ tool' = "fuzzy" =>
       done["press"] = 0 /\ \A i \in DOMAIN wire : wire[i].cmd # "press"]_inputVars
=============================================================================
