-------------------------- MODULE PageInputProofs --------------------------
(* Proofs about PageInput, for all calls and lengths of text: what a call  *)
(* is for is done once (first part: each command is sent, is to be sent or *)
(* was done as often as the attempts so far account for), and done in full *)
(* when the call reports success (second part: it is still to be sent, or  *)
(* awaited, or done, and what is pressed will be let go).                  *)
EXTENDS PageInput, SequenceTheorems, TLAPS

-----------------------------------------------------------------------------
(* The first invariant.                                                    *)

\* The command a call is for; characters stand in for a text that was refused.
LeadOf(c) ==
  CASE c.tool \in ClickTools \cup {"drag", "dragNode"} -> "press"
    [] c.tool \in TypeTools -> "insert"
    [] c.tool = "key"    -> "down"
    [] c.tool = "fill"   -> "submit"
    [] c.tool \in {"focus", "change"} -> "set"
    [] OTHER -> "move"
Lead == LeadOf(call)

Texts == {"insert", "chars"}

\* The tools that may be at work for a call.
SuitsFor(t, c) ==
  \/ t = c.tool /\ t \in CallTools
  \/ c.tool \in {"ax", "text"} /\ t \in {"text", "fuzzy"}
  \/ c.tool \in {"typeSelector", "typeFocused"} /\ c.submit /\ t = "enter"
Suits(t) == SuitsFor(t, call)

Filled(batches) == \A j \in DOMAIN batches : batches[j] # <<>>

\* A command among batches: nowhere, at one place that begins a batch, and the
\* characters in the first k batches.
NoneIn(batches, c) ==
  \A j \in DOMAIN batches : \A i \in DOMAIN batches[j] : batches[j][i] # c
BeginsOnly(batches, c, j) ==
  /\ j \in DOMAIN batches /\ batches[j][1] = c
  /\ \A m \in DOMAIN batches : \A i \in DOMAIN batches[m] :
       batches[m][i] = c => m = j /\ i = 1
OneIn(batches, c) == \E j \in DOMAIN batches : BeginsOnly(batches, c, j)
CharsIn(batches, k) ==
  /\ k <= Len(batches)
  /\ \A j \in DOMAIN batches :
       /\ j <= k => batches[j] = <<"chars">>
       /\ j > k => \A i \in DOMAIN batches[j] : batches[j][i] # "chars"

\* A command on the wire: nowhere, and at one place, waited for.
NoneOut(c) == \A i \in DOMAIN wire : wire[i].cmd # c
OneOut(c) ==
  \E i \in DOMAIN wire :
    /\ wire[i] = [cmd |-> c, mine |-> TRUE]
    /\ \A m \in DOMAIN wire : wire[m].cmd = c => m = i

Unsent(c) == done[c] = 0 /\ NoneOut(c)
Sent(c, n) == (done[c] = n /\ NoneOut(c)) \/ (done[c] + 1 = n /\ OneOut(c))

\* A call of which no attempt failed in doubt: either the command it is for was
\* sent once or is to be sent once, ...
Straight ==
  /\ NoneIn(todo, "chars") /\ Unsent("chars")
  /\ mainSent = TRUE => NoneIn(todo, Lead) /\ Sent(Lead, 1)
  /\ mainSent = FALSE => Unsent(Lead) /\ tool # "enter" /\ (outcome = "none" => OneIn(todo, Lead))

\* ... or its text was refused, and k batches of its characters are left.
InChars(k) ==
  /\ NoneIn(todo, "insert") /\ Unsent("insert") /\ CharsIn(todo, k)
  /\ IF mainSent = TRUE THEN k < TextChunks /\ Sent("chars", TextChunks - k)
     ELSE k = TextChunks /\ Unsent("chars") /\ tool # "enter"

OnTrack ==
  /\ \/ Straight
     \/ call.tool \in TypeTools /\ \E k \in 0..TextChunks : InChars(k)
  /\ call.tool \notin TypeTools => NoneIn(todo, "insert") /\ NoneOut("insert")
  /\ outcome = "error" => mainSent = FALSE /\ todo = <<>>
  /\ outcome = "ok" => mainSent = TRUE /\ todo = <<>> /\ ~Awaiting

InputFits ==
  /\ InputTypeOK
  /\ Filled(todo)
  /\ tool # "none" => Suits(tool)
  /\ tool = "none" =>
       /\ wire = <<>> /\ todo = <<>> /\ outcome = "none" /\ mainSent = FALSE
       /\ done = [c \in Command |-> 0] /\ doubts = 0 /\ held = {}

InputInv == InputFits /\ (doubts = 0 /\ tool # "none" => OnTrack)

-----------------------------------------------------------------------------
(* What the tools send, and what becomes of it.                            *)

Batches == Seq(Seq(Command))
OnWire == [cmd : Command, mine : BOOLEAN]

\* What the tools send.
LEMMA ToolSends ==
  ASSUME NEW t \in ToolNames
  PROVE  /\ Tool[t].sends \in
           {<<Find, Press>>, <<Press>>, <<Find, <<"insert">>>>,
            <<Find, <<"insert">>, <<"read">>>>, <<<<"insert">>>>, <<Key>>, <<<<"move">>>>,
            <<Find, <<"move">>>>, <<Drag>>, <<Find, Drag>>, <<<<"move">>, <<"read">>>>,
            <<<<"submit">>>>, <<<<"set">>>>}
         /\ t = "typeNode" => Tool[t].sends = <<Find, <<"insert">>>>
<1> USE DEF Does
<1>1. CASE t \in ClickTools
  BY <1>1 DEF Tool, ClickTools, ClickAccessibility, ClickElement, ClickBackendNode,
              DomActionClick, ClickAtPixel
<1>2. CASE t \in TypeTools \cup KeyTools
  BY <1>2 DEF Tool, TypeTools, KeyTools, TypeBackendNode, DomActionType, TypeText, PressKey
<1>3. CASE t \in MouseTools
  BY <1>3 DEF Tool, MouseTools, MoveMouseTo, HoverElement, HoverBackendNode, DragFromTo,
              DragBackendNodes
<1>4. CASE t \in FormTools \cup {"scroll"}
  BY <1>4 DEF Tool, FormTools, ScrollPage, FillForm, FocusField, SelectOption
<1>5. t \in ClickTools \cup TypeTools \cup KeyTools \cup MouseTools \cup FormTools \cup {"scroll"}
  BY DEF ToolNames, Tool, ClickTools, TypeTools, KeyTools, MouseTools, FormTools
<1> QED BY <1>1, <1>2, <1>3, <1>4, <1>5

LEMMA Tuples ==
  ASSUME NEW S, NEW a \in S, NEW b \in S, NEW c \in S
  PROVE  /\ <<a>> \in Seq(S) /\ <<a, b>> \in Seq(S) /\ <<a, b, c>> \in Seq(S)
         /\ <<a, b>> \o <<c>> = <<a, b, c>>
<1>1. <<a>> \in Seq(S) /\ <<a, b>> \in Seq(S) /\ <<a, b, c>> \in Seq(S) /\ <<c>> \in Seq(S)
  OBVIOUS
<1>2. /\ Len(<<a, b>> \o <<c>>) = 3 /\ <<a, b>> \o <<c>> \in Seq(S)
      /\ (<<a, b>> \o <<c>>)[1] = a /\ (<<a, b>> \o <<c>>)[2] = b
      /\ (<<a, b>> \o <<c>>)[3] = c
  BY <1>1, ConcatProperties
<1>3. /\ Len(<<a, b, c>>) = 3
      /\ <<a, b, c>>[1] = a /\ <<a, b, c>>[2] = b /\ <<a, b, c>>[3] = c
  OBVIOUS
<1>4. \A i \in 1..3 : i = 1 \/ i = 2 \/ i = 3
  OBVIOUS
<1>5. <<a, b>> \o <<c>> = <<a, b, c>>
  BY <1>1, <1>2, <1>3, <1>4, SeqEqual
<1> QED BY <1>1, <1>5

LEMMA SomeBatches ==
  /\ Find \in Seq(Command) /\ Press \in Seq(Command) /\ Drag \in Seq(Command)
  /\ Key \in Seq(Command)
  /\ \A c \in Command : <<c>> \in Seq(Command)
<1>1. \A c \in Command : <<c>> \in Seq(Command)
  OBVIOUS
<1>2. {"look", "press", "release", "move", "down", "up"} \subseteq Command
  BY DEF Command
<1>3. Find \in Seq(Command) /\ Press \in Seq(Command) /\ Key \in Seq(Command)
  BY <1>2, Tuples DEF Find, Press, Key
<1>4. Drag \in Seq(Command)
  BY <1>2, Tuples DEF Drag
<1> QED BY <1>1, <1>3, <1>4

LEMMA ShapesAreBatches ==
  \A s \in {<<Find, Press>>, <<Press>>, <<Find, <<"insert">>>>, <<Find, <<"insert">>, Key>>,
            <<Find, <<"insert">>, <<"read">>>>, <<<<"insert">>>>, <<Key>>, <<<<"move">>>>,
            <<Find, <<"move">>>>, <<Drag>>, <<Find, Drag>>, <<<<"move">>, <<"read">>>>,
            <<<<"submit">>>>, <<<<"set">>>>} : s \in Batches
<1>1. \A a, b, c \in Seq(Command) :
        <<a>> \in Batches /\ <<a, b>> \in Batches /\ <<a, b, c>> \in Batches
  BY Tuples DEF Batches
<1>2. /\ <<"insert">> \in Seq(Command) /\ <<"read">> \in Seq(Command)
      /\ <<"move">> \in Seq(Command) /\ <<"submit">> \in Seq(Command)
      /\ <<"set">> \in Seq(Command)
  BY SomeBatches DEF Command
<1>3. \A s \in {<<Press>>, <<<<"insert">>>>, <<Key>>, <<<<"move">>>>, <<Drag>>, <<<<"submit">>>>,
               <<<<"set">>>>} : s \in Batches
  BY <1>1, <1>2, SomeBatches
<1>4. \A s \in {<<Find, Press>>, <<Find, <<"insert">>>>, <<Find, <<"move">>>>, <<Find, Drag>>,
               <<<<"move">>, <<"read">>>>} : s \in Batches
  BY <1>1, <1>2, SomeBatches
<1>5. \A s \in {<<Find, <<"insert">>, Key>>, <<Find, <<"insert">>, <<"read">>>>} : s \in Batches
  BY <1>1, <1>2, SomeBatches
<1> QED BY ONLY <1>3, <1>4, <1>5, ZenonT(60)

LEMMA Emptied ==
  ASSUME NEW t \in ToolNames, NEW c, t # "typeNode" \/ ~c.submit
  PROVE  SendsOf(t, c) = Tool[t].sends
<1>1. SendsOf(t, c) = Tool[t].sends \o << >>
  BY DEF SendsOf
<1>2. Tool[t].sends \in Batches
  BY ToolSends, ShapesAreBatches
<1> QED BY <1>1, <1>2, ConcatEmptySeq DEF Batches

LEMMA SuitsTool ==
  ASSUME NEW c, NEW t, SuitsFor(t, c)
  PROVE  t \in ToolNames
BY DEF SuitsFor, CallTools, ToolNames, Tool, ClickTools, TypeTools, KeyTools, MouseTools, FormTools

\* What the tools that suit a call send.
LEMMA Shapes ==
  ASSUME NEW c \in InputCall, NEW t, SuitsFor(t, c)
  PROVE  /\ LeadOf(c) = "press" => SendsOf(t, c) \in
              {<<Find, Press>>, <<Press>>, <<Drag>>, <<Find, Drag>>}
         /\ LeadOf(c) = "insert" /\ t # "enter" => SendsOf(t, c) \in
              {<<Find, <<"insert">>>>, <<Find, <<"insert">>, Key>>,
               <<Find, <<"insert">>, <<"read">>>>, <<<<"insert">>>>}
         /\ LeadOf(c) = "down" \/ t = "enter" => SendsOf(t, c) = <<Key>>
         /\ LeadOf(c) = "submit" => SendsOf(t, c) = <<<<"submit">>>>
         /\ LeadOf(c) = "set" => SendsOf(t, c) = <<<<"set">>>>
         /\ LeadOf(c) = "move" => SendsOf(t, c) \in
              {<<<<"move">>>>, <<Find, <<"move">>>>, <<<<"move">>, <<"read">>>>}
         /\ LeadOf(c) = "insert" <=> c.tool \in TypeTools
         /\ LeadOf(c) \in {"press", "insert", "down", "submit", "set", "move"}
<1> USE DEF Does
<1>0. t \in ToolNames /\ c.tool \in CallTools
  BY SuitsTool DEF InputCall
<1>1. CASE c.tool \in ClickTools
  <2>1. LeadOf(c) = "press" /\ t \in ClickTools /\ c.tool \notin TypeTools
    BY <1>1 DEF SuitsFor, LeadOf, ClickTools, TypeTools
  <2>2. Tool[t].sends \in {<<Find, Press>>, <<Press>>}
    BY <2>1 DEF Tool, ClickTools, ClickAccessibility, ClickElement, ClickBackendNode,
                DomActionClick, ClickAtPixel
  <2> QED BY <1>0, <2>1, <2>2, Emptied DEF ClickTools
<1>2. CASE c.tool \in TypeTools
  <2>1. LeadOf(c) = "insert" /\ (t # "enter" => t \in TypeTools) /\ "enter" \notin TypeTools
    BY <1>2 DEF SuitsFor, LeadOf, ClickTools, TypeTools
  <2>2. t \in TypeTools => Tool[t].sends \in {<<Find, <<"insert">>>>,
               <<Find, <<"insert">>, <<"read">>>>, <<<<"insert">>>>}
    BY <2>1 DEF Tool, TypeTools, TypeBackendNode, DomActionType, TypeText
  <2>3. t = "enter" => Tool[t].sends = <<Key>>
    BY DEF Tool, PressKey
  <2>4. t = "typeNode" /\ c.submit => SendsOf(t, c) = <<Find, <<"insert">>, Key>>
    <3>1. t = "typeNode" => Tool[t].sends = <<Find, <<"insert">>>>
      BY <1>0, ToolSends
    <3>2. t = "typeNode" /\ c.submit => SendsOf(t, c) = Tool[t].sends \o <<Key>>
      BY DEF SendsOf
    <3>3. <<"insert">> \in Seq(Command)
      BY SomeBatches DEF Command
    <3>4. <<Find, <<"insert">>>> \o <<Key>> = <<Find, <<"insert">>, Key>>
      BY <3>3, SomeBatches, Tuples, ZenonT(60)
    <3> QED BY <3>1, <3>2, <3>4
  <2> QED BY <1>0, <1>2, <2>1, <2>2, <2>3, <2>4, Emptied
<1>3. CASE c.tool \in {"drag", "dragNode"}
  <2>1. LeadOf(c) = "press" /\ t \in {"drag", "dragNode"} /\ c.tool \notin TypeTools
    BY <1>3 DEF SuitsFor, LeadOf, TypeTools
  <2>2. Tool[t].sends \in {<<Drag>>, <<Find, Drag>>}
    BY <2>1 DEF Tool, DragFromTo, DragBackendNodes
  <2> QED BY <1>0, <2>1, <2>2, Emptied
<1>4. CASE c.tool = "key"
  <2>1. LeadOf(c) = "down" /\ t = "key" /\ c.tool \notin TypeTools
    BY <1>4 DEF SuitsFor, LeadOf, TypeTools, ClickTools
  <2>2. Tool[t].sends = <<Key>>
    BY <2>1 DEF Tool, PressKey
  <2> QED BY <1>0, <2>1, <2>2, Emptied
<1>5. CASE c.tool = "fill"
  <2>1. LeadOf(c) = "submit" /\ t = "fill" /\ c.tool \notin TypeTools
    BY <1>5 DEF SuitsFor, LeadOf, TypeTools, ClickTools
  <2>2. Tool[t].sends = <<<<"submit">>>>
    BY <2>1 DEF Tool, FillForm
  <2> QED BY <1>0, <2>1, <2>2, Emptied
<1>6. CASE c.tool \in {"focus", "change"}
  <2>1. LeadOf(c) = "set" /\ t \in {"focus", "change"} /\ c.tool \notin TypeTools
    BY <1>6 DEF SuitsFor, LeadOf, TypeTools, ClickTools
  <2>2. Tool[t].sends = <<<<"set">>>>
    BY <2>1 DEF Tool, FocusField, SelectOption
  <2> QED BY <1>0, <2>1, <2>2, Emptied
<1>7. CASE c.tool \in {"move", "hover", "hoverNode", "scroll"}
  <2>1. /\ LeadOf(c) = "move" /\ t \in {"move", "hover", "hoverNode", "scroll"}
        /\ c.tool \notin TypeTools
    BY <1>7 DEF SuitsFor, LeadOf, TypeTools, ClickTools
  <2>2. Tool[t].sends \in {<<<<"move">>>>, <<Find, <<"move">>>>, <<<<"move">>, <<"read">>>>}
    BY <2>1 DEF Tool, MoveMouseTo, HoverElement, HoverBackendNode, ScrollPage
  <2> QED BY <1>0, <2>1, <2>2, Emptied
<1>8. \/ c.tool \in ClickTools \cup TypeTools \cup {"drag", "dragNode", "focus", "change"}
      \/ c.tool \in {"key", "fill", "move", "hover", "hoverNode", "scroll"}
  BY <1>0 DEF CallTools, ClickTools, TypeTools, KeyTools, MouseTools, FormTools
<1> QED BY <1>1, <1>2, <1>3, <1>4, <1>5, <1>6, <1>7, <1>8

LEMMA PlansFor ==
  ASSUME NEW c \in InputCall, NEW t, SuitsFor(t, c)
  PROVE  /\ SendsOf(t, c) \in Batches /\ Filled(SendsOf(t, c))
         /\ NoneIn(SendsOf(t, c), "chars")
         /\ c.tool \notin TypeTools \/ t = "enter" => NoneIn(SendsOf(t, c), "insert")
         /\ t # "enter" => OneIn(SendsOf(t, c), LeadOf(c))
<1> DEFINE s == SendsOf(t, c)
<1>0. s \in Batches
  BY Shapes, ShapesAreBatches
<1> USE DEF Find, Press, Drag, Key
<1>1. CASE LeadOf(c) = "press"
  <2>1. s \in {<<Find, Press>>, <<Find, Drag>>} => BeginsOnly(s, "press", 2)
    BY DEF BeginsOnly
  <2>2. s \in {<<Press>>, <<Drag>>} => BeginsOnly(s, "press", 1)
    BY DEF BeginsOnly
  <2>3. s \in {<<Find, Press>>, <<Press>>, <<Drag>>, <<Find, Drag>>}
    BY <1>1, Shapes
  <2>4. Filled(s) /\ NoneIn(s, "chars") /\ NoneIn(s, "insert")
    <3>1. Filled(s)
      BY <2>3 DEF Filled
    <3>2. NoneIn(s, "chars") /\ NoneIn(s, "insert")
      BY <2>3 DEF NoneIn
    <3> QED BY <3>1, <3>2
  <2>5. OneIn(s, "press")
    BY <2>1, <2>2, <2>3 DEF OneIn, BeginsOnly
  <2> QED BY <1>0, <1>1, <2>4, <2>5
<1>2. CASE LeadOf(c) = "insert" /\ t # "enter"
  <2>1. s \in {<<Find, <<"insert">>>>, <<Find, <<"insert">>, Key>>,
               <<Find, <<"insert">>, <<"read">>>>} => BeginsOnly(s, "insert", 2)
    BY DEF BeginsOnly
  <2>2. s = <<<<"insert">>>> => BeginsOnly(s, "insert", 1)
    BY DEF BeginsOnly
  <2>3. s \in {<<Find, <<"insert">>>>, <<Find, <<"insert">>, Key>>,
               <<Find, <<"insert">>, <<"read">>>>, <<<<"insert">>>>}
    BY <1>2, Shapes
  <2>4. Filled(s) /\ NoneIn(s, "chars")
    <3>1. Filled(s)
      BY <2>3 DEF Filled
    <3>2. NoneIn(s, "chars")
      BY <2>3 DEF NoneIn
    <3> QED BY <3>1, <3>2
  <2>5. OneIn(s, "insert")
    BY <2>1, <2>2, <2>3 DEF OneIn, BeginsOnly
  <2> QED BY <1>0, <1>2, <2>4, <2>5, Shapes
<1>3. CASE LeadOf(c) = "down" \/ t = "enter"
  <2>1. s = <<Key>>
    BY <1>3, Shapes
  <2>2. BeginsOnly(s, "down", 1)
    BY <2>1 DEF BeginsOnly
  <2>3. Filled(s) /\ NoneIn(s, "chars") /\ NoneIn(s, "insert")
    BY <2>1 DEF Filled, NoneIn
  <2> QED BY <1>0, <1>3, <2>2, <2>3 DEF OneIn, BeginsOnly
<1>4. CASE LeadOf(c) = "submit"
  <2>1. s = <<<<"submit">>>>
    BY <1>4, Shapes
  <2>2. BeginsOnly(s, "submit", 1)
    BY <2>1 DEF BeginsOnly
  <2>3. Filled(s) /\ NoneIn(s, "chars") /\ NoneIn(s, "insert")
    BY <2>1 DEF Filled, NoneIn
  <2> QED BY <1>0, <1>4, <2>2, <2>3 DEF OneIn, BeginsOnly
<1>5. CASE LeadOf(c) = "set"
  <2>1. s = <<<<"set">>>>
    BY <1>5, Shapes
  <2>2. BeginsOnly(s, "set", 1)
    BY <2>1 DEF BeginsOnly
  <2>3. Filled(s) /\ NoneIn(s, "chars") /\ NoneIn(s, "insert")
    BY <2>1 DEF Filled, NoneIn
  <2> QED BY <1>0, <1>5, <2>2, <2>3 DEF OneIn, BeginsOnly
<1>6. CASE LeadOf(c) = "move"
  <2>1. s = <<Find, <<"move">>>> => BeginsOnly(s, "move", 2)
    BY DEF BeginsOnly
  <2>2. s \in {<<<<"move">>>>, <<<<"move">>, <<"read">>>>} => BeginsOnly(s, "move", 1)
    BY DEF BeginsOnly
  <2>3. s \in {<<<<"move">>>>, <<Find, <<"move">>>>, <<<<"move">>, <<"read">>>>}
    BY <1>6, Shapes
  <2>4. Filled(s) /\ NoneIn(s, "chars") /\ NoneIn(s, "insert")
    <3>1. Filled(s)
      BY <2>3 DEF Filled
    <3>2. NoneIn(s, "chars") /\ NoneIn(s, "insert")
      BY <2>3 DEF NoneIn
    <3> QED BY <3>1, <3>2
  <2>5. OneIn(s, "move")
    BY <2>1, <2>2, <2>3 DEF OneIn, BeginsOnly
  <2> QED BY <1>0, <1>6, <2>4, <2>5
<1> QED BY <1>0, <1>1, <1>2, <1>3, <1>4, <1>5, <1>6, Shapes

LEMMA InputPlans ==
  ASSUME call \in InputCall, NEW t, Suits(t)
  PROVE  /\ SendsOf(t, call) \in Batches /\ Filled(SendsOf(t, call))
         /\ NoneIn(SendsOf(t, call), "chars")
         /\ (call.tool \notin TypeTools \/ t = "enter" => NoneIn(SendsOf(t, call), "insert"))
         /\ (t # "enter" => OneIn(SendsOf(t, call), Lead))
BY PlansFor DEF Suits, Lead

LEMMA ToolTries == \A t \in ToolNames : Tool[t].tries \in 1..3
<1> SUFFICES ASSUME NEW t \in ToolNames PROVE Tool[t].tries \in 1..3
  OBVIOUS
<1> USE DEF Does
<1>1. CASE t \in ClickTools
  BY <1>1 DEF Tool, ClickTools, ClickAccessibility, ClickElement, ClickBackendNode,
              DomActionClick, ClickAtPixel
<1>2. CASE t \in TypeTools \cup KeyTools
  BY <1>2 DEF Tool, TypeTools, KeyTools, TypeBackendNode, DomActionType, TypeText, PressKey
<1>3. CASE t \in MouseTools
  BY <1>3 DEF Tool, MouseTools, MoveMouseTo, HoverElement, HoverBackendNode, DragFromTo,
              DragBackendNodes
<1>4. CASE t \in FormTools \cup {"scroll"}
  BY <1>4 DEF Tool, FormTools, ScrollPage, FillForm, FocusField, SelectOption
<1>5. t \in ClickTools \cup TypeTools \cup KeyTools \cup MouseTools \cup FormTools \cup {"scroll"}
  BY DEF ToolNames, Tool, ClickTools, TypeTools, KeyTools, MouseTools, FormTools
<1> QED BY <1>1, <1>2, <1>3, <1>4, <1>5

LEMMA MainFacts ==
  ASSUME call \in InputCall
  PROVE  /\ Main = (IF call.tool \in TypeTools THEN Texts ELSE {Lead})
         /\ Lead = "insert" <=> call.tool \in TypeTools
         /\ Lead \in Command /\ Lead # "chars" /\ Texts \subseteq Command
BY DEF Main, Lead, LeadOf, Texts, Command, ClickTools, TypeTools

LEMMA CallFits ==
  ASSUME InputFits, tool # "none"
  PROVE  call \in InputCalls /\ call \in InputCall /\ tool \in ToolNames
<1>1. Suits(tool) /\ call \in InputCalls \cup {NoCall}
  BY DEF InputFits, InputTypeOK
<1>2. call.tool # "none"
  BY <1>1 DEF Suits, SuitsFor, CallTools, ClickTools, TypeTools, KeyTools, MouseTools, FormTools
<1> QED BY <1>1, <1>2, SuitsTool, InputAssumption DEF NoCall, Suits

\* A call of which no attempt failed in doubt and which has not sent its command.
LEMMA UnsentFacts ==
  ASSUME InputFits, OnTrack, tool # "none", mainSent = FALSE
  PROVE  Unsent(Lead) /\ Unsent("chars") /\ tool # "enter"
<1>1. call.tool \in TypeTools => Lead = "insert"
  BY CallFits, MainFacts
<1> QED BY <1>1 DEF OnTrack, Straight, InChars

\* An attempt failed: the next one begins, or the call ends.
LEMMA FailInv ==
  ASSUME InputInv, Working, NEW e, Fail(e),
         wire' \in Seq([cmd : Command, mine : BOOLEAN]), done' \in [Command -> Nat],
         held' \subseteq {"button", "key"},
         \A c \in {Lead, "chars"} : Unsent(c) => Unsent(c)',
         NoneOut("insert") => NoneOut("insert")'
  PROVE  InputInv'
<1>0. InputFits /\ tool # "none" /\ outcome = "none"
  BY DEF InputInv, Working
<1>1. call \in InputCall /\ tool \in ToolNames /\ call' = call /\ link' = link
  BY <1>0, CallFits DEF Fail
<1>2. Suits(tool) /\ attempt \in 0..3 /\ mainSent' = FALSE
      /\ doubts' = doubts + (IF mainSent THEN 1 ELSE 0)
      /\ doubts \in Nat /\ mainSent \in BOOLEAN
  BY <1>0 DEF InputFits, InputTypeOK, Fail
<1>3. \/ /\ Suits(tool') /\ tool' # "none" /\ attempt' \in 0..3 /\ outcome' = "none"
         /\ todo' = SendsOf(tool', call) /\ (tool # "enter" => tool' # "enter")
      \/ tool' = tool /\ attempt' = attempt /\ outcome' = "error" /\ todo' = << >>
  <2>1. CASE attempt < Tool[tool].tries /\ Start(tool, attempt + 1) /\ UNCHANGED outcome
    <3>1. attempt + 1 \in 0..3
      BY <1>1, <1>2, <2>1, ToolTries
    <3> QED BY <1>0, <1>2, <2>1, <3>1 DEF Start
  <2>2. ASSUME NEW next \in FallBacks(e),
               IF next = "none"
               THEN outcome' = "error" /\ todo' = <<>> /\ UNCHANGED <<tool, attempt>>
               ELSE Start(next, 1) /\ UNCHANGED outcome
        PROVE  <1>3
    <3>1. next # "none" => Suits(next) /\ next # "enter"
      BY <1>0, <1>2, <2>2 DEF FallBacks, Suits, SuitsFor, CallTools, ClickTools, TypeTools, KeyTools,
                              MouseTools, FormTools
    <3> QED BY <1>0, <2>2, <3>1 DEF Start
  <2> QED BY <2>1, <2>2 DEF Fail
<1>4. /\ tool' # "none" /\ Suits(tool') /\ attempt' \in 0..3 /\ outcome' \in {"none", "error"}
      /\ (tool # "enter" => tool' # "enter")
  BY <1>0, <1>2, <1>3
<1>5. /\ todo' \in Batches /\ Filled(todo') /\ NoneIn(todo', "chars")
      /\ (call.tool \notin TypeTools => NoneIn(todo', "insert"))
      /\ (outcome' = "none" /\ tool # "enter" => OneIn(todo', Lead))
  <2>1. CASE todo' = << >> /\ outcome' = "error"
    <3>1. << >> \in Batches
      BY DEF Batches
    <3> QED BY <1>3, <2>1, <3>1 DEF Filled, NoneIn
  <2>2. CASE Suits(tool') /\ todo' = SendsOf(tool', call) /\ (tool # "enter" => tool' # "enter")
    BY <1>1, <2>2, InputPlans
  <2>3. \/ todo' = << >> /\ outcome' = "error"
        \/ Suits(tool') /\ todo' = SendsOf(tool', call) /\ (tool # "enter" => tool' # "enter")
    BY <1>3
  <2> QED BY ONLY <2>1, <2>2, <2>3
<1>6. InputFits'
  <2>1. tool' \in ToolNames
    BY <1>1, <1>4, SuitsTool DEF Suits
  <2>2. Suits(tool)'
    BY <1>1, <1>4 DEF Suits
  <2>3. InputTypeOK'
    <3>1. doubts' \in Nat
      BY <1>2
    <3> QED BY <1>0, <1>1, <1>2, <1>4, <1>5, <2>1, <3>1 DEF InputFits, InputTypeOK, Batches
  <2> QED BY <1>4, <1>5, <2>2, <2>3 DEF InputFits
<1>7. ASSUME doubts' = 0
      PROVE  OnTrack'
  <2>1. doubts = 0 /\ mainSent = FALSE
    BY <1>2, <1>7
  <2>2. OnTrack
    BY <1>0, <2>1 DEF InputInv
  <2>3. Unsent(Lead) /\ Unsent("chars") /\ tool # "enter"
    BY <1>0, <2>1, <2>2, UnsentFacts
  <2>4. Lead' = Lead
    BY <1>1 DEF Lead, LeadOf
  <2>5. Unsent(Lead)' /\ Unsent("chars")'
    <3>1. PICK c : c = Lead
      OBVIOUS
    <3>2. Unsent(c)' /\ Unsent("chars")'
      BY <2>3, <3>1
    <3> QED BY <2>4, <3>1, <3>2 DEF Unsent, NoneOut
  <2>6. Straight'
    BY <1>2, <1>4, <1>5, <2>3, <2>4, <2>5 DEF Straight
  <2>7. call.tool \notin TypeTools => NoneOut("insert")'
    BY <2>2 DEF OnTrack
  <2>8. outcome' = "error" => todo' = << >>
    BY <1>3
  <2> QED BY <1>1, <1>2, <1>4, <1>5, <2>6, <2>7, <2>8 DEF OnTrack
<1> QED BY <1>6, <1>7 DEF InputInv

\* The characters before the rest of the batches.
CharsFirst(rest) == [i \in 1..TextChunks |-> <<"chars">>] \o rest

LEMMA CharsThenRest ==
  ASSUME NEW rest \in Batches, Filled(rest), NEW new,
         new = CharsFirst(rest)
  PROVE  /\ new \in Batches /\ Filled(new)
         /\ NoneIn(rest, "chars") => CharsIn(new, TextChunks)
         /\ NoneIn(rest, "insert") => NoneIn(new, "insert")
         /\ TextChunks <= Len(new)
         /\ \A i \in DOMAIN new : i <= TextChunks => new[i] = <<"chars">>
         /\ \A i \in DOMAIN new : i > TextChunks =>
              i - TextChunks \in DOMAIN rest /\ new[i] = rest[i - TextChunks]
         /\ \A j \in DOMAIN rest : j + TextChunks \in DOMAIN new /\ new[j + TextChunks] = rest[j]
<1> DEFINE cs == [i \in 1..TextChunks |-> <<"chars">>]
<1>1. TextChunks \in Nat /\ "chars" \in Command /\ "chars" # "insert"
  BY InputAssumption DEF Command
<1>2. <<"chars">> \in Seq(Command)
  BY <1>1
<1>3. cs \in Batches /\ Len(cs) = TextChunks
  BY <1>1, <1>2 DEF Batches
<1>4. \A i \in 1..TextChunks : cs[i] = <<"chars">>
  OBVIOUS
<1> HIDE DEF cs
<1>5. /\ new \in Batches /\ Len(new) = TextChunks + Len(rest)
      /\ \A i \in 1..(TextChunks + Len(rest)) :
           new[i] = IF i <= TextChunks THEN cs[i] ELSE rest[i - TextChunks]
  <2>1. new = cs \o rest
    BY DEF cs, CharsFirst
  <2>2. cs \in Seq(Seq(Command)) /\ rest \in Seq(Seq(Command))
    BY <1>3 DEF Batches
  <2>3. /\ cs \o rest \in Seq(Seq(Command)) /\ Len(cs \o rest) = Len(cs) + Len(rest)
        /\ \A i \in 1..(Len(cs) + Len(rest)) :
             (cs \o rest)[i] = IF i <= Len(cs) THEN cs[i] ELSE rest[i - Len(cs)]
    BY <2>2, ConcatProperties
  <2> QED BY <1>3, <2>1, <2>3 DEF Batches
<1>6. DOMAIN new = 1..(TextChunks + Len(rest)) /\ DOMAIN rest = 1..Len(rest) /\ Len(rest) \in Nat
  <2>1. new \in Seq(Seq(Command)) /\ rest \in Seq(Seq(Command))
    BY <1>5 DEF Batches
  <2> QED BY <1>5, <2>1, LenProperties
<1>7. /\ \A i \in DOMAIN new : i <= TextChunks => new[i] = <<"chars">>
      /\ \A i \in DOMAIN new : i > TextChunks =>
           i - TextChunks \in DOMAIN rest /\ new[i] = rest[i - TextChunks]
  BY <1>1, <1>4, <1>5, <1>6
<1>8. Filled(new)
  <2>1. \A i \in DOMAIN new : i <= TextChunks \/ i > TextChunks
    BY <1>1, <1>6
  <2>2. <<"chars">> # << >>
    OBVIOUS
  <2> QED BY <1>7, <2>1, <2>2 DEF Filled
<1>9. ASSUME NoneIn(rest, "chars") PROVE CharsIn(new, TextChunks)
  <2>1. TextChunks <= Len(new)
    BY <1>1, <1>5, <1>6
  <2> QED BY <1>7, <1>9, <2>1 DEF CharsIn, NoneIn
<1>10. ASSUME NoneIn(rest, "insert") PROVE NoneIn(new, "insert")
  <2>1. SUFFICES ASSUME NEW i \in DOMAIN new, NEW k \in DOMAIN new[i] PROVE new[i][k] # "insert"
    BY DEF NoneIn
  <2>2. CASE i <= TextChunks
    <3>1. new[i] = <<"chars">>
      BY <1>7, <2>1, <2>2
    <3>2. \A m \in DOMAIN <<"chars">> : <<"chars">>[m] # "insert"
      OBVIOUS
    <3> QED BY <2>1, <3>1, <3>2
  <2>3. CASE i > TextChunks
    BY <1>7, <1>10, <2>1, <2>3 DEF NoneIn
  <2> QED BY <1>1, <1>6, <2>1, <2>2, <2>3
<1>11. TextChunks <= Len(new)
  BY <1>1, <1>5, <1>6
<1>12. ASSUME NEW j \in DOMAIN rest
       PROVE  j + TextChunks \in DOMAIN new /\ new[j + TextChunks] = rest[j]
  <2>1. /\ j + TextChunks \in DOMAIN new /\ j + TextChunks > TextChunks
        /\ (j + TextChunks) - TextChunks = j
    BY <1>1, <1>6
  <2> QED BY <1>7, <2>1
<1> QED BY <1>5, <1>7, <1>8, <1>9, <1>10, <1>11, <1>12

\* A command failed on the way.
LEMMA TroubleInv ==
  ASSUME InputInv, Working, NEW cmd, NEW rest \in Batches, Filled(rest), Trouble(cmd, rest),
         wire' \in Seq([cmd : Command, mine : BOOLEAN]), done' \in [Command -> Nat],
         held' \subseteq {"button", "key"},
         \A c \in {Lead, "chars"} : Unsent(c) => Unsent(c)',
         NoneOut("insert") => NoneOut("insert")',
         OnTrack /\ mainSent = FALSE /\ cmd = "insert" =>
           call.tool \in TypeTools /\ NoneIn(rest, "insert") /\ NoneIn(rest, "chars")
  PROVE  InputInv'
<1>0. InputFits /\ tool # "none" /\ outcome = "none"
  BY DEF InputInv, Working
<1>1. CASE cmd # "insert"
  <2>1. Fail(IF Tool[tool].wraps /\ cmd \in {"look", "set"} THEN "smart" ELSE "http")
    BY <1>1 DEF Trouble
  <2> QED BY <2>1, FailInv
<1>2. CASE cmd = "insert"
  <2>1. /\ todo' = CharsFirst(rest)
        /\ doubts' = doubts + (IF mainSent THEN 1 ELSE 0) /\ mainSent' = FALSE
        /\ link' = link /\ call' = call /\ tool' = tool /\ attempt' = attempt
        /\ outcome' = outcome
    BY <1>2 DEF Trouble, CharsFirst
  <2>2. doubts \in Nat /\ mainSent \in BOOLEAN
    BY <1>0 DEF InputFits, InputTypeOK
  <2>3. /\ todo' \in Batches /\ Filled(todo')
        /\ NoneIn(rest, "chars") => CharsIn(todo', TextChunks)
        /\ NoneIn(rest, "insert") => NoneIn(todo', "insert")
    BY <2>1, CharsThenRest
  <2>4. InputFits'
    <3>1. doubts' \in Nat
      BY <2>1, <2>2
    <3>2. InputTypeOK'
      BY <1>0, <2>1, <2>3, <3>1 DEF InputFits, InputTypeOK, Batches
    <3>3. Suits(tool)'
      BY <1>0, <2>1 DEF InputFits, Suits
    <3> QED BY <1>0, <2>1, <2>3, <3>2, <3>3 DEF InputFits
  <2>5. ASSUME doubts' = 0
        PROVE  OnTrack'
    <3>1. doubts = 0 /\ mainSent = FALSE
      BY <2>1, <2>2, <2>5
    <3>2. OnTrack
      BY <1>0, <3>1 DEF InputInv
    <3>3. call.tool \in TypeTools /\ NoneIn(rest, "insert") /\ NoneIn(rest, "chars")
      BY <1>2, <3>1, <3>2
    <3>4. Unsent(Lead) /\ Unsent("chars") /\ tool # "enter"
      BY <1>0, <3>1, <3>2, UnsentFacts
    <3>5. Lead = "insert"
      BY <1>0, <3>3, CallFits, MainFacts
    <3>6. Unsent("insert")' /\ Unsent("chars")'
      BY <3>4, <3>5
    <3>7. InChars(TextChunks)'
      BY <2>1, <2>3, <3>3, <3>4, <3>6 DEF InChars
    <3>8. TextChunks \in 0..TextChunks
      BY InputAssumption
    <3> QED BY <1>0, <2>1, <3>3, <3>7, <3>8 DEF OnTrack
  <2> QED BY <2>4, <2>5 DEF InputInv
<1> QED BY <1>1, <1>2

LEMMA TailPlaces ==
  ASSUME NEW S, NEW w \in Seq(S), w # << >>, NEW v, v = Tail(w)
  PROVE  /\ v \in Seq(S) /\ Len(w) \in Nat /\ Len(w) >= 1
         /\ DOMAIN w = 1..Len(w) /\ DOMAIN v = 1..(Len(w) - 1) /\ Len(v) = Len(w) - 1
         /\ \A i \in DOMAIN v : i + 1 \in DOMAIN w /\ i + 1 # 1 /\ v[i] = w[i + 1]
         /\ \A i \in DOMAIN w : i # 1 => i - 1 \in DOMAIN v /\ v[i - 1] = w[i]
         /\ 1 \in DOMAIN w /\ Head(w) = w[1] /\ w[1] \in S
<1>1. Len(w) \in Nat /\ Len(w) >= 1 /\ DOMAIN w = 1..Len(w) /\ Head(w) = w[1]
  OBVIOUS
<1>2. 1 \in DOMAIN w /\ w[1] \in S
  <2>1. 1 \in 1..Len(w)
    BY <1>1
  <2> QED BY <1>1, <2>1, ElementOfSeq
<1>3. /\ v \in Seq(S) /\ Len(v) = Len(w) - 1
      /\ \A i \in 1..(Len(w) - 1) : v[i] = w[i + 1]
  BY HeadTailProperties
<1>4. DOMAIN v = 1..(Len(w) - 1)
  BY <1>3, LenProperties
<1>5. \A i \in DOMAIN v : i + 1 \in DOMAIN w /\ i + 1 # 1 /\ v[i] = w[i + 1]
  BY <1>1, <1>3, <1>4
<1>6. ASSUME NEW i \in DOMAIN w, i # 1
      PROVE  i - 1 \in DOMAIN v /\ v[i - 1] = w[i]
  <2>1. i - 1 \in DOMAIN v /\ (i - 1) + 1 = i
    BY <1>1, <1>4, <1>6
  <2> QED BY <1>5, <2>1
<1> QED BY <1>1, <1>2, <1>3, <1>4, <1>5, <1>6

\* The page carries out the oldest command.
LEMMA CarriedOut ==
  ASSUME InputTypeOK, wire # << >>, Effect(Head(wire).cmd), wire' = Tail(wire),
         NEW c \in Command, NEW n \in Nat
  PROVE  /\ wire' \in Seq([cmd : Command, mine : BOOLEAN])
         /\ done' \in [Command -> Nat] /\ held' \subseteq {"button", "key"}
         /\ Unsent(c) => Unsent(c)'
         /\ NoneOut(c) => NoneOut(c)'
         /\ Sent(c, n) => Sent(c, n)'
         /\ ~Awaiting => ~Awaiting'
<1>1. wire \in Seq([cmd : Command, mine : BOOLEAN]) /\ done \in [Command -> Nat]
      /\ held \subseteq {"button", "key"}
  BY DEF InputTypeOK
<1>2. /\ wire' \in Seq([cmd : Command, mine : BOOLEAN]) /\ Len(wire) \in Nat /\ Len(wire) >= 1
      /\ DOMAIN wire = 1..Len(wire) /\ DOMAIN wire' = 1..(Len(wire) - 1)
      /\ \A i \in DOMAIN wire' : i + 1 \in DOMAIN wire /\ i + 1 # 1 /\ wire'[i] = wire[i + 1]
      /\ \A i \in DOMAIN wire : i # 1 => i - 1 \in DOMAIN wire' /\ wire'[i - 1] = wire[i]
      /\ 1 \in DOMAIN wire /\ Head(wire) = wire[1] /\ wire[1] \in [cmd : Command, mine : BOOLEAN]
  <2>1. wire \in Seq(OnWire)
    BY <1>1 DEF OnWire
  <2>2. /\ wire' \in Seq(OnWire) /\ Len(wire) \in Nat /\ Len(wire) >= 1
        /\ DOMAIN wire = 1..Len(wire) /\ DOMAIN wire' = 1..(Len(wire) - 1)
        /\ \A i \in DOMAIN wire' : i + 1 \in DOMAIN wire /\ i + 1 # 1 /\ wire'[i] = wire[i + 1]
        /\ \A i \in DOMAIN wire : i # 1 => i - 1 \in DOMAIN wire' /\ wire'[i - 1] = wire[i]
        /\ 1 \in DOMAIN wire /\ Head(wire) = wire[1] /\ wire[1] \in OnWire
    BY <2>1, TailPlaces
  <2> QED BY <2>2 DEF OnWire
<1>3. done' = [done EXCEPT ![wire[1].cmd] = @ + 1] /\ wire[1].cmd \in Command
  BY <1>2 DEF Effect
<1>4. done' \in [Command -> Nat]
  BY <1>1, <1>3
<1>5. held' \subseteq {"button", "key"}
  BY <1>1 DEF Effect
<1>6. NoneOut(c) => NoneOut(c)' /\ done'[c] = done[c]
  BY <1>1, <1>2, <1>3, ZenonT(60) DEF NoneOut
<1>7. ASSUME OneOut(c), done[c] + 1 = n
      PROVE  Sent(c, n)'
  <2>1. PICK i \in DOMAIN wire : /\ wire[i] = [cmd |-> c, mine |-> TRUE]
                                 /\ \A m \in DOMAIN wire : wire[m].cmd = c => m = i
    BY <1>7 DEF OneOut
  <2>2. CASE i = 1
    <3>1. done'[c] = done[c] + 1
      BY <1>1, <1>2, <1>3, <2>1, <2>2
    <3>2. NoneOut(c)'
      BY <1>2, <2>1, <2>2 DEF NoneOut
    <3> QED BY <1>7, <3>1, <3>2 DEF Sent
  <2>3. CASE i # 1
    <3>1. done'[c] = done[c]
      BY <1>1, <1>2, <1>3, <2>1, <2>3
    <3>2. i - 1 \in DOMAIN wire' /\ wire'[i - 1] = wire[i]
      BY <1>2, <2>1, <2>3
    <3>3. \A m \in DOMAIN wire' : wire'[m].cmd = c => m = i - 1
      BY <1>2, <2>1
    <3>4. OneOut(c)'
      BY <2>1, <3>2, <3>3 DEF OneOut
    <3> QED BY <1>7, <3>1, <3>4 DEF Sent
  <2> QED BY <2>2, <2>3
<1>8. ~Awaiting => ~Awaiting'
  BY <1>2 DEF Awaiting
<1> QED BY <1>2, <1>4, <1>5, <1>6, <1>7, <1>8 DEF Unsent, Sent

\* n commands of the first batch are handed over; all of it when sh is 1.
Handed(n, sh) ==
  /\ n \in 1..Len(todo[1]) /\ sh \in {0, 1} /\ (sh = 1 => n = Len(todo[1]))
  /\ Len(wire') = Len(wire) + n
  /\ \A i \in 1..Len(wire) : wire'[i] = wire[i]
  /\ \A i \in 1..n : wire'[Len(wire) + i] = [cmd |-> todo[1][i], mine |-> TRUE]
  /\ Len(todo') = Len(todo) - sh
  /\ \A j \in 1..Len(todo') : j + sh # 1 => todo'[j] = todo[j + sh]
  /\ sh = 0 => /\ 1 \in DOMAIN todo' /\ Len(todo'[1]) = Len(todo[1]) - n
               /\ \A i \in 1..(Len(todo[1]) - n) : todo'[1][i] = todo[1][n + i]
  /\ mainSent = TRUE \/ (\E i \in 1..n : todo[1][i] \in Main) => mainSent' = TRUE
  /\ (\A i \in 1..n : todo[1][i] \notin Main) => mainSent' = mainSent

LEMMA FunctionSeq ==
  ASSUME NEW S, NEW n \in Nat, NEW f \in [1..n -> S]
  PROVE  f \in Seq(S) /\ Len(f) = n
OBVIOUS

LEMMA HandFacts ==
  ASSUME InputFits, HandOver
  PROVE  /\ wire' \in Seq(OnWire) /\ todo' \in Batches /\ Filled(todo')
         /\ 1 \in DOMAIN todo /\ todo[1] \in Seq(Command) /\ Len(todo[1]) >= 1
         /\ \E n, sh : Handed(n, sh)
<1> DEFINE b == todo[1]
           sent == IF link = "direct" THEN <<Head(b)>> ELSE b
           left == SubSeq(b, Len(sent) + 1, Len(b))
           new == [i \in DOMAIN sent |-> [cmd |-> sent[i], mine |-> TRUE]]
<1>1. todo \in Seq(Seq(Command)) /\ todo # << >> /\ wire \in Seq(OnWire) /\ Head(todo) = b
  BY SMTT(60) DEF InputFits, InputTypeOK, HandOver, OnWire
<1>2. 1 \in DOMAIN todo /\ b \in Seq(Command) /\ b # << >> /\ Len(b) \in Nat /\ Len(b) >= 1
      /\ Len(todo) \in Nat /\ Len(todo) >= 1 /\ DOMAIN todo = 1..Len(todo)
  <2>1. Len(todo) \in Nat /\ Len(todo) >= 1 /\ DOMAIN todo = 1..Len(todo)
    BY <1>1
  <2>2. 1 \in 1..Len(todo)
    BY <2>1
  <2>3. b \in Seq(Command)
    BY <1>1, <2>2, ElementOfSeq
  <2>4. b # << >>
    BY <2>1, <2>2 DEF InputFits, Filled
  <2> QED BY <2>1, <2>2, <2>3, <2>4
<1>3. /\ wire' = wire \o new
      /\ todo' = (IF left = <<>> THEN <<>> ELSE <<left>>) \o Tail(todo)
      /\ mainSent' = (mainSent \/ \E i \in DOMAIN sent : sent[i] \in Main)
  BY <1>1 DEF HandOver
<1>4. /\ sent \in Seq(Command) /\ Len(sent) \in 1..Len(b) /\ DOMAIN sent = 1..Len(sent)
      /\ \A i \in 1..Len(sent) : sent[i] = b[i] /\ sent[i] \in Command
  <2>1. Head(b) = b[1] /\ b[1] \in Command
    BY <1>2, ElementOfSeq
  <2>2. CASE link = "direct"
    <3>1. sent = <<b[1]>>
      BY <2>1, <2>2
    <3> HIDE DEF sent, b
    <3> QED BY <1>2, <2>1, <3>1
  <2>3. CASE link # "direct"
    <3>1. sent = b
      BY <2>3
    <3> HIDE DEF sent, b
    <3> QED BY <1>2, <3>1, ElementOfSeq
  <2> QED BY <2>2, <2>3
<1>5. Len(sent) \in Nat /\ Len(sent) >= 1 /\ Len(sent) <= Len(b)
  BY <1>2, <1>4
<1>6. new \in Seq(OnWire) /\ Len(new) = Len(sent)
      /\ \A i \in 1..Len(sent) : new[i] = [cmd |-> b[i], mine |-> TRUE]
  <2> HIDE DEF sent, b
  <2>1. \A i \in 1..Len(sent) : [cmd |-> sent[i], mine |-> TRUE] \in OnWire
    BY <1>4 DEF OnWire
  <2>2. new = [i \in 1..Len(sent) |-> [cmd |-> sent[i], mine |-> TRUE]]
    BY <1>4
  <2>3. new \in [1..Len(sent) -> OnWire]
    BY <2>1, <2>2
  <2>4. new \in Seq(OnWire) /\ Len(new) = Len(sent)
    BY <1>5, <2>3, FunctionSeq
  <2>5. \A i \in 1..Len(sent) : new[i] = [cmd |-> b[i], mine |-> TRUE]
    BY <1>4, <2>2
  <2> QED BY <2>4, <2>5
<1> HIDE DEF sent, new
<1>7. /\ wire' \in Seq(OnWire) /\ Len(wire') = Len(wire) + Len(sent)
      /\ \A i \in 1..Len(wire) : wire'[i] = wire[i]
      /\ \A i \in 1..Len(sent) : wire'[Len(wire) + i] = [cmd |-> b[i], mine |-> TRUE]
  <2> HIDE DEF b
  <2>1. /\ wire \o new \in Seq(OnWire) /\ Len(wire \o new) = Len(wire) + Len(new)
        /\ \A i \in 1..(Len(wire) + Len(new)) :
             (wire \o new)[i] = IF i <= Len(wire) THEN wire[i] ELSE new[i - Len(wire)]
    <3>1. wire \in Seq(OnWire) /\ new \in Seq(OnWire)
      BY <1>1, <1>6
    <3> QED BY ONLY <3>1, ConcatProperties
  <2>2. Len(wire) \in Nat
    BY <1>1
  <2>3. \A i \in 1..Len(sent) :
          /\ Len(wire) + i \in 1..(Len(wire) + Len(new)) /\ ~(Len(wire) + i <= Len(wire))
          /\ (Len(wire) + i) - Len(wire) = i
    BY <1>5, <1>6, <2>2
  <2> QED BY <1>3, <1>5, <1>6, <2>1, <2>2, <2>3
<1>8. /\ Tail(todo) \in Seq(Seq(Command)) /\ Len(Tail(todo)) = Len(todo) - 1
      /\ \A j \in 1..(Len(todo) - 1) : Tail(todo)[j] = todo[j + 1]
  BY <1>1, HeadTailProperties
<1>11. /\ mainSent = TRUE \/ (\E i \in 1..Len(sent) : b[i] \in Main) => mainSent' = TRUE
       /\ (\A i \in 1..Len(sent) : b[i] \notin Main) => mainSent' = mainSent
  <2>1. mainSent \in BOOLEAN
    BY DEF InputFits, InputTypeOK
  <2>2. (\E i \in DOMAIN sent : sent[i] \in Main) <=> (\E i \in 1..Len(sent) : b[i] \in Main)
    BY <1>4
  <2> DEFINE one == \E i \in 1..Len(sent) : b[i] \in Main
  <2>3. mainSent' = (mainSent \/ one)
    BY <1>3, <2>2, Zenon
  <2>4. one \/ \A i \in 1..Len(sent) : b[i] \notin Main
    OBVIOUS
  <2>5. (one => mainSent' = TRUE) /\ (mainSent = TRUE => mainSent' = TRUE)
        /\ (~one => mainSent' = mainSent)
    <3> HIDE DEF one
    <3> QED BY <2>1, <2>3, Zenon
  <2> QED BY <2>4, <2>5
<1>9. CASE Len(sent) = Len(b)
  <2>1. left = << >>
    <3> HIDE DEF b
    <3> QED BY <1>2, <1>9
  <2>2. todo' = Tail(todo)
    <3>1. todo' = << >> \o Tail(todo)
      BY <1>3, <2>1
    <3> QED BY <1>8, <3>1, ConcatEmptySeq
  <2>3. Filled(todo')
    <3>1. DOMAIN todo' = 1..(Len(todo) - 1)
      BY <1>2, <1>8, <2>2
    <3> QED BY <1>2, <1>8, <2>2, <3>1 DEF InputFits, Filled
  <2>4. Handed(Len(sent), 1)
    <3>1. \A j \in 1..Len(todo') : todo'[j] = todo[j + 1]
      BY <1>8, <2>2
    <3>2. /\ mainSent = TRUE \/ (\E i \in 1..Len(sent) : b[i] \in Main) => mainSent' = TRUE
          /\ (\A i \in 1..Len(sent) : b[i] \notin Main) => mainSent' = mainSent
      BY <1>11
    <3> HIDE DEF left
    <3> QED BY <1>4, <1>7, <1>8, <1>9, <2>2, <3>1, <3>2 DEF Handed
  <2> QED BY <1>2, <1>7, <1>8, <2>2, <2>3, <2>4 DEF Batches
<1>10. CASE Len(sent) # Len(b)
  <2>1. /\ left \in Seq(Command) /\ Len(left) = Len(b) - Len(sent)
        /\ \A i \in 1..(Len(b) - Len(sent)) : left[i] = b[Len(sent) + i]
    <3> HIDE DEF b
    <3> QED BY <1>2, <1>5, <1>10
  <2>2. left # << >>
    <3> HIDE DEF left, b
    <3> QED BY <1>2, <1>5, <1>10, <2>1
  <2> HIDE DEF left
  <2>3. todo' = <<left>> \o Tail(todo)
    BY <1>3, <2>2
  <2>4. <<left>> \in Seq(Seq(Command)) /\ Len(<<left>>) = 1 /\ <<left>>[1] = left
    BY <2>1
  <2>5. /\ todo' \in Seq(Seq(Command)) /\ Len(todo') = 1 + (Len(todo) - 1)
        /\ \A j \in 1..(1 + (Len(todo) - 1)) :
             todo'[j] = IF j <= 1 THEN <<left>>[j] ELSE Tail(todo)[j - 1]
    <3>1. /\ <<left>> \o Tail(todo) \in Seq(Seq(Command))
          /\ Len(<<left>> \o Tail(todo)) = Len(<<left>>) + Len(Tail(todo))
          /\ \A j \in 1..(Len(<<left>>) + Len(Tail(todo))) :
               (<<left>> \o Tail(todo))[j]
                 = IF j <= Len(<<left>>) THEN <<left>>[j] ELSE Tail(todo)[j - Len(<<left>>)]
      BY <1>8, <2>4, ConcatProperties
    <3> QED BY <1>8, <2>3, <2>4, <3>1
  <2>6. /\ Len(todo') = Len(todo) /\ todo'[1] = left
        /\ \A j \in 1..Len(todo) : j # 1 => todo'[j] = todo[j]
    <3>1. Len(todo') = Len(todo) /\ 1 \in 1..(1 + (Len(todo) - 1))
      BY <1>2, <2>5
    <3>2. todo'[1] = left
      BY <2>4, <2>5, <3>1
    <3>3. ASSUME NEW j \in 1..Len(todo), j # 1
          PROVE  todo'[j] = todo[j]
      <4>1. /\ j \in 1..(1 + (Len(todo) - 1)) /\ ~(j <= 1) /\ j - 1 \in 1..(Len(todo) - 1)
            /\ (j - 1) + 1 = j
        BY <1>2, <3>3
      <4> QED BY <1>8, <2>5, <4>1
    <3> QED BY <3>1, <3>2, <3>3
  <2>7. DOMAIN todo' = 1..Len(todo)
    BY <2>5, <2>6
  <2>8. Filled(todo')
    BY <1>2, <2>2, <2>6, <2>7 DEF InputFits, Filled
  <2>9. Handed(Len(sent), 0)
    <3>1. /\ mainSent = TRUE \/ (\E i \in 1..Len(sent) : b[i] \in Main) => mainSent' = TRUE
          /\ (\A i \in 1..Len(sent) : b[i] \notin Main) => mainSent' = mainSent
      BY <1>11
    <3>2. Len(todo') = Len(todo) - 0 /\ \A j \in 1..Len(todo') : j + 0 # 1 => todo'[j] = todo[j + 0]
      BY <1>2, <2>6
    <3>3. /\ 1 \in DOMAIN todo' /\ Len(todo'[1]) = Len(b) - Len(sent)
          /\ \A i \in 1..(Len(b) - Len(sent)) : todo'[1][i] = b[Len(sent) + i]
      BY <1>2, <2>1, <2>6, <2>7
    <3> QED BY <1>4, <1>7, <3>1, <3>2, <3>3 DEF Handed
  <2> QED BY <1>2, <1>7, <2>5, <2>8, <2>9 DEF Batches
<1> QED BY <1>9, <1>10

\* Where what is on the wire and what is left after a hand-over were before.
LEMMA HandPlaces ==
  ASSUME InputFits, HandOver, NEW n, NEW sh, Handed(n, sh)
  PROVE  /\ n \in Nat /\ n >= 1 /\ 1..n \subseteq DOMAIN todo[1] /\ sh \in {0, 1} /\ 1 \in DOMAIN todo
         /\ DOMAIN wire \subseteq DOMAIN wire' /\ \A i \in DOMAIN wire : wire'[i] = wire[i]
         /\ \A i \in 1..n : Len(wire) + i \in DOMAIN wire' \ DOMAIN wire
                            /\ wire'[Len(wire) + i] = [cmd |-> todo[1][i], mine |-> TRUE]
         /\ \A i \in DOMAIN wire' \ DOMAIN wire : \E m \in 1..n : i = Len(wire) + m
         /\ \A j \in DOMAIN todo' : j + sh # 1 =>
              j + sh \in DOMAIN todo /\ todo'[j] = todo[j + sh]
         /\ \A j \in DOMAIN todo : j # 1 => j - sh \in DOMAIN todo' /\ todo'[j - sh] = todo[j]
         /\ \A j \in DOMAIN todo' : j + sh = 1 => j = 1 /\ sh = 0
              /\ \A i \in DOMAIN todo'[1] : n + i \in DOMAIN todo[1] /\ n + i # 1
                                            /\ todo'[1][i] = todo[1][n + i]
<1>1. /\ wire' \in Seq(OnWire) /\ todo' \in Seq(Seq(Command)) /\ Filled(todo')
      /\ 1 \in DOMAIN todo /\ todo[1] \in Seq(Command)
      /\ wire \in Seq(OnWire) /\ todo \in Seq(Seq(Command))
  BY HandFacts DEF Batches, InputFits, InputTypeOK, OnWire
<1>2. /\ DOMAIN wire' = 1..Len(wire') /\ DOMAIN wire = 1..Len(wire) /\ Len(wire) \in Nat
      /\ DOMAIN todo' = 1..Len(todo') /\ DOMAIN todo = 1..Len(todo) /\ Len(todo) \in Nat
      /\ DOMAIN todo[1] = 1..Len(todo[1]) /\ Len(todo[1]) \in Nat
  BY <1>1, LenProperties
<1>3. n \in Nat /\ n >= 1 /\ n <= Len(todo[1]) /\ sh \in {0, 1} /\ (sh = 1 => n = Len(todo[1]))
      /\ Len(wire') = Len(wire) + n /\ Len(todo') = Len(todo) - sh
  BY <1>2 DEF Handed
<1>4. 1..n \subseteq DOMAIN todo[1]
  BY <1>2, <1>3
<1>5. DOMAIN wire \subseteq DOMAIN wire' /\ \A i \in DOMAIN wire : wire'[i] = wire[i]
  BY <1>2, <1>3 DEF Handed
<1>6. \A i \in 1..n : Len(wire) + i \in DOMAIN wire' \ DOMAIN wire
                      /\ wire'[Len(wire) + i] = [cmd |-> todo[1][i], mine |-> TRUE]
  BY <1>2, <1>3 DEF Handed
<1>7. ASSUME NEW i \in DOMAIN wire' \ DOMAIN wire
      PROVE  \E m \in 1..n : i = Len(wire) + m
  <2>1. i - Len(wire) \in 1..n /\ i = Len(wire) + (i - Len(wire))
    BY <1>2, <1>3
  <2> QED BY <2>1
<1>8. \A j \in DOMAIN todo' : j + sh # 1 => j + sh \in DOMAIN todo /\ todo'[j] = todo[j + sh]
  BY <1>2, <1>3 DEF Handed
<1>9. ASSUME NEW j \in DOMAIN todo, j # 1
      PROVE  j - sh \in DOMAIN todo' /\ todo'[j - sh] = todo[j]
  <2>1. j - sh \in DOMAIN todo' /\ (j - sh) + sh = j
    BY <1>2, <1>3, <1>9
  <2> QED BY <1>8, <1>9, <2>1
<1>10. ASSUME NEW j \in DOMAIN todo', j + sh = 1
       PROVE  /\ j = 1 /\ sh = 0
              /\ \A i \in DOMAIN todo'[1] : n + i \in DOMAIN todo[1] /\ n + i # 1
                                            /\ todo'[1][i] = todo[1][n + i]
  <2>1. j = 1 /\ sh = 0
    BY <1>2, <1>3, <1>10
  <2>2. Len(todo'[1]) = Len(todo[1]) - n
        /\ \A i \in 1..(Len(todo[1]) - n) : todo'[1][i] = todo[1][n + i]
    BY <2>1 DEF Handed
  <2>3. DOMAIN todo'[1] = 1..(Len(todo[1]) - n)
    BY <1>1, <1>10, <2>1, <2>2, ElementOfSeq, LenProperties
  <2>4. \A i \in DOMAIN todo'[1] : i \in 1..(Len(todo[1]) - n)
    BY <2>3
  <2>5. \A i \in 1..(Len(todo[1]) - n) : n + i \in 1..Len(todo[1]) /\ n + i # 1
    BY <1>2, <1>3
  <2> QED BY <1>2, <2>1, <2>2, <2>4, <2>5
<1> QED BY <1>1, <1>3, <1>4, <1>5, <1>6, <1>7, <1>8, <1>9, <1>10

LEMMA HandNone ==
  ASSUME InputFits, HandOver, NEW n, NEW sh, Handed(n, sh), NEW c, NoneIn(todo, c)
  PROVE  /\ NoneIn(todo', c) /\ (NoneOut(c) => NoneOut(c)')
         /\ \A i \in 1..n : todo[1][i] # c
<1>1. \A j \in DOMAIN todo' : \A i \in DOMAIN todo'[j] : todo'[j][i] # c
  <2>1. SUFFICES ASSUME NEW j \in DOMAIN todo', NEW i \in DOMAIN todo'[j] PROVE todo'[j][i] # c
    OBVIOUS
  <2>2. CASE j + sh = 1
    BY <2>1, <2>2, HandPlaces DEF NoneIn
  <2>3. CASE j + sh # 1
    BY <2>1, <2>3, HandPlaces DEF NoneIn
  <2> QED BY <2>2, <2>3
<1>2. \A i \in 1..n : todo[1][i] # c
  BY HandPlaces DEF NoneIn
<1>3. ASSUME NoneOut(c), NEW i \in DOMAIN wire' PROVE wire'[i].cmd # c
  <2>1. CASE i \in DOMAIN wire
    BY <1>3, <2>1, HandPlaces DEF NoneOut
  <2>2. CASE i \notin DOMAIN wire
    <3>1. PICK m \in 1..n : i = Len(wire) + m
      BY <1>3, <2>2, HandPlaces
    <3>2. wire'[i] = [cmd |-> todo[1][m], mine |-> TRUE]
      BY <3>1, HandPlaces
    <3> QED BY <1>2, <3>2
  <2> QED BY <2>1, <2>2
<1> QED BY <1>1, <1>2, <1>3 DEF NoneIn, NoneOut

LEMMA HandLead ==
  ASSUME InputFits, HandOver, NEW n, NEW sh, Handed(n, sh), NEW c, BeginsOnly(todo, c, 1)
  PROVE  /\ NoneIn(todo', c) /\ (NoneOut(c) => OneOut(c)')
         /\ 1 \in 1..n /\ todo[1][1] = c
<1>1. \A j \in DOMAIN todo' : \A i \in DOMAIN todo'[j] : todo'[j][i] # c
  <2>1. SUFFICES ASSUME NEW j \in DOMAIN todo', NEW i \in DOMAIN todo'[j] PROVE todo'[j][i] # c
    OBVIOUS
  <2>2. CASE j + sh = 1
    BY <2>1, <2>2, HandPlaces DEF BeginsOnly
  <2>3. CASE j + sh # 1
    BY <2>1, <2>3, HandPlaces DEF BeginsOnly
  <2> QED BY <2>2, <2>3
<1>2. 1 \in 1..n /\ todo[1][1] = c /\ \A i \in 1..n : todo[1][i] = c => i = 1
  BY HandPlaces DEF BeginsOnly
<1>3. ASSUME NoneOut(c) PROVE OneOut(c)'
  <2>1. Len(wire) + 1 \in DOMAIN wire' /\ wire'[Len(wire) + 1] = [cmd |-> c, mine |-> TRUE]
    BY <1>2, HandPlaces
  <2>2. ASSUME NEW i \in DOMAIN wire', wire'[i].cmd = c PROVE i = Len(wire) + 1
    <3>1. CASE i \in DOMAIN wire
      BY <1>3, <2>2, <3>1, HandPlaces DEF NoneOut
    <3>2. CASE i \notin DOMAIN wire
      <4>1. PICK m \in 1..n : i = Len(wire) + m
        BY <2>2, <3>2, HandPlaces
      <4>2. wire'[i] = [cmd |-> todo[1][m], mine |-> TRUE]
        BY <4>1, HandPlaces
      <4> QED BY <1>2, <2>2, <4>1, <4>2
    <3> QED BY <3>1, <3>2
  <2> QED BY <2>1, <2>2 DEF OneOut
<1> QED BY <1>1, <1>2, <1>3 DEF NoneIn

LEMMA HandLater ==
  ASSUME InputFits, HandOver, NEW n, NEW sh, Handed(n, sh), NEW c,
         NEW j, j # 1, BeginsOnly(todo, c, j)
  PROVE  /\ OneIn(todo', c) /\ (NoneOut(c) => NoneOut(c)')
         /\ \A i \in 1..n : todo[1][i] # c
<1>1. j \in DOMAIN todo /\ todo[j][1] = c
      /\ \A m \in DOMAIN todo : \A i \in DOMAIN todo[m] : todo[m][i] = c => m = j /\ i = 1
  BY DEF BeginsOnly
<1>2. j - sh \in DOMAIN todo' /\ todo'[j - sh] = todo[j]
  BY <1>1, HandPlaces
<1>3. ASSUME NEW m \in DOMAIN todo', NEW i \in DOMAIN todo'[m], todo'[m][i] = c
      PROVE  m = j - sh /\ i = 1
  <2>1. CASE m + sh = 1
    BY <1>1, <1>3, <2>1, HandPlaces
  <2>2. CASE m + sh # 1
    <3>1. m + sh = j /\ i = 1
      BY <1>1, <1>3, <2>2, HandPlaces
    <3>2. m \in Int /\ sh \in Int
      <4>1. todo' \in Seq(Seq(Command))
        BY HandFacts DEF Batches
      <4> QED BY <1>3, <4>1, HandPlaces
    <3> QED BY <3>1, <3>2
  <2> QED BY <2>1, <2>2
<1>4. OneIn(todo', c)
  BY <1>1, <1>2, <1>3 DEF OneIn, BeginsOnly
<1>5. \A i \in 1..n : todo[1][i] # c
  BY <1>1, HandPlaces
<1>6. ASSUME NoneOut(c), NEW i \in DOMAIN wire' PROVE wire'[i].cmd # c
  <2>1. CASE i \in DOMAIN wire
    BY <1>6, <2>1, HandPlaces DEF NoneOut
  <2>2. CASE i \notin DOMAIN wire
    <3>1. PICK m \in 1..n : i = Len(wire) + m
      BY <1>6, <2>2, HandPlaces
    <3>2. wire'[i] = [cmd |-> todo[1][m], mine |-> TRUE]
      BY <3>1, HandPlaces
    <3> QED BY <1>5, <3>2
  <2> QED BY <2>1, <2>2
<1> QED BY <1>4, <1>5, <1>6 DEF NoneOut

LEMMA HandSingle ==
  ASSUME InputFits, HandOver, NEW n, NEW sh, Handed(n, sh), Len(todo[1]) = 1
  PROVE  n = 1 /\ sh = 1
<1>1. n = 1
  BY DEF Handed
<1>2. SUFFICES ASSUME sh = 0 PROVE FALSE
  BY <1>1 DEF Handed
<1>3. todo' \in Seq(Seq(Command)) /\ Filled(todo')
  BY HandFacts DEF Batches
<1>4. 1 \in DOMAIN todo' /\ Len(todo'[1]) = 0
  BY <1>1, <1>2 DEF Handed
<1>5. todo'[1] \in Seq(Command)
  BY <1>3, <1>4, ElementOfSeq, LenProperties
<1> QED BY <1>3, <1>4, <1>5, EmptySeq DEF Filled

LEMMA HandChars ==
  ASSUME InputFits, HandOver, NEW n, NEW sh, Handed(n, sh),
         NEW k \in Nat, k >= 1, CharsIn(todo, k)
  PROVE  /\ CharsIn(todo', k - 1) /\ (NoneOut("chars") => OneOut("chars")')
         /\ 1 \in 1..n /\ todo[1][1] = "chars"
<1>1. /\ 1 \in DOMAIN todo /\ todo[1] = <<"chars">>
      /\ todo' \in Seq(Seq(Command)) /\ Filled(todo') /\ todo \in Seq(Seq(Command))
  BY HandFacts DEF CharsIn, Batches, InputFits, InputTypeOK
<1>2. Len(todo[1]) = 1 /\ todo[1][1] = "chars"
  BY <1>1
<1>3. n = 1 /\ 1 \in 1..n
  BY <1>2, HandSingle
<1>4. sh = 1
  BY <1>2, HandSingle
<1>5. Len(todo') = Len(todo) - 1 /\ Len(todo) \in Nat /\ DOMAIN todo = 1..Len(todo)
      /\ DOMAIN todo' = 1..Len(todo')
  BY <1>1, <1>4, LenProperties DEF Handed
<1>6. \A j \in DOMAIN todo' : j + 1 \in DOMAIN todo /\ todo'[j] = todo[j + 1]
  BY <1>4, <1>5 DEF Handed
<1>7. CharsIn(todo', k - 1)
  <2>1. k - 1 <= Len(todo')
    BY <1>5 DEF CharsIn
  <2>2. ASSUME NEW j \in DOMAIN todo'
        PROVE  /\ j <= k - 1 => todo'[j] = <<"chars">>
               /\ j > k - 1 => \A i \in DOMAIN todo'[j] : todo'[j][i] # "chars"
    <3>1. j \in Nat /\ (j <= k - 1 => j + 1 <= k) /\ (j > k - 1 => j + 1 > k)
      BY <1>5
    <3> QED BY <1>6, <3>1 DEF CharsIn
  <2> QED BY <2>1, <2>2 DEF CharsIn
<1>8. ASSUME NoneOut("chars") PROVE OneOut("chars")'
  <2>1. Len(wire) + 1 \in DOMAIN wire' /\ wire'[Len(wire) + 1] = [cmd |-> "chars", mine |-> TRUE]
    BY <1>2, <1>3, HandPlaces
  <2>2. ASSUME NEW i \in DOMAIN wire', wire'[i].cmd = "chars" PROVE i = Len(wire) + 1
    <3>1. CASE i \in DOMAIN wire
      BY <1>8, <2>2, <3>1, HandPlaces DEF NoneOut
    <3>2. CASE i \notin DOMAIN wire
      BY <1>3, <2>2, <3>2, HandPlaces
    <3> QED BY <3>1, <3>2
  <2> QED BY <2>1, <2>2 DEF OneOut
<1> QED BY <1>2, <1>3, <1>7, <1>8

LEMMA NotAwaited ==
  ASSUME ~Awaiting, NEW c, NEW n, Sent(c, n)
  PROVE  done[c] = n /\ NoneOut(c)
BY DEF Awaiting, Sent, OneOut

LEMMA NoChars ==
  ASSUME NEW batches \in Batches
  PROVE  CharsIn(batches, 0) <=> NoneIn(batches, "chars")
<1>1. Len(batches) \in Nat /\ DOMAIN batches = 1..Len(batches)
  BY DEF Batches
<1>2. \A j \in DOMAIN batches : j > 0 /\ ~(j <= 0)
  BY <1>1
<1> QED BY <1>1, <1>2 DEF CharsIn, NoneIn

LEMMA HandOverInv ==
  ASSUME InputInv, HandOver
  PROVE  InputInv'
<1>0. /\ InputFits /\ tool # "none" /\ outcome = "none" /\ ~Awaiting
      /\ link' = link /\ call' = call /\ tool' = tool /\ attempt' = attempt /\ doubts' = doubts
      /\ done' = done /\ held' = held /\ outcome' = outcome
  BY DEF InputInv, HandOver, Working
<1>1. /\ wire' \in Seq(OnWire) /\ todo' \in Batches /\ Filled(todo')
  BY <1>0, HandFacts
<1>2. PICK n, sh : Handed(n, sh)
  BY <1>0, HandFacts
<1>3. /\ mainSent \in BOOLEAN /\ todo \in Batches
      /\ mainSent = TRUE \/ (\E i \in 1..n : todo[1][i] \in Main) => mainSent' = TRUE
      /\ (\A i \in 1..n : todo[1][i] \notin Main) => mainSent' = mainSent
  BY <1>0, <1>2 DEF Handed, InputFits, InputTypeOK, Batches
<1>4. /\ call \in InputCall /\ Main = (IF call.tool \in TypeTools THEN Texts ELSE {Lead})
      /\ Lead = "insert" <=> call.tool \in TypeTools
      /\ Lead' = Lead
  BY <1>0, CallFits, MainFacts DEF Lead, LeadOf
<1>5. InputFits'
  <2>1. mainSent' \in BOOLEAN
    BY <1>3
  <2>2. InputTypeOK'
    BY <1>0, <1>1, <2>1 DEF InputFits, InputTypeOK, Batches, OnWire
  <2>3. Suits(tool)'
    BY <1>0 DEF InputFits, Suits
  <2> QED BY <1>0, <1>1, <2>2, <2>3 DEF InputFits
<1>6. ASSUME OnTrack, Straight
      PROVE  Straight'
  <2>1. NoneIn(todo', "chars") /\ NoneOut("chars")' /\ done["chars"] = 0
        /\ \A i \in 1..n : todo[1][i] # "chars"
    BY <1>0, <1>2, <1>6, HandNone DEF Straight, Unsent
  <2>2. Unsent("chars")'
    BY <1>0, <2>1 DEF Unsent
  <2>3. PICK m : m = Lead
    OBVIOUS
  <2>4. CASE mainSent = TRUE
    <3>1. NoneIn(todo, m) /\ NoneOut(m) /\ done[m] = 1 /\ mainSent' = TRUE
      BY <1>0, <1>3, <1>6, <2>3, <2>4, NotAwaited DEF Straight
    <3>2. NoneIn(todo', m) /\ NoneOut(m)'
      BY <1>0, <1>2, <3>1, HandNone
    <3>3. Sent(m, 1)'
      BY <1>0, <3>1, <3>2 DEF Sent
    <3> QED BY <1>4, <2>1, <2>2, <2>3, <3>1, <3>2, <3>3 DEF Straight, Sent, NoneOut, OneOut
  <2>5. CASE mainSent = FALSE
    <3>1. Unsent(m) /\ tool # "enter" /\ OneIn(todo, m)
      BY <1>0, <1>6, <2>3, <2>5 DEF Straight
    <3>2. PICK j : BeginsOnly(todo, m, j)
      BY <3>1 DEF OneIn
    <3>3. CASE j = 1
      <4>1. NoneIn(todo', m) /\ OneOut(m)' /\ 1 \in 1..n /\ todo[1][1] = m /\ done[m] = 0
        BY <1>0, <1>2, <3>1, <3>2, <3>3, HandLead DEF Unsent
      <4>2. mainSent' = TRUE
        BY <1>3, <1>4, <2>3, <4>1 DEF Texts
      <4>3. Sent(m, 1)'
        BY <1>0, <4>1 DEF Sent
      <4> QED BY <1>4, <2>1, <2>2, <2>3, <4>1, <4>2, <4>3 DEF Straight, Sent, NoneOut, OneOut
    <3>4. CASE j # 1
      <4>1. OneIn(todo', m) /\ NoneOut(m)' /\ \A i \in 1..n : todo[1][i] # m
        BY <1>0, <1>2, <3>1, <3>2, <3>4, HandLater DEF Unsent
      <4>2. mainSent' = FALSE
        BY <1>3, <1>4, <2>1, <2>3, <2>5, <4>1 DEF Texts
      <4>3. Unsent(m)'
        BY <1>0, <3>1, <4>1 DEF Unsent
      <4> QED BY <1>0, <1>4, <2>1, <2>2, <2>3, <3>1, <4>1, <4>2, <4>3 DEF Straight, Unsent, NoneOut
    <3> QED BY <3>3, <3>4
  <2> QED BY <1>3, <2>4, <2>5
<1>7. ASSUME call.tool \in TypeTools, NEW k \in 0..TextChunks, InChars(k)
      PROVE  \E m \in 0..TextChunks : InChars(m)'
  <2>0. TextChunks \in Nat \ {0} /\ Main = Texts
    BY <1>4, <1>7, InputAssumption
  <2>1. NoneIn(todo', "insert") /\ Unsent("insert")'
    BY <1>0, <1>2, <1>7, HandNone DEF InChars, Unsent
  <2>2. NoneOut("chars") /\ done["chars"] = TextChunks - k
    BY <1>0, <1>3, <1>7, <2>0, NotAwaited DEF InChars, Unsent
  <2>3. CASE k = 0
    <3>1. mainSent = TRUE /\ mainSent' = TRUE
      BY <1>3, <1>7, <2>0, <2>3 DEF InChars
    <3>2. NoneIn(todo, "chars")
      BY <1>3, <1>7, <2>3, NoChars DEF InChars
    <3>3. CharsIn(todo', 0) /\ NoneOut("chars")'
      BY <1>0, <1>1, <1>2, <2>2, <3>2, HandNone, NoChars
    <3>4. Sent("chars", TextChunks - 0)'
      BY <1>0, <2>2, <2>3, <3>3 DEF Sent
    <3>5. InChars(0)'
      BY <2>0, <2>1, <3>1, <3>3, <3>4 DEF InChars
    <3> QED BY <2>0, <3>5
  <2>4. CASE k # 0
    <3>1. k \in Nat /\ k >= 1 /\ k - 1 \in 0..TextChunks /\ k - 1 < TextChunks
          /\ TextChunks - k + 1 = TextChunks - (k - 1)
      BY <2>0, <2>4
    <3>2. CharsIn(todo', k - 1) /\ OneOut("chars")' /\ 1 \in 1..n /\ todo[1][1] = "chars"
      BY <1>0, <1>2, <1>7, <2>2, <3>1, HandChars DEF InChars
    <3>3. mainSent' = TRUE
      BY <1>3, <2>0, <3>2 DEF Texts
    <3>4. Sent("chars", TextChunks - (k - 1))'
      BY <1>0, <2>2, <3>1, <3>2 DEF Sent
    <3>5. InChars(k - 1)'
      BY <2>1, <3>1, <3>2, <3>3, <3>4 DEF InChars
    <3> QED BY <3>1, <3>5
  <2> QED BY <2>3, <2>4
<1>8. ASSUME OnTrack
      PROVE  OnTrack'
  <2>1. call.tool \notin TypeTools => NoneIn(todo', "insert") /\ NoneOut("insert")'
    BY <1>0, <1>2, <1>8, HandNone DEF OnTrack
  <2>2. Straight' \/ (call.tool \in TypeTools /\ \E m \in 0..TextChunks : InChars(m)')
    BY <1>6, <1>7, <1>8 DEF OnTrack
  <2> QED BY <1>0, <2>1, <2>2 DEF OnTrack
<1> QED BY <1>0, <1>5, <1>8 DEF InputInv

LEMMA InputInitInv == InputInit => InputInv
<1> SUFFICES ASSUME InputInit PROVE InputInv
  OBVIOUS
<1>1. InputTypeOK
  <2>1. done \in [Command -> Nat]
    BY DEF InputInit
  <2>2. << >> \in Seq(Seq(Command)) /\ << >> \in Seq([cmd : Command, mine : BOOLEAN])
    OBVIOUS
  <2>3. /\ link \in {"direct", "extension"} /\ call \in InputCalls \cup {NoCall}
        /\ tool \in ToolNames \cup {"none"}
    BY DEF InputInit
  <2>5. attempt \in 0..3 /\ doubts \in Nat
    BY DEF InputInit
  <2>6. mainSent \in BOOLEAN
    BY DEF InputInit
  <2>4. /\ todo \in Seq(Seq(Command)) /\ wire \in Seq([cmd : Command, mine : BOOLEAN])
        /\ held \subseteq {"button", "key"} /\ outcome \in {"none", "ok", "error"}
    BY <2>2 DEF InputInit
  <2> QED BY <2>1, <2>3, <2>4, <2>5, <2>6 DEF InputTypeOK
<1> QED BY <1>1 DEF InputInit, InputInv, InputFits, Filled

LEMMA CalledInv ==
  ASSUME InputInv, NEW c \in InputCalls, Called(c)
  PROVE  InputInv'
<1>0. /\ tool = "none" /\ call' = c /\ tool' = c.tool /\ attempt' = 1
      /\ todo' = SendsOf(c.tool, c) /\ link' = link /\ wire' = wire /\ mainSent' = mainSent
      /\ doubts' = doubts /\ done' = done /\ held' = held /\ outcome' = outcome
  BY DEF Called
<1>1. InputFits /\ wire = <<>> /\ outcome = "none" /\ mainSent = FALSE
      /\ done = [x \in Command |-> 0] /\ c \in InputCall
  BY <1>0, InputAssumption DEF InputInv, InputFits
<1>2. c.tool \in CallTools /\ Suits(tool)' /\ c.tool # "none" /\ c.tool # "enter"
      /\ c.tool \in ToolNames
  BY <1>0, <1>1 DEF InputCall, Suits, SuitsFor, CallTools, ClickTools, TypeTools, KeyTools, MouseTools,
                    FormTools, ToolNames, Tool
<1>3. /\ todo' \in Batches /\ Filled(todo') /\ NoneIn(todo', "chars")
      /\ (c.tool \notin TypeTools => NoneIn(todo', "insert"))
      /\ OneIn(todo', Lead')
  <2>1. /\ SendsOf(c.tool, c) \in Batches /\ Filled(SendsOf(c.tool, c))
        /\ NoneIn(SendsOf(c.tool, c), "chars")
        /\ (c.tool \notin TypeTools => NoneIn(SendsOf(c.tool, c), "insert"))
        /\ OneIn(SendsOf(c.tool, c), LeadOf(c))
    <3>1. SuitsFor(c.tool, c)
      BY <1>2 DEF SuitsFor
    <3> QED BY <1>1, <1>2, <3>1, PlansFor
  <2>2. Lead' = LeadOf(c)
    BY <1>0 DEF Lead
  <2> QED BY <1>0, <2>1, <2>2
<1>4. InputFits'
  <2>1. InputTypeOK'
    BY <1>0, <1>1, <1>2, <1>3 DEF InputFits, InputTypeOK, Batches
  <2> QED BY <1>0, <1>2, <1>3, <2>1 DEF InputFits
<1>5. OnTrack'
  <2>1. Lead' \in Command /\ "chars" \in Command /\ "insert" \in Command
    BY DEF Lead, LeadOf, Command
  <2>2. /\ done'[Lead'] = 0 /\ done'["chars"] = 0 /\ done'["insert"] = 0 /\ wire' = << >>
        /\ mainSent' = FALSE /\ outcome' = "none" /\ tool' # "enter"
    BY <1>0, <1>1, <1>2, <2>1
  <2>3. Straight'
    BY <1>3, <2>2 DEF Straight, Unsent, NoneOut
  <2> QED BY <1>0, <1>3, <2>2, <2>3 DEF OnTrack, NoneOut
<1> QED BY <1>4, <1>5 DEF InputInv

LEMMA TodoFacts ==
  ASSUME InputFits, todo # << >>
  PROVE  /\ Head(todo) = todo[1] /\ Tail(todo) \in Batches /\ Filled(Tail(todo))
         /\ 1 \in DOMAIN todo /\ 1 \in DOMAIN todo[1] /\ Head(Head(todo)) = todo[1][1]
         /\ \A j \in DOMAIN Tail(todo) : j + 1 \in DOMAIN todo /\ j + 1 # 1 /\ Tail(todo)[j] = todo[j + 1]
<1>1. todo \in Seq(Seq(Command)) /\ Filled(todo)
  BY DEF InputFits, InputTypeOK
<1>2. Len(todo) \in Nat /\ Len(todo) >= 1 /\ DOMAIN todo = 1..Len(todo) /\ Head(todo) = todo[1]
  BY <1>1
<1>3. 1 \in DOMAIN todo
  BY <1>2
<1>4. todo[1] \in Seq(Command) /\ todo[1] # << >>
  BY <1>1, <1>2, <1>3, ElementOfSeq DEF Filled
<1>5. 1 \in DOMAIN todo[1] /\ Head(todo[1]) = todo[1][1]
  BY <1>4
<1>6. /\ Tail(todo) \in Seq(Seq(Command)) /\ Len(Tail(todo)) = Len(todo) - 1
      /\ \A j \in 1..(Len(todo) - 1) : Tail(todo)[j] = todo[j + 1]
  BY <1>1, HeadTailProperties
<1>7. DOMAIN Tail(todo) = 1..(Len(todo) - 1)
  BY <1>6, LenProperties
<1>8. \A j \in DOMAIN Tail(todo) : j + 1 \in DOMAIN todo /\ j + 1 # 1 /\ Tail(todo)[j] = todo[j + 1]
  BY <1>2, <1>6, <1>7
<1>9. Filled(Tail(todo))
  BY <1>1, <1>8 DEF Filled
<1> QED BY <1>2, <1>3, <1>5, <1>6, <1>8, <1>9 DEF Batches

LEMMA RefusedInv ==
  ASSUME InputInv, Refused
  PROVE  InputInv'
<1>0. /\ InputFits /\ Working /\ todo # << >> /\ tool # "none" /\ outcome = "none"
      /\ Trouble(Head(Head(todo)), Tail(todo)) /\ wire' = wire /\ done' = done /\ held' = held
  BY DEF InputInv, Refused, Working
<1>1. /\ wire' \in Seq([cmd : Command, mine : BOOLEAN]) /\ done' \in [Command -> Nat]
      /\ held' \subseteq {"button", "key"}
  BY <1>0 DEF InputFits, InputTypeOK
<1>2. \A c : (Unsent(c) => Unsent(c)') /\ (NoneOut(c) => NoneOut(c)')
  BY <1>0 DEF Unsent, NoneOut
<1>3. ASSUME OnTrack, mainSent = FALSE, Head(Head(todo)) = "insert"
      PROVE  call.tool \in TypeTools /\ NoneIn(Tail(todo), "insert") /\ NoneIn(Tail(todo), "chars")
  <2>1. 1 \in DOMAIN todo /\ 1 \in DOMAIN todo[1] /\ todo[1][1] = "insert"
    BY <1>0, <1>3, TodoFacts
  <2>2. ~NoneIn(todo, "insert")
    BY <2>1 DEF NoneIn
  <2>3. call.tool \in TypeTools /\ Straight
    BY <1>3, <2>2 DEF OnTrack, InChars
  <2>4. OneIn(todo, "insert") /\ NoneIn(todo, "chars")
    BY <1>0, <1>3, <2>3, CallFits, MainFacts DEF Straight
  <2>5. \A j \in DOMAIN todo : j # 1 => \A i \in DOMAIN todo[j] : todo[j][i] # "insert"
    BY <2>1, <2>4 DEF OneIn, BeginsOnly
  <2> QED BY <1>0, <2>3, <2>4, <2>5, TodoFacts DEF NoneIn
<1> QED BY <1>0, <1>1, <1>2, <1>3, TodoFacts, TroubleInv

LEMMA ConnectFailsInv ==
  ASSUME InputInv, ConnectFails
  PROVE  InputInv'
<1>0. Working /\ Fail("smart") /\ wire' = wire /\ done' = done /\ held' = held
  BY DEF ConnectFails
<1>1. /\ wire' \in Seq([cmd : Command, mine : BOOLEAN]) /\ done' \in [Command -> Nat]
      /\ held' \subseteq {"button", "key"}
  BY <1>0 DEF InputInv, InputFits, InputTypeOK
<1>2. \A c : (Unsent(c) => Unsent(c)') /\ (NoneOut(c) => NoneOut(c)')
  BY <1>0 DEF Unsent, NoneOut
<1> QED BY <1>0, <1>1, <1>2, FailInv

LEMMA CarryOutInv ==
  ASSUME InputInv, CarryOut
  PROVE  InputInv'
<1>0. /\ InputFits /\ wire # << >> /\ Effect(Head(wire).cmd) /\ wire' = Tail(wire)
      /\ link' = link /\ call' = call /\ tool' = tool /\ attempt' = attempt /\ todo' = todo
      /\ mainSent' = mainSent /\ doubts' = doubts /\ outcome' = outcome /\ InputTypeOK
  BY DEF InputInv, InputFits, CarryOut
<1>1. /\ wire' \in Seq([cmd : Command, mine : BOOLEAN]) /\ done' \in [Command -> Nat]
      /\ held' \subseteq {"button", "key"} /\ (~Awaiting => ~Awaiting')
  <2>1. "look" \in Command /\ 0 \in Nat
    BY DEF Command
  <2> QED BY <1>0, <2>1, CarriedOut
<1>2. \A c \in Command : /\ Unsent(c) => Unsent(c)'
                         /\ NoneOut(c) => NoneOut(c)'
                         /\ \A m \in Nat : Sent(c, m) => Sent(c, m)'
  <2> TAKE c \in Command
  <2>1. 0 \in Nat
    OBVIOUS
  <2> QED BY <1>0, <2>1, CarriedOut
<1>3. InputFits'
  <2>1. InputTypeOK'
    BY <1>0, <1>1 DEF InputTypeOK
  <2>2. Suits(tool)' <=> Suits(tool)
    BY <1>0 DEF Suits
  <2>3. tool # "none"
    BY <1>0 DEF InputFits
  <2> QED BY <1>0, <2>1, <2>2, <2>3 DEF InputFits
<1>4. ASSUME OnTrack, tool # "none"
      PROVE  OnTrack'
  <2>1. Lead' = Lead /\ Lead \in Command /\ {"chars", "insert"} \subseteq Command
    BY <1>0 DEF Lead, LeadOf, Command
  <2>2. PICK c \in Command : c = Lead
    BY <2>1
  <2>3. Straight => Straight'
    <3>1. /\ Unsent(c) => Unsent(c)'
          /\ Sent(c, 1) => Sent(c, 1)'
          /\ Unsent("chars") => Unsent("chars")'
      BY <1>2, <2>1
    <3> QED BY <1>0, <2>1, <2>2, <3>1 DEF Straight, Unsent, Sent, NoneOut, OneOut
  <2>4. ASSUME NEW k \in 0..TextChunks, InChars(k)
        PROVE  InChars(k)'
    <3>1. TextChunks - k \in Nat
      BY InputAssumption
    <3>2. /\ Unsent("insert") => Unsent("insert")'
          /\ Unsent("chars") => Unsent("chars")'
          /\ Sent("chars", TextChunks - k) => Sent("chars", TextChunks - k)'
      BY <1>2, <2>1, <3>1
    <3>3. CharsIn(todo', k) <=> CharsIn(todo, k)
      BY <1>0
    <3> QED BY <1>0, <2>4, <3>2, <3>3 DEF InChars
  <2>5. NoneOut("insert") => NoneOut("insert")'
    BY <1>2, <2>1
  <2>6. Straight' \/ (call.tool \in TypeTools /\ \E k \in 0..TextChunks : InChars(k)')
    BY <1>4, <2>3, <2>4 DEF OnTrack
  <2> QED BY <1>0, <1>1, <1>4, <2>5, <2>6 DEF OnTrack
<1> QED BY <1>0, <1>3, <1>4 DEF InputInv

\* An insertion on the wire was handed over by this attempt.
LEMMA InsertSent ==
  ASSUME InputFits, OnTrack, tool # "none", mainSent = FALSE
  PROVE  NoneOut("insert")
<1>1. Unsent(Lead)
  BY UnsentFacts
<1>2. call.tool \in TypeTools => Lead = "insert"
  BY CallFits, MainFacts
<1> QED BY <1>1, <1>2 DEF OnTrack, Unsent

\* Some wire's loss, and the effect that a submit may have had.
LEMMA LostWire ==
  ASSUME InputTypeOK, wire' = << >>, done' = done \/ Effect("submit"),
         held' = held \/ Effect("submit"), NEW c \in Command, c # "submit" \/ done' = done
  PROVE  /\ wire' \in Seq([cmd : Command, mine : BOOLEAN]) /\ done' \in [Command -> Nat]
         /\ held' \subseteq {"button", "key"}
         /\ Unsent(c) => Unsent(c)'
         /\ NoneOut(c)'
<1>1. << >> \in Seq([cmd : Command, mine : BOOLEAN])
  OBVIOUS
<1>2. Effect("submit") => done' = [done EXCEPT !["submit"] = @ + 1] /\ held' = held
  BY DEF Effect
<1>3. done \in [Command -> Nat] /\ held \subseteq {"button", "key"} /\ "submit" \in Command
  BY DEF InputTypeOK, Command
<1>4. done' \in [Command -> Nat] /\ done'[c] = done[c]
  BY <1>2, <1>3
<1>5. NoneOut(c)'
  BY DEF NoneOut
<1>6. held' \subseteq {"button", "key"}
  BY <1>2, <1>3
<1>7. Unsent(c) => Unsent(c)'
  BY <1>4, <1>5 DEF Unsent
<1> QED BY <1>1, <1>4, <1>5, <1>6, <1>7

LEMMA NotFoundInv ==
  ASSUME InputInv, NotFound
  PROVE  InputInv'
<1>0. InputFits /\ InputTypeOK /\ Working /\ Fail("missing") /\ wire' = << >> /\ done' = done
      /\ held' = held
  BY DEF InputInv, InputFits, NotFound
<1>1. {Lead, "chars", "insert"} \subseteq Command
  BY DEF Lead, LeadOf, Command
<1>2. \A c \in Command : (Unsent(c) => Unsent(c)') /\ NoneOut(c)'
  BY <1>0, LostWire
<1>3. /\ wire' \in Seq([cmd : Command, mine : BOOLEAN]) /\ done' \in [Command -> Nat]
      /\ held' \subseteq {"button", "key"}
  BY <1>0, <1>1, LostWire
<1> QED BY <1>0, <1>1, <1>2, <1>3, FailInv

\* An attempt is given up over a command that was on the wire.
LEMMA WireTroubleInv ==
  ASSUME InputInv, Working, NEW i \in DOMAIN wire, Trouble(wire[i].cmd, todo),
         wire' \in Seq([cmd : Command, mine : BOOLEAN]), done' \in [Command -> Nat],
         held' \subseteq {"button", "key"},
         \A c \in {Lead, "chars"} : Unsent(c) => Unsent(c)',
         NoneOut("insert") => NoneOut("insert")'
  PROVE  InputInv'
<1>1. InputFits /\ tool # "none" /\ todo \in Batches /\ Filled(todo)
  BY DEF InputInv, InputFits, InputTypeOK, Working, Batches
<1>2. ~(OnTrack /\ mainSent = FALSE /\ wire[i].cmd = "insert")
  BY <1>1, InsertSent DEF NoneOut
<1> QED BY <1>1, <1>2, TroubleInv

LEMMA RejectedInv ==
  ASSUME InputInv, Rejected
  PROVE  InputInv'
<1>0. InputFits /\ InputTypeOK /\ Working /\ Trouble(Head(wire).cmd, todo) /\ wire' = << >>
      /\ wire # << >> /\ tool # "none"
      /\ \/ done' = done /\ held' = held
         \/ Head(wire).cmd = "submit" /\ Effect("submit")
  BY DEF InputInv, InputFits, Rejected, Working
<1>1. {Lead, "chars", "insert"} \subseteq Command
  BY DEF Lead, LeadOf, Command
<1>2. 1 \in DOMAIN wire /\ Head(wire) = wire[1]
  BY <1>0 DEF InputTypeOK
<1>3. /\ wire' \in Seq([cmd : Command, mine : BOOLEAN]) /\ done' \in [Command -> Nat]
      /\ held' \subseteq {"button", "key"} /\ NoneOut("insert")'
      /\ (Unsent("chars") => Unsent("chars")')
  BY <1>0, <1>1, LostWire
<1>4. ASSUME Unsent(Lead), NEW c \in {Lead, "chars"}, Unsent(c)
      PROVE  Unsent(c)'
  <2>1. Head(wire).cmd # Lead
    BY <1>2, <1>4 DEF Unsent, NoneOut
  <2>2. c \in Command /\ (c # "submit" \/ done' = done)
    BY <1>0, <1>1, <2>1
  <2> QED BY <1>0, <1>4, <2>2, LostWire
<1> QED BY <1>0, <1>2, <1>3, <1>4, WireTroubleInv

LEMMA TimesOutInv ==
  ASSUME InputInv, TimesOut
  PROVE  InputInv'
<1>0. InputFits /\ InputTypeOK /\ Working /\ Awaiting /\ Trouble(wire[Len(wire)].cmd, todo)
      /\ wire' = [i \in DOMAIN wire |-> [wire[i] EXCEPT !.mine = FALSE]]
      /\ done' = done /\ held' = held
  BY DEF InputInv, InputFits, TimesOut
<1>1. wire \in Seq(OnWire) /\ Len(wire) \in Nat /\ DOMAIN wire = 1..Len(wire)
      /\ \A i \in DOMAIN wire : wire[i] \in OnWire
  <2>1. wire \in Seq(OnWire)
    BY <1>0 DEF InputTypeOK, OnWire
  <2> QED BY <2>1, LenProperties, ElementOfSeq
<1>2. Len(wire) \in DOMAIN wire
  BY <1>0, <1>1 DEF Awaiting
<1>3. /\ DOMAIN wire' = DOMAIN wire
      /\ \A i \in DOMAIN wire : wire'[i] = [wire[i] EXCEPT !.mine = FALSE]
  BY <1>0
<1>4. \A i \in DOMAIN wire : wire'[i] \in OnWire /\ wire'[i].cmd = wire[i].cmd
  BY <1>1, <1>3 DEF OnWire
<1>5. wire' \in Seq(OnWire)
  <2>1. wire' \in [1..Len(wire) -> OnWire]
    BY <1>0, <1>1, <1>3, <1>4
  <2> QED BY <1>1, <2>1, FunctionSeq
<1>6. \A c : (Unsent(c) => Unsent(c)') /\ (NoneOut(c) => NoneOut(c)')
  BY <1>0, <1>3, <1>4 DEF Unsent, NoneOut
<1> QED BY <1>0, <1>2, <1>5, <1>6, WireTroubleInv DEF OnWire, InputTypeOK

LEMMA BreaksInv ==
  ASSUME InputInv, Breaks
  PROVE  InputInv'
<1>0. InputFits /\ InputTypeOK /\ Working /\ wire # << >> /\ wire' = << >>
      /\ done' = done /\ held' = held /\ tool # "none" /\ outcome = "none"
  BY DEF InputInv, InputFits, Breaks, Working
<1>1. {Lead, "chars", "insert"} \subseteq Command
  BY DEF Lead, LeadOf, Command
<1>2. \A c \in Command : (Unsent(c) => Unsent(c)') /\ NoneOut(c)'
  BY <1>0, LostWire
<1>3. /\ wire' \in Seq([cmd : Command, mine : BOOLEAN]) /\ done' \in [Command -> Nat]
      /\ held' \subseteq {"button", "key"}
  BY <1>0, <1>1, LostWire
<1>4. CASE Awaiting
  <2>1. Len(wire) \in DOMAIN wire
    BY <1>0 DEF InputTypeOK
  <2>2. Trouble(wire[Len(wire)].cmd, todo)
    BY <1>4 DEF Breaks
  <2> QED BY <1>0, <1>1, <1>2, <1>3, <2>1, <2>2, WireTroubleInv
<1>5. CASE ~Awaiting
  <2>1. link' = link /\ call' = call /\ tool' = tool /\ attempt' = attempt /\ todo' = todo
        /\ mainSent' = mainSent /\ doubts' = doubts /\ outcome' = outcome
    BY <1>5 DEF Breaks
  <2>2. InputFits'
    <3>1. InputTypeOK'
      BY <1>0, <1>3, <2>1 DEF InputTypeOK
    <3>2. Suits(tool)' <=> Suits(tool)
      BY <2>1 DEF Suits
    <3> QED BY <1>0, <2>1, <3>1, <3>2 DEF InputFits
  <2>3. ASSUME OnTrack
        PROVE  OnTrack'
    <3>1. PICK c \in Command : c = Lead
      BY <1>1
    <3>2. Lead' = Lead
      BY <2>1 DEF Lead
    <3>3. \A d \in Command : \A m : Sent(d, m) => Sent(d, m)'
      BY <1>0, <1>2, <1>5, NotAwaited DEF Sent
    <3>4. Straight => Straight'
      <4>1. /\ Unsent(c) => Unsent(c)'
            /\ Sent(c, 1) => Sent(c, 1)'
            /\ Unsent("chars") => Unsent("chars")'
        BY <1>1, <1>2, <3>3
      <4> QED BY <2>1, <3>1, <3>2, <4>1 DEF Straight, Unsent, Sent, NoneOut, OneOut
    <3>5. ASSUME NEW k \in 0..TextChunks, InChars(k)
          PROVE  InChars(k)'
      <4>1. /\ Unsent("insert") => Unsent("insert")'
            /\ Unsent("chars") => Unsent("chars")'
            /\ Sent("chars", TextChunks - k) => Sent("chars", TextChunks - k)'
        BY <1>1, <1>2, <3>3
      <4>2. CharsIn(todo', k) <=> CharsIn(todo, k)
        BY <2>1
      <4> QED BY <2>1, <3>5, <4>1, <4>2 DEF InChars
    <3>6. Straight' \/ (call.tool \in TypeTools /\ \E k \in 0..TextChunks : InChars(k)')
      BY <2>3, <3>4, <3>5 DEF OnTrack
    <3> QED BY <1>0, <1>1, <1>2, <2>1, <2>3, <3>6 DEF OnTrack
  <2> QED BY <1>0, <2>1, <2>2, <2>3 DEF InputInv
<1> QED BY <1>4, <1>5

LEMMA FinishInv ==
  ASSUME InputInv, Finish
  PROVE  InputInv'
<1>0. /\ InputFits /\ Working /\ ~Awaiting /\ todo = << >> /\ tool # "none" /\ outcome = "none"
      /\ link' = link /\ call' = call /\ wire' = wire /\ mainSent' = mainSent
      /\ doubts' = doubts /\ done' = done /\ held' = held
  BY DEF InputInv, Finish, Working
<1>1. call \in InputCall /\ mainSent \in BOOLEAN /\ todo \in Batches
      /\ Lead' = Lead
  BY <1>0, CallFits DEF InputFits, InputTypeOK, Batches, Lead
<1>2. (\A c : NoneIn(todo, c)) /\ (\A c : ~OneIn(todo, c))
      /\ \A k \in Nat \ {0} : ~CharsIn(todo, k)
  BY <1>0 DEF NoneIn, OneIn, BeginsOnly, CharsIn
<1>3. OnTrack => mainSent = TRUE
  <2>1. SUFFICES ASSUME OnTrack PROVE mainSent = TRUE
    OBVIOUS
  <2>2. CASE Straight
    BY <1>0, <1>1, <1>2, <2>2 DEF Straight
  <2>3. ASSUME NEW k \in 0..TextChunks, InChars(k) PROVE mainSent = TRUE
    <3>1. k \in Nat /\ TextChunks \in Nat \ {0}
      BY InputAssumption
    <3> QED BY <1>1, <1>2, <2>3, <3>1 DEF InChars
  <2> QED BY <2>1, <2>2, <2>3 DEF OnTrack
<1>4. CASE tool \in {"typeSelector", "typeFocused"} /\ call.submit
  <2>1. tool' = "enter" /\ attempt' = 1 /\ todo' = SendsOf("enter", call) /\ outcome' = outcome
    BY <1>4 DEF Finish, Start
  <2>2. Suits(tool) /\ call.tool \in {"typeSelector", "typeFocused"}
    BY <1>0, <1>4 DEF InputFits, Suits, SuitsFor
  <2>3. Suits("enter") /\ Suits(tool)' /\ "enter" \in ToolNames /\ call.tool \in TypeTools
    BY <1>0, <1>4, <2>1, <2>2 DEF Suits, SuitsFor, ToolNames, Tool, TypeTools
  <2>4. /\ todo' \in Batches /\ Filled(todo') /\ NoneIn(todo', "chars")
        /\ NoneIn(todo', "insert")
    BY <1>1, <2>1, <2>3, InputPlans
  <2>5. InputFits'
    <3>1. InputTypeOK'
      BY <1>0, <2>1, <2>3, <2>4 DEF InputFits, InputTypeOK, Batches
    <3> QED BY <1>0, <2>1, <2>3, <2>4, <3>1 DEF InputFits
  <2>6. ASSUME OnTrack
        PROVE  OnTrack'
    <3>1. Lead = "insert" /\ mainSent = TRUE
      BY <1>1, <1>3, <2>3, <2>6, MainFacts
    <3>2. Straight => Straight'
      BY <1>0, <1>1, <2>4, <3>1 DEF Straight, Unsent, Sent, NoneOut, OneOut
    <3>3. ASSUME NEW k \in 0..TextChunks, InChars(k)
          PROVE  InChars(0)'
      <4>1. k = 0
        BY <1>2, <3>3, InputAssumption DEF InChars
      <4>2. CharsIn(todo', 0)
        BY <2>4, NoChars
      <4> QED BY <1>0, <2>4, <3>1, <3>3, <4>1, <4>2 DEF InChars, Unsent, Sent, NoneOut, OneOut
    <3>4. 0 \in 0..TextChunks
      BY InputAssumption
    <3> QED BY <1>0, <2>1, <2>3, <2>6, <3>2, <3>3, <3>4 DEF OnTrack
  <2> QED BY <1>0, <2>5, <2>6 DEF InputInv
<1>5. CASE ~(tool \in {"typeSelector", "typeFocused"} /\ call.submit)
  <2>1. outcome' = "ok" /\ tool' = tool /\ attempt' = attempt /\ todo' = todo
    BY <1>5 DEF Finish
  <2>2. InputFits'
    <3>1. InputTypeOK'
      BY <1>0, <2>1 DEF InputFits, InputTypeOK
    <3>2. Suits(tool)' <=> Suits(tool)
      BY <1>0, <2>1 DEF Suits
    <3> QED BY <1>0, <2>1, <3>1, <3>2 DEF InputFits
  <2>3. ASSUME OnTrack
        PROVE  OnTrack'
    <3>1. mainSent = TRUE
      BY <1>3, <2>3
    <3>2. Straight => Straight'
      BY <1>0, <1>1, <2>1, <3>1 DEF Straight, Unsent, Sent, NoneOut, OneOut
    <3>3. ASSUME NEW k \in 0..TextChunks, InChars(k)
          PROVE  InChars(k)'
      BY <1>0, <2>1, <3>1, <3>3 DEF InChars, Unsent, Sent, NoneOut, OneOut
    <3>4. ~Awaiting'
      BY <1>0 DEF Awaiting
    <3>5. Straight' \/ (call.tool \in TypeTools /\ \E k \in 0..TextChunks : InChars(k)')
      BY <2>3, <3>2, <3>3 DEF OnTrack
    <3> QED BY <1>0, <2>1, <2>3, <3>1, <3>4, <3>5 DEF OnTrack, NoneOut
  <2> QED BY <1>0, <2>2, <2>3 DEF InputInv
<1> QED BY <1>4, <1>5

LEMMA InputNextInv ==
  ASSUME InputInv, [InputNext]_inputVars
  PROVE  InputInv'
<1>1. CASE \E c \in InputCalls : Called(c)
  BY <1>1, CalledInv
<1>2. CASE ConnectFails
  BY <1>2, ConnectFailsInv
<1>3. CASE HandOver
  BY <1>3, HandOverInv
<1>4. CASE Refused
  BY <1>4, RefusedInv
<1>5. CASE CarryOut
  BY <1>5, CarryOutInv
<1>6. CASE NotFound
  BY <1>6, NotFoundInv
<1>7. CASE Rejected
  BY <1>7, RejectedInv
<1>8. CASE TimesOut
  BY <1>8, TimesOutInv
<1>9. CASE Breaks
  BY <1>9, BreaksInv
<1>10. CASE Finish
  BY <1>10, FinishInv
<1>11. CASE UNCHANGED inputVars
  BY <1>11 DEF inputVars, InputInv, InputFits, InputTypeOK, Suits, OnTrack, Straight, InChars,
               Unsent, Sent, NoneOut, OneOut, Lead, Awaiting
<1> QED BY <1>1, <1>2, <1>3, <1>4, <1>5, <1>6, <1>7, <1>8, <1>9, <1>10, <1>11
        DEF InputNext, InputStep

\* What the invariant says of a call that has ended.
LEMMA EndedOnce ==
  ASSUME InputInv
  PROVE  OnceUnlessInDoubt
<1> SUFFICES ASSUME doubts = 0, outcome \in {"error", "ok"} PROVE OnceUnlessInDoubt
  BY DEF OnceUnlessInDoubt
<1>1. InputFits /\ tool # "none" /\ OnTrack
  BY DEF InputInv, InputFits
<1>2. call \in InputCall /\ Main = (IF call.tool \in TypeTools THEN Texts ELSE {Lead})
      /\ (Lead = "insert" <=> call.tool \in TypeTools)
  BY <1>1, CallFits, MainFacts
<1>3. CASE outcome = "error"
  BY <1>1, <1>2, <1>3, UnsentFacts DEF OnTrack, OnceUnlessInDoubt, Unsent, Texts
<1>4. CASE outcome = "ok"
  <2>1. mainSent = TRUE /\ todo = << >> /\ ~Awaiting
    BY <1>1, <1>4 DEF OnTrack
  <2>2. CASE Straight
    <3>1. done[Lead] = 1 /\ done["chars"] = 0
      BY <2>1, <2>2, NotAwaited DEF Straight, Unsent
    <3>2. Main = {"insert", "chars"} => Lead = "insert"
      BY <1>2
    <3> QED BY <1>2, <1>4, <3>1, <3>2 DEF OnceUnlessInDoubt, Texts
  <2>3. ASSUME call.tool \in TypeTools, NEW k \in 0..TextChunks, InChars(k)
        PROVE  OnceUnlessInDoubt
    <3>1. k = 0
      BY <2>1, <2>3, InputAssumption DEF InChars, CharsIn
    <3>2. done["insert"] = 0 /\ done["chars"] = TextChunks
      BY <2>1, <2>3, <3>1, NotAwaited, InputAssumption DEF InChars, Unsent
    <3> QED BY <1>2, <1>4, <2>3, <3>2 DEF OnceUnlessInDoubt, Texts
  <2> QED BY <1>1, <2>2, <2>3 DEF OnTrack
<1> QED BY <1>3, <1>4

\* If no attempt failed after it had handed over what the call is for, a call that
\* reports success has done it once, and one that reports an error has not done it.
THEOREM OnceCorrect == InputSpec => []OnceUnlessInDoubt
<1>1. InputSpec => []InputInv
  BY InputInitInv, InputNextInv, PTL DEF InputSpec
<1> QED BY <1>1, EndedOnce, PTL

-----------------------------------------------------------------------------
(* The second invariant.                                                   *)

\* A call presses a button, or a key.
Uses(d) == IF d = "press" THEN Lead = "press" ELSE Lead = "down" \/ call.submit

EndsIn(b, u) == b[Len(b)] = u
HasEnd(batches, u) == \E j \in DOMAIN batches : EndsIn(batches[j], u)
GoodBatch(b) ==
  \A i \in DOMAIN b :
    /\ b[i] = "press" => Uses("press") /\ EndsIn(b, "release")
    /\ b[i] = "down" => Uses("down") /\ EndsIn(b, "up")
    /\ b[i] = "insert" => call.tool \in TypeTools /\ Len(b) = 1
LinesUp(batches) ==
  \A j, m \in DOMAIN batches : \A i \in DOMAIN batches[j] : \A l \in DOMAIN batches[m] :
    batches[j][i] = "down" /\ batches[m][l] \in Texts => m < j
Shaped(batches) == (\A j \in DOMAIN batches : GoodBatch(batches[j])) /\ LinesUp(batches)

\* What a call is for is still to be sent, or awaited, or done.
AwaitedCmd(c) == \E i \in DOMAIN wire : wire[i] = [cmd |-> c, mine |-> TRUE]
Coming(c) == ~NoneIn(todo, c) \/ AwaitedCmd(c) \/ done[c] >= 1
FirstChars(k) == k <= Len(todo) /\ \A j \in 1..k : todo[j] = <<"chars">>
CharsComing ==
  \E k \in 0..TextChunks :
    /\ FirstChars(k)
    /\ done["chars"] + k >= TextChunks \/ (AwaitedCmd("chars") /\ done["chars"] + k + 1 >= TextChunks)
Due ==
  IF call.tool \in TypeTools THEN Coming("insert") \/ CharsComing ELSE Coming(Lead)

\* What is pressed is let go: by a batch still to send, or by a command awaited.
LastOut(d, u) ==
  \E i \in DOMAIN wire : /\ wire[i] = [cmd |-> u, mine |-> TRUE]
                         /\ \A m \in DOMAIN wire : m > i => wire[m].cmd # d
InputSettled(d, u, h) ==
  h \in held \/ ~NoneOut(d) =>
    Uses(d) /\ (outcome = "error" \/ HasEnd(todo, u) \/ LastOut(d, u))

WireFits ==
  /\ Awaiting => wire[Len(wire)].mine = TRUE
  /\ AwaitedCmd("insert") => \A m \in DOMAIN wire : wire[m].mine = TRUE => wire[m].cmd = "insert"
  /\ ~NoneOut("insert") => call.tool \in TypeTools

DoneInv ==
  /\ Shaped(todo) /\ WireFits
  /\ tool # "none" => attempt >= 1
  /\ tool # "none" /\ outcome # "error" => Due
  /\ InputSettled("press", "release", "button") /\ InputSettled("down", "up", "key")
  /\ call.tool \in TypeTools /\ (done["down"] > 0 \/ ~NoneOut("down")) => TextIn
  /\ outcome = "ok" => todo = << >> /\ ~Awaiting

-----------------------------------------------------------------------------
\* Enter is pressed for calls that type.
LEMMA CallsUse ==
  ASSUME call \in InputCall
  PROVE  /\ call.submit => Lead = "insert"
         /\ Suits("enter") => Lead = "insert" /\ call.submit
<1>1. call.submit => call.tool \in TypeTools
  BY DEF InputCall
<1>2. Suits("enter") => call.tool \in TypeTools /\ call.submit
  BY DEF Suits, SuitsFor, CallTools, TypeTools, ClickTools, KeyTools, MouseTools, FormTools
<1> QED BY <1>1, <1>2, MainFacts
LEMMA InsertKeys ==
  ASSUME call \in InputCall, Lead = "insert", NEW t, Suits(t), t # "enter"
  PROVE  /\ SendsOf(t, call) = <<Find, <<"insert">>, Key>> => Uses("down")
         /\ Uses("down") /\ t \notin {"typeSelector", "typeFocused"} =>
              SendsOf(t, call) = <<Find, <<"insert">>, Key>>
<1>1. call.tool \in TypeTools /\ t = call.tool /\ t \in ToolNames
  <2>1. call.tool \in TypeTools
    BY MainFacts
  <2>2. t \in ToolNames
    BY SuitsTool DEF Suits
  <2> QED BY <2>1, <2>2 DEF Suits, SuitsFor, TypeTools
<1>2. Uses("down") <=> call.submit
  BY DEF Uses
<1>3. CASE t = "typeNode" /\ call.submit
  <2>1. SendsOf(t, call) = <<Find, <<"insert">>>> \o <<Key>>
    BY <1>1, <1>3, ToolSends DEF SendsOf
  <2>2. <<"insert">> \in Seq(Command)
    BY SomeBatches DEF Command
  <2>3. <<Find, <<"insert">>>> \o <<Key>> = <<Find, <<"insert">>, Key>>
    BY <2>2, SomeBatches, Tuples, ZenonT(60)
  <2> QED BY <1>2, <1>3, <2>1, <2>3
<1>4. CASE ~(t = "typeNode" /\ call.submit)
  <2>1. SendsOf(t, call) = Tool[t].sends
    BY <1>1, <1>4, Emptied
  <2>2. Tool[t].sends \in {<<Find, <<"insert">>>>, <<Find, <<"insert">>, <<"read">>>>, <<<<"insert">>>>}
    BY <1>1 DEF Tool, Does, TypeTools, TypeBackendNode, DomActionType, TypeText
  <2>3. <<"read">> # Key
    BY DEF Key
  <2>4. SendsOf(t, call) # <<Find, <<"insert">>, Key>>
    BY <2>1, <2>2, <2>3
  <2> QED BY <1>1, <1>2, <1>4, <2>4 DEF TypeTools
<1> QED BY <1>3, <1>4

LEMMA FailedTool ==
  ASSUME InputFits, tool # "none", attempt >= 1, attempt < Tool[tool].tries
  PROVE  tool \notin {"typeSelector", "typeFocused", "enter"}
<1>1. /\ Tool["typeSelector"].tries = 1 /\ Tool["typeFocused"].tries = 1
      /\ Tool["enter"].tries = 1
  BY DEF Tool, Does, DomActionType, TypeText, PressKey
<1>2. attempt \in 0..3
  BY DEF InputFits, InputTypeOK
<1> QED BY <1>1, <1>2

\* What a tool sends is well shaped, and lets go of what the call presses.
LEMMA PlanShaped ==
  ASSUME call \in InputCall, NEW t, Suits(t)
  PROVE  /\ Shaped(SendsOf(t, call))
         /\ Uses("press") => HasEnd(SendsOf(t, call), "release")
         /\ Uses("down") /\ t \notin {"typeSelector", "typeFocused"} =>
              HasEnd(SendsOf(t, call), "up")
<1> DEFINE s == SendsOf(t, call)
<1>0. /\ (Lead = "press" => s \in {<<Find, Press>>, <<Press>>, <<Drag>>, <<Find, Drag>>})
      /\ (Lead = "insert" /\ t # "enter" => s \in
              {<<Find, <<"insert">>>>, <<Find, <<"insert">>, Key>>,
               <<Find, <<"insert">>, <<"read">>>>, <<<<"insert">>>>})
      /\ (Lead = "down" \/ t = "enter" => s = <<Key>>)
      /\ (Lead = "submit" => s = <<<<"submit">>>>)
      /\ (Lead = "set" => s = <<<<"set">>>>)
      /\ (Lead = "move" => s \in {<<<<"move">>>>, <<Find, <<"move">>>>, <<<<"move">>, <<"read">>>>})
      /\ (Lead = "insert" <=> call.tool \in TypeTools)
      /\ Lead \in {"press", "insert", "down", "submit", "set", "move"}
  BY Shapes DEF Lead, Suits
<1> HIDE DEF s
<1>1. CASE Lead = "press"
  <2>1. s \in {<<Find, Press>>, <<Press>>, <<Drag>>, <<Find, Drag>>}
    BY <1>0, <1>1
  <2>2. GoodBatch(Find) /\ GoodBatch(Press) /\ GoodBatch(Drag)
    BY <1>1 DEF GoodBatch, Find, Press, Drag, Uses, EndsIn
  <2>3. \A j \in DOMAIN s : s[j] \in {Find, Press, Drag}
    BY <2>1
  <2>4. LinesUp(s)
    BY <2>3 DEF LinesUp, Find, Press, Drag
  <2>5. HasEnd(s, "release")
    <3>1. EndsIn(Press, "release") /\ EndsIn(Drag, "release")
      BY DEF EndsIn, Press, Drag
    <3>2. \E j \in DOMAIN s : s[j] \in {Press, Drag}
      BY <2>1
    <3> QED BY <3>1, <3>2 DEF HasEnd
  <2>6. ~Uses("down")
    BY <1>0, <1>1, CallsUse DEF Uses
  <2> QED BY <2>2, <2>3, <2>4, <2>5, <2>6 DEF Shaped, s
<1>2. CASE Lead = "insert" /\ t # "enter"
  <2>1. s \in {<<Find, <<"insert">>>>, <<Find, <<"insert">>, Key>>,
               <<Find, <<"insert">>, <<"read">>>>, <<<<"insert">>>>}
    BY <1>0, <1>2
  <2>2. GoodBatch(Find) /\ GoodBatch(<<"insert">>) /\ GoodBatch(<<"read">>)
    BY <1>0, <1>2 DEF GoodBatch, Find
  <2>3. /\ s = <<Find, <<"insert">>, Key>> => Uses("down")
        /\ Uses("down") /\ t \notin {"typeSelector", "typeFocused"} => s = <<Find, <<"insert">>, Key>>
    BY <1>0, <1>2, InsertKeys DEF s
  <2>4. Uses("down") => GoodBatch(Key)
    BY DEF GoodBatch, Key, EndsIn
  <2>5. \A j \in DOMAIN s : GoodBatch(s[j])
    BY <2>1, <2>2, <2>3, <2>4
  <2>6. LinesUp(s)
    <3>1. CASE s = <<Find, <<"insert">>, Key>>
      <4>1. \A j \in DOMAIN s : \A i \in DOMAIN s[j] :
              (s[j][i] = "down" => j = 3) /\ (s[j][i] \in Texts => j = 2)
        BY <3>1 DEF Find, Key, Texts
      <4> QED BY <4>1 DEF LinesUp
    <3>2. CASE s # <<Find, <<"insert">>, Key>>
      <4>1. \A j \in DOMAIN s : s[j] \in {Find, <<"insert">>, <<"read">>}
        BY <2>1, <3>2
      <4>2. \A j \in DOMAIN s : \A i \in DOMAIN s[j] : s[j][i] # "down"
        BY <4>1 DEF Find
      <4> QED BY <4>2 DEF LinesUp
    <3> QED BY <3>1, <3>2
  <2>7. s = <<Find, <<"insert">>, Key>> => HasEnd(s, "up")
    <3>1. EndsIn(Key, "up")
      BY DEF EndsIn, Key
    <3>2. s = <<Find, <<"insert">>, Key>> => 3 \in DOMAIN s /\ s[3] = Key
      OBVIOUS
    <3> QED BY <3>1, <3>2 DEF HasEnd
  <2>8. ~Uses("press")
    BY <1>2 DEF Uses
  <2> QED BY <2>3, <2>5, <2>6, <2>7, <2>8 DEF Shaped, s
<1>3. CASE Lead = "down" \/ t = "enter"
  <2>1. s = <<Key>> /\ Uses("down")
    BY <1>0, <1>3, CallsUse DEF Uses
  <2>2. GoodBatch(Key) /\ EndsIn(Key, "up")
    BY <2>1 DEF GoodBatch, Key, EndsIn
  <2>3. 1 \in DOMAIN s /\ s[1] = Key /\ \A j \in DOMAIN s : s[j] = Key
    BY <2>1
  <2>4. LinesUp(s)
    BY <2>3 DEF LinesUp, Key, Texts
  <2>5. ~Uses("press")
    BY <1>3, CallsUse DEF Uses
  <2> QED BY <2>2, <2>3, <2>4, <2>5 DEF Shaped, HasEnd, s
<1>4. CASE Lead \in {"submit", "set", "move"} /\ t # "enter"
  <2>1. s \in {<<<<"submit">>>>, <<<<"set">>>>, <<<<"move">>>>, <<Find, <<"move">>>>,
               <<<<"move">>, <<"read">>>>}
    BY <1>0, <1>4
  <2>2. \A j \in DOMAIN s :
          s[j] \in {<<"submit">>, <<"set">>, <<"move">>, <<"read">>, Find}
    BY <2>1
  <2>3. \A j \in DOMAIN s : \A i \in DOMAIN s[j] : s[j][i] \notin {"press", "down", "insert"}
    BY <2>2 DEF Find
  <2>4. ~Uses("press") /\ ~Uses("down")
    BY <1>0, <1>4, CallsUse DEF Uses
  <2> QED BY <2>3, <2>4 DEF Shaped, GoodBatch, LinesUp, s
<1> QED BY <1>0, <1>1, <1>2, <1>3, <1>4

LEMMA NoBatches == Shaped(<< >>) /\ \A c : NoneIn(<< >>, c)
BY DEF Shaped, LinesUp, NoneIn

LEMMA OneIsSome ==
  ASSUME NEW batches \in Batches, Filled(batches), NEW c, OneIn(batches, c)
  PROVE  ~NoneIn(batches, c)
<1>1. PICK j \in DOMAIN batches : batches[j][1] = c
  BY DEF OneIn, BeginsOnly
<1>2. batches[j] \in Seq(Command) /\ batches[j] # << >>
  BY <1>1, LenProperties, ElementOfSeq DEF Batches, Filled
<1>3. 1 \in DOMAIN batches[j]
  BY <1>2
<1> QED BY <1>1, <1>3 DEF NoneIn

\* The end of some batches.
InputEnds(rest, batches, s) ==
  \A j \in DOMAIN rest : j + s \in DOMAIN batches /\ rest[j] = batches[j + s]

LEMMA ShapedEnd ==
  ASSUME NEW batches, NEW rest \in Batches, NEW s \in Nat, InputEnds(rest, batches, s), Shaped(batches)
  PROVE  Shaped(rest)
<1>1. \A j \in DOMAIN rest : j \in Nat
  <2>1. DOMAIN rest = 1..Len(rest)
    BY DEF Batches
  <2> QED BY <2>1
<1>2. \A j, m \in DOMAIN rest : m + s < j + s => m < j
  BY <1>1
<1>3. LinesUp(rest)
  BY <1>2 DEF Shaped, LinesUp, InputEnds
<1> QED BY <1>3 DEF Shaped, InputEnds

LEMMA ShapedChars ==
  ASSUME NEW rest \in Batches, Filled(rest), Shaped(rest), NEW new,
         new = CharsFirst(rest)
  PROVE  /\ Shaped(new)
         /\ \A u : HasEnd(rest, u) => HasEnd(new, u)
<1>1. /\ \A i \in DOMAIN new : i <= TextChunks => new[i] = <<"chars">>
      /\ \A i \in DOMAIN new : i > TextChunks =>
           i - TextChunks \in DOMAIN rest /\ new[i] = rest[i - TextChunks]
      /\ \A j \in DOMAIN rest : j + TextChunks \in DOMAIN new /\ new[j + TextChunks] = rest[j]
      /\ new \in Batches
  BY CharsThenRest
<1>2. DOMAIN new = 1..Len(new) /\ TextChunks \in Nat /\ Len(new) \in Nat
  BY <1>1, InputAssumption DEF Batches
<1>3. \A i \in DOMAIN <<"chars">> : <<"chars">>[i] = "chars"
  OBVIOUS
<1>4. GoodBatch(<<"chars">>)
  BY <1>3 DEF GoodBatch
<1>5. \A j \in DOMAIN new : GoodBatch(new[j])
  BY <1>1, <1>2, <1>4 DEF Shaped
<1>6. LinesUp(new)
  <2>1. SUFFICES ASSUME NEW j \in DOMAIN new, NEW m \in DOMAIN new, NEW i \in DOMAIN new[j],
                        NEW l \in DOMAIN new[m], new[j][i] = "down", new[m][l] \in Texts
                 PROVE  m < j
    BY DEF LinesUp
  <2>2. j > TextChunks
    BY <1>1, <1>2, <1>3, <2>1
  <2>3. CASE m <= TextChunks
    BY <1>2, <2>1, <2>2, <2>3
  <2>4. CASE m > TextChunks
    <3>1. /\ j - TextChunks \in DOMAIN rest /\ new[j] = rest[j - TextChunks]
          /\ m - TextChunks \in DOMAIN rest /\ new[m] = rest[m - TextChunks]
      BY <1>1, <2>1, <2>2, <2>4
    <3>2. m - TextChunks < j - TextChunks
      BY <2>1, <3>1 DEF Shaped, LinesUp
    <3> QED BY <1>2, <2>1, <3>2
  <2> QED BY <1>2, <2>1, <2>3, <2>4
<1>7. \A u : HasEnd(rest, u) => HasEnd(new, u)
  BY <1>1 DEF HasEnd
<1> QED BY <1>5, <1>6, <1>7 DEF Shaped

\* The call stays.
LEMMA SameCall ==
  ASSUME call' = call
  PROVE  /\ Lead' = Lead /\ Uses("press")' = Uses("press") /\ Uses("down")' = Uses("down")
         /\ Shaped(todo') => Shaped(todo)'
<1>1. Lead' = Lead
  BY DEF Lead
<1> QED BY <1>1 DEF Uses, Shaped, GoodBatch, LinesUp

\* An attempt is given up: what is on the wire is awaited no more.
GivenUp ==
  /\ ~Awaiting' /\ held' = held
  /\ \A c : NoneOut(c) => NoneOut(c)'
  /\ \A c \in Command : done'[c] >= done[c]
  /\ done'["down"] = done["down"]

LEMMA GivenUpFacts ==
  ASSUME InputInv, InputInv', DoneInv, GivenUp, call' = call
  PROVE  /\ WireFits'
         /\ (call.tool \in TypeTools /\ (done["down"] > 0 \/ ~NoneOut("down")) => TextIn)'
         /\ \A c : ~LastOut("press", c)' /\ ~LastOut("down", c)'
<1>1. \A c : ~AwaitedCmd(c)' /\ ~LastOut("press", c)' /\ ~LastOut("down", c)'
  BY DEF GivenUp, Awaiting, AwaitedCmd, LastOut
<1>2. WireFits'
  BY <1>1 DEF WireFits, GivenUp, DoneInv
<1>3. TextIn => TextIn'
  <2>1. /\ done'["insert"] \in Nat /\ done["insert"] \in Nat /\ done'["insert"] >= done["insert"]
        /\ done'["chars"] \in Nat /\ done["chars"] \in Nat /\ done'["chars"] >= done["chars"]
        /\ TextChunks \in Nat
    BY InputAssumption DEF InputInv, InputFits, InputTypeOK, GivenUp, Command
  <2> QED BY <2>1 DEF TextIn
<1> QED BY <1>1, <1>2, <1>3 DEF DoneInv, GivenUp

LEMMA FailDone ==
  ASSUME InputInv, InputInv', DoneInv, Working, NEW e, Fail(e), GivenUp
  PROVE  DoneInv'
<1>0. /\ InputFits /\ tool # "none" /\ outcome = "none" /\ InputFits' /\ call' = call
      /\ attempt >= 1
  BY DEF InputInv, Working, Fail, DoneInv
<1>1. call \in InputCall /\ tool \in ToolNames /\ Suits(tool) /\ attempt \in 0..3
  BY <1>0, CallFits DEF InputFits, InputTypeOK
<1>2. \/ /\ Suits(tool') /\ attempt' >= 1 /\ outcome' = "none"
         /\ todo' = SendsOf(tool', call) /\ tool' \notin {"typeSelector", "typeFocused", "enter"}
      \/ attempt' >= 1 /\ outcome' = "error" /\ todo' = << >>
  <2>1. CASE attempt < Tool[tool].tries /\ Start(tool, attempt + 1) /\ UNCHANGED outcome
    <3>1. attempt + 1 >= 1
      BY <1>1
    <3> QED BY <1>0, <1>1, <2>1, <3>1, FailedTool DEF Start
  <2>2. ASSUME NEW next \in FallBacks(e),
               IF next = "none"
               THEN outcome' = "error" /\ todo' = <<>> /\ UNCHANGED <<tool, attempt>>
               ELSE Start(next, 1) /\ UNCHANGED outcome
        PROVE  <1>2
    <3>1. next # "none" => Suits(next) /\ next \in {"text", "fuzzy"}
      BY <1>0, <1>1, <2>2 DEF FallBacks, Suits, SuitsFor, CallTools, ClickTools, TypeTools,
                              KeyTools, MouseTools, FormTools
    <3>2. 1 >= 1
      OBVIOUS
    <3> QED BY <1>0, <2>2, <3>1, <3>2 DEF Start
  <2> QED BY <2>1, <2>2 DEF Fail
<1>3. /\ Shaped(todo')
      /\ outcome' # "error" => /\ OneIn(todo', Lead)
                               /\ Uses("press") => HasEnd(todo', "release")
                               /\ Uses("down") => HasEnd(todo', "up")
      /\ outcome' \in {"none", "error"} /\ attempt' >= 1
  <2>1. CASE /\ Suits(tool') /\ attempt' >= 1 /\ outcome' = "none"
             /\ todo' = SendsOf(tool', call) /\ tool' \notin {"typeSelector", "typeFocused", "enter"}
    BY <1>1, <2>1, PlanShaped, InputPlans
  <2>2. CASE attempt' >= 1 /\ outcome' = "error" /\ todo' = << >>
    BY <2>2, NoBatches
  <2> QED BY <1>2, <2>1, <2>2
<1>4. Shaped(todo)' /\ Lead' = Lead
      /\ Uses("press")' = Uses("press") /\ Uses("down")' = Uses("down")
  BY <1>0, <1>3, SameCall
<1>5. outcome' # "error" => Due'
  <2>1. SUFFICES ASSUME outcome' # "error" PROVE Due'
    OBVIOUS
  <2>2. todo' \in Batches /\ Filled(todo')
    BY <1>0 DEF InputFits, InputTypeOK, Batches
  <2>3. ~NoneIn(todo', Lead)
    BY <1>3, <2>1, <2>2, OneIsSome
  <2>4. call.tool \in TypeTools => Lead = "insert"
    BY <1>1, MainFacts
  <2> QED BY <1>0, <1>4, <2>3, <2>4 DEF Due, Coming
<1>6. InputSettled("press", "release", "button")'
  BY <1>3, <1>4 DEF InputSettled, GivenUp, DoneInv
<1>7. InputSettled("down", "up", "key")'
  BY <1>3, <1>4 DEF InputSettled, GivenUp, DoneInv
<1> QED BY <1>0, <1>3, <1>4, <1>5, <1>6, <1>7, GivenUpFacts DEF DoneInv

LEMMA TroubleDone ==
  ASSUME InputInv, InputInv', DoneInv, Working, GivenUp, NEW cmd,
         NEW rest \in Batches, Filled(rest), NEW s \in Nat, InputEnds(rest, todo, s),
         Trouble(cmd, rest),
         cmd = "insert" =>
           /\ call.tool \in TypeTools
           /\ (HasEnd(todo, "release") \/ LastOut("press", "release") => HasEnd(rest, "release"))
           /\ (HasEnd(todo, "up") \/ LastOut("down", "up") => HasEnd(rest, "up"))
  PROVE  DoneInv'
<1>1. CASE cmd # "insert"
  <2>1. Fail(IF Tool[tool].wraps /\ cmd \in {"look", "set"} THEN "smart" ELSE "http")
    BY <1>1 DEF Trouble
  <2> QED BY <2>1, FailDone
<1>2. CASE cmd = "insert"
  <2>0. /\ InputFits /\ tool # "none" /\ outcome = "none" /\ call' = call /\ tool' = tool
        /\ attempt' = attempt /\ outcome' = outcome /\ call.tool \in TypeTools
        /\ todo' = CharsFirst(rest)
    BY <1>2 DEF InputInv, Working, Trouble, CharsFirst
  <2>1. Shaped(rest)
    BY ShapedEnd DEF DoneInv
  <2>2. Shaped(todo') /\ \A u : HasEnd(rest, u) => HasEnd(todo', u)
    BY <2>0, <2>1, ShapedChars
  <2>3. Shaped(todo)' /\ Uses("press")' = Uses("press") /\ Uses("down")' = Uses("down")
    BY <2>0, <2>2, SameCall
  <2>4. Due'
    <3>1. /\ TextChunks <= Len(todo') /\ \A i \in DOMAIN todo' : i <= TextChunks => todo'[i] = <<"chars">>
          /\ todo' \in Batches
      BY <2>0, CharsThenRest
    <3>2. TextChunks \in 0..TextChunks /\ TextChunks \in Nat
      BY InputAssumption
    <3>3. FirstChars(TextChunks)'
      <4>1. \A i \in 1..TextChunks : i \in DOMAIN todo' /\ i <= TextChunks
        BY <3>1, <3>2 DEF Batches
      <4> QED BY <3>1, <4>1 DEF FirstChars
    <3>4. done'["chars"] + TextChunks >= TextChunks
      <4>1. done' \in [Command -> Nat] /\ "chars" \in Command
        BY DEF InputInv, InputFits, InputTypeOK, Command
      <4>2. done'["chars"] \in Nat
        BY <4>1
      <4> QED BY <3>2, <4>2
    <3>5. CharsComing'
      BY <3>2, <3>3, <3>4 DEF CharsComing
    <3> QED BY <2>0, <3>5 DEF Due
  <2>5. InputSettled("press", "release", "button")'
    BY <1>2, <2>0, <2>2, <2>3 DEF InputSettled, GivenUp, DoneInv
  <2>6. InputSettled("down", "up", "key")'
    BY <1>2, <2>0, <2>2, <2>3 DEF InputSettled, GivenUp, DoneInv
  <2> QED BY <2>0, <2>3, <2>4, <2>5, <2>6, GivenUpFacts DEF DoneInv
<1> QED BY <1>1, <1>2

\* An insertion awaited is all that is awaited.
LEMMA AwaitedText ==
  ASSUME WireFits, NEW i \in DOMAIN wire, wire[i] = [cmd |-> "insert", mine |-> TRUE]
  PROVE  ~LastOut("press", "release") /\ ~LastOut("down", "up") /\ call.tool \in TypeTools
<1>1. AwaitedCmd("insert") /\ ~NoneOut("insert")
  BY DEF AwaitedCmd, NoneOut
<1>2. \A m \in DOMAIN wire : wire[m].mine = TRUE => wire[m].cmd = "insert"
  BY <1>1 DEF WireFits
<1>3. ~LastOut("press", "release") /\ ~LastOut("down", "up")
  BY <1>2 DEF LastOut
<1> QED BY <1>1, <1>3 DEF WireFits

LEMMA Whole ==
  ASSUME InputFits
  PROVE  /\ todo \in Batches /\ Filled(todo) /\ 0 \in Nat /\ InputEnds(todo, todo, 0)
         /\ done \in [Command -> Nat]
<1>1. todo \in Batches /\ Filled(todo) /\ done \in [Command -> Nat]
  BY DEF InputFits, InputTypeOK, Batches
<1>2. \A j \in DOMAIN todo : j + 0 = j
  BY <1>1 DEF Batches
<1> QED BY <1>1, <1>2 DEF InputEnds

LEMMA ConnectFailsDone ==
  ASSUME InputInv, InputInv', DoneInv, ConnectFails
  PROVE  DoneInv'
<1>1. GivenUp
  <2>1. done \in [Command -> Nat]
    BY Whole DEF InputInv
  <2> QED BY <2>1 DEF GivenUp, ConnectFails, Awaiting, NoneOut
<1> QED BY <1>1, FailDone DEF ConnectFails

LEMMA RefusedDone ==
  ASSUME InputInv, InputInv', DoneInv, Refused
  PROVE  DoneInv'
<1>0. InputFits /\ todo # << >> /\ Working /\ ~Awaiting /\ Trouble(Head(Head(todo)), Tail(todo))
  BY DEF InputInv, Refused
<1>1. GivenUp
  <2>1. done \in [Command -> Nat]
    BY <1>0, Whole
  <2> QED BY <2>1 DEF GivenUp, Refused, Awaiting, NoneOut
<1>2. /\ 1 \in Nat /\ Tail(todo) \in Batches /\ Filled(Tail(todo)) /\ InputEnds(Tail(todo), todo, 1)
      /\ Head(Head(todo)) = todo[1][1] /\ 1 \in DOMAIN todo /\ 1 \in DOMAIN todo[1]
  BY <1>0, TodoFacts DEF InputEnds
<1>3. ASSUME Head(Head(todo)) = "insert"
      PROVE  /\ call.tool \in TypeTools
             /\ (HasEnd(todo, "release") \/ LastOut("press", "release") => HasEnd(Tail(todo), "release"))
             /\ (HasEnd(todo, "up") \/ LastOut("down", "up") => HasEnd(Tail(todo), "up"))
  <2>1. call.tool \in TypeTools /\ Len(todo[1]) = 1 /\ todo[1][1] = "insert"
    BY <1>2, <1>3 DEF DoneInv, Shaped, GoodBatch
  <2>2. ASSUME NEW u, u # "insert", HasEnd(todo, u)
        PROVE  HasEnd(Tail(todo), u)
    <3>1. PICK j \in DOMAIN todo : EndsIn(todo[j], u)
      BY <2>2 DEF HasEnd
    <3>2. j # 1
      BY <2>1, <2>2, <3>1 DEF EndsIn
    <3>3. todo \in Seq(Seq(Command))
      BY <1>0 DEF InputFits, InputTypeOK
    <3>4. j - 1 \in DOMAIN Tail(todo) /\ Tail(todo)[j - 1] = todo[j]
      <4>1. /\ Len(Tail(todo)) = Len(todo) - 1
            /\ \A i \in 1..(Len(todo) - 1) : Tail(todo)[i] = todo[i + 1]
            /\ DOMAIN Tail(todo) = 1..Len(Tail(todo)) /\ DOMAIN todo = 1..Len(todo)
            /\ Len(todo) \in Nat
        <5>1. Tail(todo) \in Seq(Seq(Command))
          BY <1>2 DEF Batches
        <5> QED BY <1>0, <3>3, <5>1, HeadTailProperties, LenProperties
      <4>2. j - 1 \in 1..(Len(todo) - 1) /\ (j - 1) + 1 = j
        BY <3>1, <3>2, <4>1
      <4> QED BY <4>1, <4>2
    <3> QED BY <3>1, <3>4 DEF HasEnd
  <2>3. ~LastOut("press", "release") /\ ~LastOut("down", "up")
    BY <1>0 DEF Awaiting, LastOut
  <2> QED BY <2>1, <2>2, <2>3
<1> QED BY <1>0, <1>1, <1>2, <1>3, TroubleDone

\* The wire is lost, or what is on it awaited no more.
LEMMA WireTroubleDone ==
  ASSUME InputInv, InputInv', DoneInv, Working, GivenUp, NEW i \in DOMAIN wire,
         wire[i].mine = TRUE, Trouble(wire[i].cmd, todo)
  PROVE  DoneInv'
<1>0. InputFits /\ WireFits
  BY DEF InputInv, DoneInv
<1>1. wire[i] \in OnWire
  <2>1. wire \in Seq(OnWire)
    BY <1>0 DEF InputFits, InputTypeOK, OnWire
  <2> QED BY <2>1, LenProperties, ElementOfSeq
<1>2. wire[i].cmd = "insert" => wire[i] = [cmd |-> "insert", mine |-> TRUE]
  BY <1>1 DEF OnWire
<1>3. wire[i].cmd = "insert" =>
        ~LastOut("press", "release") /\ ~LastOut("down", "up") /\ call.tool \in TypeTools
  BY <1>0, <1>2, AwaitedText
<1> QED BY <1>0, <1>3, Whole, TroubleDone

LEMMA NotFoundDone ==
  ASSUME InputInv, InputInv', DoneInv, NotFound
  PROVE  DoneInv'
<1>1. GivenUp
  <2>1. done \in [Command -> Nat]
    BY Whole DEF InputInv
  <2> QED BY <2>1 DEF GivenUp, NotFound, Awaiting, NoneOut
<1> QED BY <1>1, FailDone DEF NotFound

LEMMA RejectedDone ==
  ASSUME InputInv, InputInv', DoneInv, Rejected
  PROVE  DoneInv'
<1>0. Working /\ wire # << >> /\ Head(wire).mine = TRUE /\ wire' = << >>
      /\ Trouble(Head(wire).cmd, todo)
      /\ \/ done' = done /\ held' = held
         \/ Effect("submit")
  BY DEF Rejected
<1>1. 1 \in DOMAIN wire /\ Head(wire) = wire[1]
  BY <1>0 DEF InputInv, InputFits, InputTypeOK
<1>2. GivenUp
  <2>1. done \in [Command -> Nat] /\ "submit" \in Command /\ "down" \in Command
    BY Whole DEF InputInv, Command
  <2>2. Effect("submit") => done' = [done EXCEPT !["submit"] = @ + 1] /\ held' = held
    BY DEF Effect
  <2>3. done' = done \/ done' = [done EXCEPT !["submit"] = @ + 1]
    BY <1>0, <2>2
  <2>4. held' = held /\ ~Awaiting' /\ \A c : NoneOut(c)'
    BY <1>0, <2>2 DEF Awaiting, NoneOut
  <2>6. \A c \in Command : done'[c] >= done[c]
    BY <2>1, <2>3
  <2>5. done'["down"] = done["down"]
    BY <2>1, <2>3
  <2> QED BY <2>4, <2>5, <2>6 DEF GivenUp
<1> QED BY <1>0, <1>1, <1>2, WireTroubleDone

LEMMA TimesOutDone ==
  ASSUME InputInv, InputInv', DoneInv, TimesOut
  PROVE  DoneInv'
<1>0. Working /\ Awaiting /\ Trouble(wire[Len(wire)].cmd, todo) /\ done' = done /\ held' = held
      /\ wire' = [i \in DOMAIN wire |-> [wire[i] EXCEPT !.mine = FALSE]]
  BY DEF TimesOut
<1>1. Len(wire) \in DOMAIN wire /\ wire[Len(wire)].mine = TRUE
      /\ \A i \in DOMAIN wire : wire[i] \in OnWire
  <2>1. wire \in Seq(OnWire)
    BY DEF InputInv, InputFits, InputTypeOK, OnWire
  <2>2. Len(wire) \in Nat /\ DOMAIN wire = 1..Len(wire) /\ \A i \in DOMAIN wire : wire[i] \in OnWire
    BY <2>1, LenProperties, ElementOfSeq
  <2> QED BY <1>0, <2>2 DEF Awaiting, DoneInv, WireFits
<1>2. /\ DOMAIN wire' = DOMAIN wire
      /\ \A i \in DOMAIN wire : wire'[i].mine = FALSE /\ wire'[i].cmd = wire[i].cmd
  <2>1. DOMAIN wire' = DOMAIN wire
        /\ \A i \in DOMAIN wire : wire'[i] = [wire[i] EXCEPT !.mine = FALSE]
    BY <1>0
  <2> QED BY <1>1, <2>1 DEF OnWire
<1>3. GivenUp
  <2>1. done \in [Command -> Nat]
    BY Whole DEF InputInv
  <2>2. ~Awaiting'
    BY <1>2 DEF Awaiting
  <2>3. \A c : NoneOut(c) => NoneOut(c)'
    BY <1>2 DEF NoneOut
  <2>4. \A c \in Command : done'[c] >= done[c]
    BY <1>0, <2>1
  <2> QED BY <1>0, <2>2, <2>3, <2>4 DEF GivenUp
<1> QED BY <1>0, <1>1, <1>3, WireTroubleDone

LEMMA BreaksDone ==
  ASSUME InputInv, InputInv', DoneInv, Breaks
  PROVE  DoneInv'
<1>0. Working /\ wire # << >> /\ wire' = << >> /\ done' = done /\ held' = held
      /\ InputFits /\ tool # "none" /\ outcome = "none"
  BY DEF Breaks, InputInv, Working
<1>1. GivenUp
  <2>1. done \in [Command -> Nat]
    BY Whole DEF InputInv
  <2> QED BY <1>0, <2>1 DEF GivenUp, Awaiting, NoneOut
<1>2. CASE Awaiting
  <2>1. Len(wire) \in DOMAIN wire /\ wire[Len(wire)].mine = TRUE
    BY <1>0, <1>2 DEF InputFits, InputTypeOK, DoneInv, WireFits
  <2>2. Trouble(wire[Len(wire)].cmd, todo)
    BY <1>2 DEF Breaks
  <2> QED BY <1>0, <1>1, <2>1, <2>2, WireTroubleDone
<1>3. CASE ~Awaiting
  <2>1. link' = link /\ call' = call /\ tool' = tool /\ attempt' = attempt /\ todo' = todo
        /\ mainSent' = mainSent /\ doubts' = doubts /\ outcome' = outcome
    BY <1>3 DEF Breaks
  <2>2. \A c : ~AwaitedCmd(c) /\ ~LastOut("press", c) /\ ~LastOut("down", c)
    BY <1>3 DEF Awaiting, AwaitedCmd, LastOut
  <2>3. Shaped(todo)' /\ Lead' = Lead
        /\ Uses("press")' = Uses("press") /\ Uses("down")' = Uses("down")
    BY <2>1, SameCall DEF DoneInv
  <2>4. Due => Due'
    <3>1. CharsComing => CharsComing'
      BY <1>0, <2>1, <2>2 DEF CharsComing, FirstChars
    <3>2. Coming("insert") => Coming("insert")'
      BY <1>0, <2>1, <2>2 DEF Coming
    <3>3. Coming(Lead) => Coming(Lead)'
      BY <1>0, <2>1, <2>2, <2>3 DEF Coming
    <3> QED BY <2>1, <3>1, <3>2, <3>3 DEF Due
  <2>5. InputSettled("press", "release", "button")' /\ InputSettled("down", "up", "key")'
    BY <1>0, <1>1, <2>1, <2>2, <2>3 DEF InputSettled, GivenUp, DoneInv
  <2> QED BY <1>0, <1>1, <2>1, <2>3, <2>4, <2>5, GivenUpFacts DEF DoneInv
<1> QED BY <1>2, <1>3

LEMMA CarryOutDone ==
  ASSUME InputInv, InputInv', DoneInv, CarryOut
  PROVE  DoneInv'
<1>0. /\ wire \in Seq(OnWire) /\ wire # << >> /\ Effect(wire[1].cmd) /\ wire' = Tail(wire)
      /\ call' = call /\ tool' = tool /\ attempt' = attempt /\ todo' = todo /\ outcome' = outcome
      /\ done \in [Command -> Nat] /\ TextChunks \in Nat
  <2>1. wire \in Seq(OnWire) /\ wire # << >> /\ Effect(Head(wire).cmd)
    BY DEF InputInv, InputFits, InputTypeOK, OnWire, CarryOut
  <2> QED BY <2>1, InputAssumption DEF CarryOut, InputInv, InputFits, InputTypeOK
<1>1. /\ wire' \in Seq(OnWire) /\ Len(wire) \in Nat /\ Len(wire) >= 1
      /\ DOMAIN wire = 1..Len(wire) /\ DOMAIN wire' = 1..(Len(wire) - 1) /\ Len(wire') = Len(wire) - 1
      /\ \A i \in DOMAIN wire' : i + 1 \in DOMAIN wire /\ i + 1 # 1 /\ wire'[i] = wire[i + 1]
      /\ \A i \in DOMAIN wire : i # 1 => i - 1 \in DOMAIN wire' /\ wire'[i - 1] = wire[i]
      /\ 1 \in DOMAIN wire /\ wire[1] \in OnWire
  BY <1>0, TailPlaces
<1>2. PICK c \in Command : c = wire[1].cmd
  BY <1>1 DEF OnWire
<1>3. /\ done' = [done EXCEPT ![c] = @ + 1]
      /\ \A x \in Command : done'[x] \in Nat /\ done'[x] >= done[x]
      /\ done'[c] = done[c] + 1 /\ done'[c] >= 1
      /\ \A x \in Command : x # c => done'[x] = done[x]
  <2>1. done' = [done EXCEPT ![c] = @ + 1]
    BY <1>0, <1>2 DEF Effect
  <2>2. done[c] \in Nat /\ done'[c] = done[c] + 1
    BY <1>0, <1>2, <2>1
  <2>3. \A x \in Command : x # c => done'[x] = done[x]
    BY <1>0, <2>1
  <2>4. \A x \in Command : done[x] \in Nat
    BY <1>0
  <2>5. \A x \in Command : done'[x] \in Nat /\ done'[x] >= done[x]
    BY <2>2, <2>3, <2>4
  <2>6. done'[c] >= 1
    BY <2>2
  <2> QED BY <2>1, <2>2, <2>3, <2>5, <2>6
<1>4. /\ Shaped(todo)' /\ Lead' = Lead
      /\ Uses("press")' = Uses("press") /\ Uses("down")' = Uses("down")
  BY <1>0, SameCall DEF DoneInv
<1>5. \A x : NoneOut(x) => NoneOut(x)' /\ c # x
  BY <1>1, <1>2 DEF NoneOut
<1>6. \A x : AwaitedCmd(x) => AwaitedCmd(x)' \/ c = x
  <2>1. SUFFICES ASSUME NEW x, NEW i \in DOMAIN wire, wire[i] = [cmd |-> x, mine |-> TRUE], c # x
                 PROVE  AwaitedCmd(x)'
    BY DEF AwaitedCmd
  <2>2. i # 1
    BY <1>2, <2>1
  <2> QED BY <1>1, <2>1, <2>2, ZenonT(60) DEF AwaitedCmd
<1>7. (~Awaiting => ~Awaiting') /\ \A x : AwaitedCmd(x)' => AwaitedCmd(x)
  <2>1. ASSUME NEW i \in DOMAIN wire' PROVE \E j \in DOMAIN wire : wire'[i] = wire[j]
    BY <1>1
  <2>2. ~Awaiting => ~Awaiting'
    BY <2>1 DEF Awaiting
  <2>3. ASSUME NEW x, NEW i \in DOMAIN wire', wire'[i] = [cmd |-> x, mine |-> TRUE]
        PROVE  AwaitedCmd(x)
    BY <2>1, <2>3 DEF AwaitedCmd
  <2> QED BY <2>2, <2>3 DEF AwaitedCmd
<1>8. WireFits'
  <2>1. ASSUME Awaiting' PROVE wire'[Len(wire')].mine = TRUE
    <3>1. Awaiting /\ Len(wire') \in DOMAIN wire' /\ Len(wire') + 1 = Len(wire)
      BY <1>1, <1>7, <2>1 DEF Awaiting
    <3>2. wire'[Len(wire')] = wire[Len(wire)]
      BY <1>1, <3>1
    <3> QED BY <3>1, <3>2 DEF DoneInv, WireFits
  <2>2. AwaitedCmd("insert")' => \A m \in DOMAIN wire' : wire'[m].mine = TRUE => wire'[m].cmd = "insert"
    BY <1>1, <1>7 DEF DoneInv, WireFits
  <2> QED BY <1>0, <1>5, <2>1, <2>2 DEF DoneInv, WireFits
<1>9. Due => Due'
  <2>1. ASSUME NEW x \in Command, Coming(x)
        PROVE  ~NoneIn(todo, x) \/ AwaitedCmd(x)' \/ done'[x] >= 1
    <3>1. done[x] >= 1 => done'[x] >= 1
      <4>1. done[x] \in Nat /\ done'[x] \in Nat /\ done'[x] >= done[x]
        BY <1>0, <1>3
      <4> QED BY <4>1
    <3> QED BY <1>3, <1>6, <2>1, <3>1 DEF Coming
  <2>2. ASSUME NEW k \in 0..TextChunks, FirstChars(k),
               done["chars"] + k >= TextChunks
                 \/ (AwaitedCmd("chars") /\ done["chars"] + k + 1 >= TextChunks)
        PROVE  CharsComing'
    <3>1. "chars" \in Command /\ done["chars"] \in Nat /\ done'["chars"] \in Nat
          /\ done'["chars"] >= done["chars"]
          /\ (c = "chars" => done'["chars"] = done["chars"] + 1)
      BY <1>0, <1>3 DEF Command
    <3>2. done'["chars"] + k >= TextChunks
            \/ (AwaitedCmd("chars")' /\ done'["chars"] + k + 1 >= TextChunks)
      <4>1. CASE done["chars"] + k >= TextChunks
        BY <1>0, <3>1, <4>1
      <4>2. CASE AwaitedCmd("chars") /\ done["chars"] + k + 1 >= TextChunks
        BY <1>0, <1>6, <3>1, <4>2
      <4> QED BY <2>2, <4>1, <4>2
    <3>3. FirstChars(k)'
      BY <1>0, <2>2 DEF FirstChars
    <3> QED BY <3>2, <3>3 DEF CharsComing
  <2>3. PICK x \in Command : x = Lead
    BY DEF Lead, LeadOf, Command
  <2>4. "insert" \in Command
    BY DEF Command
  <2> QED BY <1>0, <1>4, <2>1, <2>2, <2>3, <2>4 DEF Due, Coming, CharsComing, AwaitedCmd
<1>10. ASSUME NEW d, NEW u, NEW h, d # u, InputSettled(d, u, h), Uses(d)' = Uses(d),
              h \in held' => h \in held \/ c = d, c = u => h \notin held'
       PROVE  InputSettled(d, u, h)'
  <2>0. SUFFICES ASSUME h \in held' \/ ~NoneOut(d)'
                 PROVE  Uses(d)' /\ (outcome' = "error" \/ HasEnd(todo', u) \/ LastOut(d, u)')
    BY DEF InputSettled
  <2>1. SUFFICES ASSUME outcome # "error", ~HasEnd(todo, u)
                 PROVE  Uses(d) /\ LastOut(d, u)'
    <3>1. h \in held \/ ~NoneOut(d)
      BY <1>5, <1>10, <2>0
    <3>2. Uses(d)
      BY <1>10, <3>1 DEF InputSettled
    <3> QED BY <1>0, <1>10, <3>2
  <2>2. h \in held \/ ~NoneOut(d)
    BY <1>5, <1>10, <2>0
  <2>3. Uses(d) /\ LastOut(d, u)
    BY <1>10, <2>1, <2>2 DEF InputSettled
  <2>4. PICK i \in DOMAIN wire : /\ wire[i] = [cmd |-> u, mine |-> TRUE]
                                 /\ \A m \in DOMAIN wire : m > i => wire[m].cmd # d
    BY <2>3 DEF LastOut
  <2>5. i # 1
    <3>1. SUFFICES ASSUME i = 1 PROVE FALSE
      OBVIOUS
    <3>2. c = u
      BY <1>2, <2>4, <3>1
    <3>3. NoneOut(d)'
      <4>1. \A m \in DOMAIN wire' : m + 1 \in DOMAIN wire /\ m + 1 > 1 /\ wire'[m] = wire[m + 1]
        BY <1>1
      <4> QED BY <2>4, <3>1, <4>1 DEF NoneOut
    <3> QED BY <1>10, <2>0, <3>2, <3>3
  <2>6. /\ i - 1 \in DOMAIN wire' /\ wire'[i - 1] = [cmd |-> u, mine |-> TRUE]
        /\ \A m \in DOMAIN wire' : m > i - 1 => m + 1 \in DOMAIN wire /\ m + 1 > i
                                                 /\ wire'[m] = wire[m + 1]
    <3>1. i - 1 \in DOMAIN wire' /\ wire'[i - 1] = [cmd |-> u, mine |-> TRUE]
      BY <1>1, <2>4, <2>5
    <3>2. ASSUME NEW m \in DOMAIN wire', m > i - 1
          PROVE  m + 1 > i
      BY <1>1, <3>2
    <3> QED BY <1>1, <3>1, <3>2
  <2> QED BY <2>3, <2>4, <2>6 DEF LastOut
<1>11. InputSettled("press", "release", "button")' /\ InputSettled("down", "up", "key")'
  <2>1. /\ "button" \in held' => "button" \in held \/ c = "press"
        /\ c = "release" => "button" \notin held'
        /\ "key" \in held' => "key" \in held \/ c = "down"
        /\ c = "up" => "key" \notin held'
    BY <1>0, <1>2 DEF Effect
  <2>2. InputSettled("press", "release", "button") /\ InputSettled("down", "up", "key")
    BY DEF DoneInv
  <2>3. InputSettled("press", "release", "button")'
    BY <1>4, <1>10, <2>1, <2>2
  <2>4. InputSettled("down", "up", "key")'
    BY <1>4, <1>10, <2>1, <2>2
  <2> QED BY <2>3, <2>4
<1>12. ASSUME call.tool \in TypeTools, done'["down"] > 0 \/ ~NoneOut("down")'
       PROVE  TextIn'
  <2>1. "down" \in Command /\ "insert" \in Command /\ "chars" \in Command
    BY DEF Command
  <2>2. done["down"] > 0 \/ ~NoneOut("down")
    BY <1>3, <1>5, <1>12, <2>1
  <2>3. TextIn
    BY <1>12, <2>2 DEF DoneInv
  <2>4. /\ done["insert"] \in Nat /\ done'["insert"] \in Nat /\ done'["insert"] >= done["insert"]
        /\ done["chars"] \in Nat /\ done'["chars"] \in Nat /\ done'["chars"] >= done["chars"]
    BY <1>0, <1>3, <2>1
  <2> QED BY <1>0, <2>3, <2>4 DEF TextIn
<1> QED BY <1>0, <1>4, <1>7, <1>8, <1>9, <1>11, <1>12 DEF DoneInv

LEMMA FinishDone ==
  ASSUME InputInv, InputInv', DoneInv, Finish
  PROVE  DoneInv'
<1>0. /\ InputFits /\ ~Awaiting /\ todo = << >> /\ tool # "none" /\ outcome = "none"
      /\ call' = call /\ wire' = wire /\ done' = done /\ held' = held
      /\ call \in InputCall /\ Suits(tool)
  <2>1. InputFits /\ tool # "none"
    BY DEF InputInv, Finish, Working
  <2> QED BY <2>1, CallFits DEF Finish, Working, InputFits
<1>1. /\ \A c : NoneIn(todo, c) /\ ~AwaitedCmd(c) /\ ~LastOut("press", c) /\ ~LastOut("down", c)
      /\ \A u : ~HasEnd(todo, u)
      /\ \A k \in 0..TextChunks : FirstChars(k) => k = 0
  <2>1. \A k \in 0..TextChunks : FirstChars(k) => k = 0
    BY <1>0, InputAssumption DEF FirstChars
  <2> QED BY <1>0, <2>1 DEF NoneIn, Awaiting, AwaitedCmd, LastOut, HasEnd
<1>2. /\ "button" \notin held /\ NoneOut("press") /\ "key" \notin held /\ NoneOut("down")
  BY <1>0, <1>1 DEF DoneInv, InputSettled
<1>3. InputSettled("press", "release", "button")' /\ InputSettled("down", "up", "key")'
  BY <1>0, <1>2 DEF InputSettled, NoneOut
<1>4. Lead' = Lead
  BY <1>0, SameCall
<1>5. Due'
  <2>1. Due
    BY <1>0 DEF DoneInv
  <2>2. CASE CharsComing
    <3>1. done["chars"] + 0 >= TextChunks /\ 0 \in 0..TextChunks
      BY <1>1, <2>2, InputAssumption DEF CharsComing
    <3>2. FirstChars(0)'
      <4>1. todo' \in Batches
        BY DEF InputInv, InputFits, InputTypeOK, Batches
      <4> QED BY <4>1 DEF FirstChars, Batches
    <3>3. CharsComing'
      BY <1>0, <3>1, <3>2 DEF CharsComing
    <3> QED BY <1>0, <1>4, <2>1, <2>2, <3>3, <1>1 DEF Due, Coming
  <2>3. CASE ~CharsComing
    BY <1>0, <1>1, <1>4, <2>1, <2>3 DEF Due, Coming
  <2> QED BY <2>2, <2>3
<1>6. WireFits' /\ ~Awaiting'
      /\ (call.tool \in TypeTools /\ (done["down"] > 0 \/ ~NoneOut("down")) => TextIn)'
  BY <1>0 DEF DoneInv, WireFits, Awaiting, AwaitedCmd, NoneOut, TextIn
<1>7. Shaped(todo') /\ attempt' >= 1 /\ (outcome' = "ok" => todo' = << >>)
      /\ outcome' # "error" /\ tool' # "none"
  <2>1. CASE tool \in {"typeSelector", "typeFocused"} /\ call.submit
    <3>1. Suits("enter")
      BY <1>0, <2>1 DEF Suits, SuitsFor
    <3> QED BY <1>0, <2>1, <3>1, PlanShaped DEF Finish, Start
  <2>2. CASE ~(tool \in {"typeSelector", "typeFocused"} /\ call.submit)
    BY <1>0, <2>2 DEF Finish, DoneInv
  <2> QED BY <2>1, <2>2
<1>8. Shaped(todo)'
  BY <1>0, <1>7, SameCall
<1> QED BY <1>3, <1>5, <1>6, <1>7, <1>8 DEF DoneInv

\* Where the batches and the commands on the wire come from.
LEMMA HandFrom ==
  ASSUME InputFits, HandOver, NEW n, NEW sh, Handed(n, sh)
  PROVE  /\ todo' \in Batches /\ sh \in Nat
         /\ \A j \in DOMAIN todo' :
              /\ j \in Nat /\ j + sh \in DOMAIN todo
              /\ \A i \in DOMAIN todo'[j] :
                   \E m \in DOMAIN todo[j + sh] : todo[j + sh][m] = todo'[j][i]
              /\ \A u : EndsIn(todo[j + sh], u) => EndsIn(todo'[j], u)
              /\ Len(todo[j + sh]) = 1 => todo'[j] = todo[j + sh]
<1>1. /\ todo' \in Batches /\ Filled(todo') /\ todo[1] \in Seq(Command) /\ Len(todo[1]) >= 1
  BY HandFacts
<1>2. /\ n \in Nat /\ n >= 1 /\ sh \in {0, 1} /\ 1 \in DOMAIN todo
      /\ \A j \in DOMAIN todo' : j + sh # 1 => j + sh \in DOMAIN todo /\ todo'[j] = todo[j + sh]
      /\ \A j \in DOMAIN todo' : j + sh = 1 => j = 1 /\ sh = 0
           /\ \A i \in DOMAIN todo'[1] : n + i \in DOMAIN todo[1] /\ n + i # 1
                                         /\ todo'[1][i] = todo[1][n + i]
  BY HandPlaces
<1>3. \A j \in DOMAIN todo' : j \in Nat /\ todo'[j] \in Seq(Command) /\ todo'[j] # << >>
  BY <1>1, ElementOfSeq, LenProperties DEF Batches, Filled
<1>4. SUFFICES ASSUME NEW j \in DOMAIN todo'
               PROVE  /\ j + sh \in DOMAIN todo
                      /\ \A i \in DOMAIN todo'[j] :
                           \E m \in DOMAIN todo[j + sh] : todo[j + sh][m] = todo'[j][i]
                      /\ \A u : EndsIn(todo[j + sh], u) => EndsIn(todo'[j], u)
                      /\ Len(todo[j + sh]) = 1 => todo'[j] = todo[j + sh]
  BY <1>1, <1>2, <1>3
<1>5. CASE j + sh # 1
  <2>1. j + sh \in DOMAIN todo /\ todo'[j] = todo[j + sh]
    BY <1>2, <1>4, <1>5
  <2> QED BY <2>1
<1>6. CASE j + sh = 1
  <2>1. j = 1 /\ sh = 0
        /\ \A i \in DOMAIN todo'[1] : n + i \in DOMAIN todo[1] /\ todo'[1][i] = todo[1][n + i]
    BY <1>2, <1>4, <1>6
  <2>2. Len(todo'[1]) = Len(todo[1]) - n /\ Len(todo'[1]) \in DOMAIN todo'[1]
    <3>1. Len(todo'[1]) = Len(todo[1]) - n
      BY <2>1 DEF Handed
    <3>2. todo'[1] \in Seq(Command) /\ todo'[1] # << >>
      BY <1>3, <1>4, <2>1
    <3> QED BY <3>1, <3>2
  <2>3. n + Len(todo'[1]) = Len(todo[1]) /\ Len(todo[1]) # 1
    BY <1>1, <1>2, <2>1, <2>2
  <2>4. \A u : EndsIn(todo[1], u) => EndsIn(todo'[1], u)
    BY <2>1, <2>2, <2>3 DEF EndsIn
  <2>5. j + sh \in DOMAIN todo
    BY <1>2, <1>6
  <2> QED BY <1>6, <2>1, <2>3, <2>4, <2>5
<1> QED BY <1>5, <1>6

LEMMA HandShaped ==
  ASSUME InputFits, HandOver, NEW n, NEW sh, Handed(n, sh), Shaped(todo)
  PROVE  Shaped(todo')
<1>1. /\ todo' \in Batches /\ sh \in Nat
      /\ \A j \in DOMAIN todo' :
           /\ j \in Nat /\ j + sh \in DOMAIN todo
           /\ \A i \in DOMAIN todo'[j] :
                \E m \in DOMAIN todo[j + sh] : todo[j + sh][m] = todo'[j][i]
           /\ \A u : EndsIn(todo[j + sh], u) => EndsIn(todo'[j], u)
           /\ Len(todo[j + sh]) = 1 => todo'[j] = todo[j + sh]
  BY HandFrom
<1>2. \A j \in DOMAIN todo' : GoodBatch(todo[j + sh])
  BY <1>1 DEF Shaped
<1>3. \A j \in DOMAIN todo' : GoodBatch(todo'[j])
  BY <1>1, <1>2 DEF GoodBatch
<1>4. LinesUp(todo')
  <2>1. SUFFICES ASSUME NEW j \in DOMAIN todo', NEW m \in DOMAIN todo', NEW i \in DOMAIN todo'[j],
                        NEW l \in DOMAIN todo'[m], todo'[j][i] = "down", todo'[m][l] \in Texts
                 PROVE  m < j
    BY DEF LinesUp
  <2>2. m + sh < j + sh
    BY <1>1, <2>1 DEF Shaped, LinesUp
  <2> QED BY <1>1, <2>1, <2>2
<1> QED BY <1>3, <1>4 DEF Shaped

LEMMA HandWire ==
  ASSUME InputFits, HandOver, NEW n, NEW sh, Handed(n, sh)
  PROVE  /\ \A i \in DOMAIN wire : i \in DOMAIN wire' /\ wire'[i] = wire[i] /\ wire[i].mine = FALSE
         /\ \A i \in DOMAIN wire' : i \in DOMAIN wire \/
              \E m \in 1..n : i = Len(wire) + m /\ wire'[i] = [cmd |-> todo[1][m], mine |-> TRUE]
         /\ \A m \in 1..n : /\ m \in DOMAIN todo[1] /\ Len(wire) + m \in DOMAIN wire'
                            /\ wire'[Len(wire) + m] = [cmd |-> todo[1][m], mine |-> TRUE]
         /\ Len(wire) \in Nat /\ n \in 1..n /\ Len(wire') = Len(wire) + n
         /\ \A i \in DOMAIN wire' : i <= Len(wire')
<1>1. /\ wire \in Seq(OnWire) /\ wire' \in Seq(OnWire)
  BY HandFacts DEF InputFits, InputTypeOK, OnWire
<1>2. \A i \in DOMAIN wire : wire[i].mine = FALSE
  <2>1. ~Awaiting
    BY DEF HandOver
  <2>2. \A i \in DOMAIN wire : wire[i] \in OnWire
    BY <1>1, ElementOfSeq, LenProperties
  <2> QED BY <2>1, <2>2 DEF Awaiting, OnWire
<1>3. /\ n \in Nat /\ n >= 1 /\ 1..n \subseteq DOMAIN todo[1]
      /\ DOMAIN wire \subseteq DOMAIN wire' /\ \A i \in DOMAIN wire : wire'[i] = wire[i]
      /\ \A i \in 1..n : Len(wire) + i \in DOMAIN wire' \ DOMAIN wire
                         /\ wire'[Len(wire) + i] = [cmd |-> todo[1][i], mine |-> TRUE]
      /\ \A i \in DOMAIN wire' \ DOMAIN wire : \E m \in 1..n : i = Len(wire) + m
  BY HandPlaces
<1>4. Len(wire') = Len(wire) + n
  BY DEF Handed
<1>5. DOMAIN wire' = 1..Len(wire') /\ Len(wire) \in Nat /\ Len(wire') \in Nat
  BY <1>1
<1>6. \A i \in DOMAIN wire' : i \in DOMAIN wire \/
              \E m \in 1..n : i = Len(wire) + m /\ wire'[i] = [cmd |-> todo[1][m], mine |-> TRUE]
  <2>1. SUFFICES ASSUME NEW i \in DOMAIN wire', i \notin DOMAIN wire
                 PROVE  \E m \in 1..n : i = Len(wire) + m
                                        /\ wire'[i] = [cmd |-> todo[1][m], mine |-> TRUE]
    OBVIOUS
  <2>2. PICK m \in 1..n : i = Len(wire) + m
    BY <1>3, <2>1
  <2>3. wire'[i] = [cmd |-> todo[1][m], mine |-> TRUE]
    BY <1>3, <2>2
  <2> QED BY <2>2, <2>3
<1> QED BY <1>2, <1>3, <1>4, <1>5, <1>6

LEMMA HandWireFits ==
  ASSUME InputFits, HandOver, NEW n, NEW sh, Handed(n, sh), Shaped(todo), WireFits
  PROVE  WireFits'
<1>1. /\ \A i \in DOMAIN wire : i \in DOMAIN wire' /\ wire'[i] = wire[i] /\ wire[i].mine = FALSE
      /\ \A i \in DOMAIN wire' : i \in DOMAIN wire \/
           \E m \in 1..n : i = Len(wire) + m /\ wire'[i] = [cmd |-> todo[1][m], mine |-> TRUE]
      /\ \A m \in 1..n : /\ m \in DOMAIN todo[1] /\ Len(wire) + m \in DOMAIN wire'
                         /\ wire'[Len(wire) + m] = [cmd |-> todo[1][m], mine |-> TRUE]
      /\ n \in 1..n /\ Len(wire') = Len(wire) + n
  BY HandWire
<1>2. GoodBatch(todo[1]) /\ call' = call
  BY HandFacts DEF Shaped, HandOver
<1>3. wire'[Len(wire')].mine = TRUE
  BY <1>1
<1>4. \A m \in 1..n : todo[1][m] = "insert" => call.tool \in TypeTools /\ n = 1
  <2>1. \A m \in 1..n : todo[1][m] = "insert" => call.tool \in TypeTools /\ Len(todo[1]) = 1
    BY <1>1, <1>2 DEF GoodBatch
  <2>2. Len(todo[1]) = 1 => n = 1
    BY HandSingle
  <2> QED BY <2>1, <2>2
<1>5. ASSUME AwaitedCmd("insert")', NEW m \in DOMAIN wire', wire'[m].mine = TRUE
      PROVE  wire'[m].cmd = "insert"
  <2>1. PICK i \in DOMAIN wire' : wire'[i] = [cmd |-> "insert", mine |-> TRUE]
    BY <1>5 DEF AwaitedCmd
  <2>0. i \notin DOMAIN wire
    BY <1>1, <2>1
  <2>2. PICK j \in 1..n : /\ i = Len(wire) + j /\ todo[1][j] = "insert"
    <3>1. PICK j \in 1..n : i = Len(wire) + j /\ wire'[i] = [cmd |-> todo[1][j], mine |-> TRUE]
      BY <1>1, <2>0
    <3>2. todo[1][j] = "insert"
      BY <2>1, <3>1
    <3> QED BY <3>1, <3>2
  <2>3. PICK l \in 1..n : m = Len(wire) + l
    BY <1>1, <1>5
  <2>4. j = 1 /\ l = 1
    BY <1>4, <2>2, <2>3
  <2> QED BY <2>1, <2>2, <2>3, <2>4
<1>6. ~NoneOut("insert")' => call.tool \in TypeTools
  <2>1. SUFFICES ASSUME NEW i \in DOMAIN wire', wire'[i].cmd = "insert"
                 PROVE  call.tool \in TypeTools
    BY DEF NoneOut
  <2>2. CASE i \in DOMAIN wire
    BY <1>1, <2>1, <2>2 DEF WireFits, NoneOut
  <2>3. CASE i \notin DOMAIN wire
    <3>1. PICK m \in 1..n : wire'[i] = [cmd |-> todo[1][m], mine |-> TRUE]
      BY <1>1, <2>3
    <3>2. todo[1][m] = "insert"
      BY <2>1, <3>1
    <3> QED BY <1>4, <3>2
  <2> QED BY <2>2, <2>3
<1> QED BY <1>2, <1>3, <1>5, <1>6 DEF WireFits
LEMMA HandComing ==
  ASSUME InputFits, HandOver, NEW n, NEW sh, Handed(n, sh), NEW c, ~NoneIn(todo, c)
  PROVE  ~NoneIn(todo', c) \/ AwaitedCmd(c)'
<1>1. PICK j \in DOMAIN todo : \E i \in DOMAIN todo[j] : todo[j][i] = c
  BY DEF NoneIn
<1>2. PICK i \in DOMAIN todo[j] : todo[j][i] = c
  BY <1>1
<1>3. CASE j # 1
  <2>1. j - sh \in DOMAIN todo' /\ todo'[j - sh] = todo[j]
    BY <1>1, <1>3, HandPlaces
  <2>2. ~NoneIn(todo', c)
    BY <1>2, <2>1 DEF NoneIn
  <2> QED BY <2>2
<1>4. CASE j = 1 /\ i \in 1..n
  <2>1. Len(wire) + i \in DOMAIN wire' /\ wire'[Len(wire) + i] = [cmd |-> c, mine |-> TRUE]
    BY <1>2, <1>4, HandWire
  <2>2. AwaitedCmd(c)'
    BY <2>1 DEF AwaitedCmd
  <2> QED BY <2>2
<1>5. CASE j = 1 /\ i \notin 1..n
  <2>1. todo[1] \in Seq(Command) /\ n \in 1..Len(todo[1]) /\ i \in 1..Len(todo[1])
    BY <1>2, <1>5, HandFacts DEF Handed
  <2>2. sh = 0
    BY <1>5, <2>1 DEF Handed
  <2>3. 1 \in DOMAIN todo' /\ Len(todo'[1]) = Len(todo[1]) - n
        /\ \A m \in 1..(Len(todo[1]) - n) : todo'[1][m] = todo[1][n + m]
    BY <2>2 DEF Handed
  <2>4. todo'[1] \in Seq(Command)
    BY <2>3, HandFacts, ElementOfSeq DEF Batches
  <2>5. DOMAIN todo'[1] = 1..(Len(todo[1]) - n)
    BY <2>3, <2>4
  <2>6. PICK m \in 1..(Len(todo[1]) - n) : n + m = i
    <3>1. i - n \in 1..(Len(todo[1]) - n) /\ n + (i - n) = i
      BY <1>5, <2>1
    <3> QED BY <3>1
  <2>7. m \in DOMAIN todo'[1] /\ todo'[1][m] = c
    BY <1>2, <1>5, <2>3, <2>5, <2>6
  <2>8. ~NoneIn(todo', c)
    BY <2>3, <2>7 DEF NoneIn
  <2> QED BY <2>8
<1> QED BY <1>3, <1>4, <1>5

LEMMA HandCharsComing ==
  ASSUME InputFits, HandOver, NEW n, NEW sh, Handed(n, sh), CharsComing
  PROVE  CharsComing'
<1>0. done' = done /\ done["chars"] \in Nat /\ TextChunks \in Nat /\ ~AwaitedCmd("chars")
  <2>1. "chars" \in Command /\ done \in [Command -> Nat]
    BY DEF InputFits, InputTypeOK, Command
  <2> QED BY <2>1, InputAssumption DEF HandOver, Awaiting, AwaitedCmd
<1>1. PICK k \in 0..TextChunks : FirstChars(k) /\ done["chars"] + k >= TextChunks
  BY <1>0 DEF CharsComing
<1>2. todo \in Batches /\ todo' \in Batches
  BY HandFacts DEF InputFits, InputTypeOK, Batches
<1>3. CASE k = 0
  <2>1. FirstChars(k)'
    BY <1>2, <1>3 DEF FirstChars, Batches
  <2> QED BY <1>0, <1>1, <2>1 DEF CharsComing
<1>4. CASE k # 0
  <2>1. k \in Nat /\ k >= 1 /\ todo[1] = <<"chars">> /\ k <= Len(todo)
        /\ \A j \in 1..k : todo[j] = <<"chars">>
    <3>1. k \in Nat /\ k >= 1 /\ 1 \in 1..k
      BY <1>0, <1>1, <1>4
    <3>2. k <= Len(todo) /\ \A j \in 1..k : todo[j] = <<"chars">>
      BY <1>1 DEF FirstChars
    <3> QED BY <3>1, <3>2
  <2>2. n = 1 /\ sh = 1
    BY <2>1, HandSingle
  <2>3. Len(todo') = Len(todo) - 1 /\ Len(todo') \in Nat
        /\ \A j \in 1..Len(todo') : j + 1 # 1 => todo'[j] = todo[j + 1]
    BY <1>2, <2>2 DEF Handed, Batches
  <2>4. FirstChars(k - 1)'
    <3>1. k - 1 <= Len(todo')
      BY <1>2, <2>1, <2>3 DEF Batches
    <3>2. ASSUME NEW j \in 1..(k - 1)
          PROVE  todo'[j] = <<"chars">>
      <4>1. j \in 1..Len(todo') /\ j + 1 # 1 /\ j + 1 \in 1..k
        BY <2>1, <2>3, <3>1, <3>2
      <4> QED BY <2>1, <2>3, <4>1
    <3> QED BY <3>1, <3>2 DEF FirstChars
  <2>5. AwaitedCmd("chars")'
    <3>1. 1 \in 1..n /\ todo[1][1] = "chars"
      BY <2>1, <2>2
    <3>2. Len(wire) + 1 \in DOMAIN wire' /\ wire'[Len(wire) + 1] = [cmd |-> todo[1][1], mine |-> TRUE]
      BY <3>1, HandWire
    <3> QED BY <3>1, <3>2 DEF AwaitedCmd
  <2>6. k - 1 \in 0..TextChunks /\ done["chars"] + (k - 1) + 1 >= TextChunks
    BY <1>0, <1>1, <2>1
  <2> QED BY <1>0, <2>4, <2>5, <2>6 DEF CharsComing
<1> QED BY <1>3, <1>4

LEMMA HandDue ==
  ASSUME InputFits, HandOver, NEW n, NEW sh, Handed(n, sh), Due
  PROVE  Due'
<1>0. call' = call /\ done' = done /\ \A c : ~AwaitedCmd(c)
  BY DEF HandOver, Awaiting, AwaitedCmd
<1>1. Lead' = Lead
  BY <1>0, SameCall
<1>2. \A c : Coming(c) => ~NoneIn(todo', c) \/ AwaitedCmd(c)' \/ done'[c] >= 1
  BY <1>0, HandComing DEF Coming
<1>3. CharsComing => CharsComing'
  BY HandCharsComing
<1>4. Coming("insert") => Coming("insert")'
  BY <1>2 DEF Coming
<1>5. Coming(Lead) => Coming(Lead)'
  BY <1>1, <1>2 DEF Coming, AwaitedCmd
<1> QED BY <1>0, <1>3, <1>4, <1>5 DEF Due

\* What was pressed before, or is pressed by what is handed over, is let go.
LEMMA HandSettled ==
  ASSUME InputFits, HandOver, NEW n, NEW sh, Handed(n, sh),
         NEW d, NEW u, NEW h, InputSettled(d, u, h), Uses(d)' = Uses(d), d # u,
         \A m \in 1..n : todo[1][m] = d => Uses(d) /\ EndsIn(todo[1], u)
  PROVE  InputSettled(d, u, h)'
<1>0. /\ held' = held /\ outcome' = outcome /\ todo \in Batches /\ todo' \in Batches
      /\ 1 \in DOMAIN todo /\ todo[1] \in Seq(Command)
  BY HandFacts DEF HandOver, InputFits, InputTypeOK, Batches
<1>1. /\ \A i \in DOMAIN wire : i \in DOMAIN wire' /\ wire'[i] = wire[i] /\ wire[i].mine = FALSE
      /\ \A i \in DOMAIN wire' : i \in DOMAIN wire \/
           \E m \in 1..n : i = Len(wire) + m /\ wire'[i] = [cmd |-> todo[1][m], mine |-> TRUE]
      /\ \A m \in 1..n : /\ m \in DOMAIN todo[1] /\ Len(wire) + m \in DOMAIN wire'
                         /\ wire'[Len(wire) + m] = [cmd |-> todo[1][m], mine |-> TRUE]
      /\ Len(wire) \in Nat /\ n \in 1..n /\ Len(wire') = Len(wire) + n
      /\ \A i \in DOMAIN wire' : i <= Len(wire')
  BY HandWire
<1>2. SUFFICES ASSUME h \in held' \/ ~NoneOut(d)'
               PROVE  Uses(d) /\ (outcome = "error" \/ HasEnd(todo', u) \/ LastOut(d, u)')
  BY <1>0 DEF InputSettled
<1>3. EndsIn(todo[1], u) => HasEnd(todo', u) \/ LastOut(d, u)'
  <2>0. SUFFICES ASSUME EndsIn(todo[1], u) PROVE HasEnd(todo', u) \/ LastOut(d, u)'
    OBVIOUS
  <2>1. CASE sh = 1
    <3>1. n = Len(todo[1])
      BY <2>1 DEF Handed
    <3>2. wire'[Len(wire')] = [cmd |-> u, mine |-> TRUE] /\ Len(wire') \in DOMAIN wire'
      BY <1>1, <2>0, <3>1 DEF EndsIn
    <3>3. \A m \in DOMAIN wire' : ~(m > Len(wire'))
      <4>1. wire' \in Seq(OnWire)
        BY HandFacts
      <4> QED BY <4>1
    <3>4. LastOut(d, u)'
      BY <3>2, <3>3 DEF LastOut
    <3> QED BY <3>4
  <2>2. CASE sh # 1
    <3>1. 1 \in DOMAIN todo' /\ 1 + sh = 1
      BY <2>2 DEF Handed
    <3>2. EndsIn(todo'[1], u)
      BY <2>0, <3>1, HandFrom
    <3> QED BY <3>1, <3>2 DEF HasEnd
  <2> QED BY <2>1, <2>2
<1>4. ASSUME h \in held \/ ~NoneOut(d)
      PROVE  Uses(d) /\ (outcome = "error" \/ HasEnd(todo', u) \/ LastOut(d, u)')
  <2>0. SUFFICES ASSUME outcome # "error"
                 PROVE  Uses(d) /\ (HasEnd(todo', u) \/ LastOut(d, u)')
    BY <1>4 DEF InputSettled
  <2>1. Uses(d) /\ (HasEnd(todo, u) \/ LastOut(d, u))
    BY <1>4, <2>0 DEF InputSettled
  <2>2. ~LastOut(d, u)
    BY <1>1 DEF LastOut
  <2>3. PICK j \in DOMAIN todo : EndsIn(todo[j], u)
    BY <2>1, <2>2 DEF HasEnd
  <2>4. CASE j = 1
    BY <1>3, <2>1, <2>3, <2>4
  <2>5. CASE j # 1
    <3>1. j - sh \in DOMAIN todo' /\ todo'[j - sh] = todo[j]
      BY <2>3, <2>5, HandPlaces
    <3>2. HasEnd(todo', u)
      BY <2>3, <3>1 DEF HasEnd
    <3> QED BY <2>1, <3>2
  <2> QED BY <2>4, <2>5
<1>5. ASSUME h \notin held, NoneOut(d)
      PROVE  Uses(d) /\ (outcome = "error" \/ HasEnd(todo', u) \/ LastOut(d, u)')
  <2>1. PICK i \in DOMAIN wire' : wire'[i].cmd = d
    BY <1>0, <1>2, <1>5 DEF NoneOut
  <2>2. i \notin DOMAIN wire
    BY <1>1, <1>5, <2>1 DEF NoneOut
  <2>3. PICK m \in 1..n : wire'[i] = [cmd |-> todo[1][m], mine |-> TRUE]
    BY <1>1, <2>2
  <2>4. todo[1][m] = d
    BY <2>1, <2>3
  <2>5. Uses(d) /\ EndsIn(todo[1], u)
    BY <2>3, <2>4
  <2> QED BY <1>3, <2>5
<1> QED BY <1>4, <1>5
LEMMA HandOverDone ==
  ASSUME InputInv, InputInv', DoneInv, HandOver
  PROVE  DoneInv'
<1>0. /\ InputFits /\ tool # "none" /\ outcome = "none" /\ call' = call /\ tool' = tool
      /\ attempt' = attempt /\ outcome' = outcome /\ done' = done /\ done \in [Command -> Nat]
      /\ Due /\ Shaped(todo) /\ WireFits /\ attempt >= 1
  BY DEF InputInv, HandOver, Working, DoneInv, InputFits, InputTypeOK
<1>1. PICK n, sh : Handed(n, sh)
  BY <1>0, HandFacts
<1>2. 1 \in DOMAIN todo /\ 1..n \subseteq DOMAIN todo[1] /\ GoodBatch(todo[1])
  BY <1>0, <1>1, HandPlaces DEF Shaped
<1>3. Uses("press")' = Uses("press") /\ Uses("down")' = Uses("down") /\ Shaped(todo)'
  BY <1>0, <1>1, SameCall, HandShaped
<1>4. InputSettled("press", "release", "button")'
  BY <1>0, <1>1, <1>2, <1>3, HandSettled DEF GoodBatch, DoneInv
<1>5. InputSettled("down", "up", "key")'
  BY <1>0, <1>1, <1>2, <1>3, HandSettled DEF GoodBatch, DoneInv
<1>6. ASSUME call.tool \in TypeTools, done["down"] > 0 \/ ~NoneOut("down")'
      PROVE  TextIn
  <2>1. CASE done["down"] > 0 \/ ~NoneOut("down")
    BY <1>6, <2>1 DEF DoneInv
  <2>2. CASE ~(done["down"] > 0) /\ NoneOut("down")
    <3>1. PICK i \in DOMAIN wire' : wire'[i].cmd = "down"
      BY <1>6, <2>2 DEF NoneOut
    <3>0. /\ \A l \in DOMAIN wire : wire'[l] = wire[l]
          /\ \A l \in DOMAIN wire' : l \in DOMAIN wire \/
               \E m \in 1..n : l = Len(wire) + m /\ wire'[l] = [cmd |-> todo[1][m], mine |-> TRUE]
      BY <1>0, <1>1, HandWire
    <3>2. i \notin DOMAIN wire
      BY <2>2, <3>0, <3>1 DEF NoneOut
    <3>3. PICK m \in 1..n : wire'[i] = [cmd |-> todo[1][m], mine |-> TRUE]
      BY <3>0, <3>2
    <3>4. m \in DOMAIN todo[1] /\ todo[1][m] = "down"
      BY <1>2, <3>1, <3>3
    <3>5. \A j \in DOMAIN todo : \A l \in DOMAIN todo[j] : todo[j][l] \notin Texts
      <4>1. \A j \in DOMAIN todo : ~(j < 1)
        <5>1. todo \in Batches
          BY <1>0, Whole
        <5> QED BY <5>1 DEF Batches
      <4> QED BY <1>0, <1>2, <3>4, <4>1 DEF Shaped, LinesUp
    <3>6. NoneIn(todo, "insert") /\ \A c : ~AwaitedCmd(c)
      BY <3>5 DEF NoneIn, Texts, HandOver, Awaiting, AwaitedCmd
    <3>7. \A k \in 0..TextChunks : FirstChars(k) => k = 0
      <4>1. SUFFICES ASSUME NEW k \in 0..TextChunks, FirstChars(k), k # 0 PROVE FALSE
        OBVIOUS
      <4>2. todo[1] = <<"chars">>
        <5>1. k \in Nat /\ k >= 1 /\ 1 \in 1..k
          BY <4>1, InputAssumption
        <5> QED BY <4>1, <5>1 DEF FirstChars
      <4> QED BY <1>2, <3>5, <4>2 DEF Texts
    <3>8. "chars" \in Command /\ done["chars"] \in Nat /\ TextChunks \in Nat
      BY <1>0, InputAssumption DEF Command
    <3>9. Coming("insert") \/ CharsComing
      BY <1>0, <1>6 DEF Due
    <3>10. CharsComing => done["chars"] >= TextChunks
      BY <3>6, <3>7, <3>8 DEF CharsComing
    <3> QED BY <3>6, <3>9, <3>10 DEF Coming, TextIn
  <2> QED BY <2>1, <2>2
<1>7. WireFits' /\ Due'
  BY <1>0, <1>1, HandWireFits, HandDue
<1>8. TextIn => TextIn'
  BY <1>0 DEF TextIn
<1> QED BY <1>0, <1>3, <1>4, <1>5, <1>6, <1>7, <1>8 DEF DoneInv

\* What a called handler's tool sends.
PlanFits == call \in InputCall /\ Suits(tool) => Shaped(SendsOf(tool, call))
LEMMA PlanAlways == []PlanFits
<1>1. PlanFits
  BY PlanShaped DEF PlanFits
<1> QED BY <1>1, PTL

LEMMA CalledDone ==
  ASSUME InputInv, InputInv', NEW c \in InputCalls, Called(c)
  PROVE  DoneInv'
<1>0. /\ call' = c /\ tool' = c.tool /\ attempt' = 1 /\ todo' = SendsOf(c.tool, c)
      /\ wire' = wire /\ done' = done /\ held' = held /\ outcome' = outcome
  BY DEF Called
<1>1. wire = << >> /\ outcome = "none" /\ held = {} /\ done = [x \in Command |-> 0]
  BY DEF Called, InputInv, InputFits
<1>2. c \in InputCall /\ c.tool \in CallTools /\ c.tool # "none" /\ c.tool # "enter"
  BY InputAssumption DEF InputCall, CallTools, ClickTools, TypeTools, KeyTools, MouseTools, FormTools
<1>3. SuitsFor(c.tool, c) /\ Suits(tool)' /\ (call \in InputCall)'
  BY <1>0, <1>2 DEF SuitsFor, Suits
<1>4. PlanFits'
  BY PlanAlways, PTL
<1>5. Shaped(todo)'
  <2>1. Shaped(SendsOf(tool, call))'
    BY <1>3, <1>4 DEF PlanFits
  <2>2. todo' = SendsOf(tool, call)'
    BY <1>0 DEF SendsOf
  <2> QED BY <2>1, <2>2 DEF Shaped, GoodBatch, LinesUp
<1>6. ~NoneIn(todo', LeadOf(c))
  <2>1. SendsOf(c.tool, c) \in Batches /\ Filled(SendsOf(c.tool, c)) /\ OneIn(SendsOf(c.tool, c), LeadOf(c))
    BY <1>2, <1>3, PlansFor
  <2>2. ~NoneIn(SendsOf(c.tool, c), LeadOf(c))
    BY <2>1, OneIsSome
  <2> QED BY <1>0, <2>2
<1>7. Due'
  <2>1. Lead' = LeadOf(c)
    BY <1>0 DEF Lead
  <2>2. c.tool \in TypeTools => LeadOf(c) = "insert"
    BY DEF LeadOf, TypeTools, ClickTools
  <2>3. Coming(LeadOf(c))'
    BY <1>6 DEF Coming
  <2> QED BY <1>0, <2>1, <2>2, <2>3 DEF Due, Coming, NoneIn, AwaitedCmd
<1>8. /\ \A i \in DOMAIN wire' : FALSE
      /\ NoneOut("insert")' /\ NoneOut("press")' /\ NoneOut("down")' /\ ~AwaitedCmd("insert")' /\ ~Awaiting'
  BY <1>0, <1>1 DEF NoneOut, AwaitedCmd, Awaiting
<1>9. done'["down"] = 0 /\ held' = {}
  BY <1>0, <1>1 DEF Command
<1>10. WireFits' /\ InputSettled("press", "release", "button")' /\ InputSettled("down", "up", "key")'
  BY <1>8, <1>9 DEF WireFits, InputSettled
<1> QED BY <1>0, <1>1, <1>5, <1>7, <1>8, <1>9, <1>10 DEF DoneInv

LEMMA DoneInit == InputInit => DoneInv
<1>1. SUFFICES ASSUME InputInit PROVE DoneInv
  OBVIOUS
<1>2. /\ wire = << >> /\ todo = << >> /\ tool = "none" /\ held = {} /\ outcome = "none"
      /\ call = NoCall /\ done["down"] = 0
  <2>1. done = [c \in Command |-> 0] /\ "down" \in Command
    BY <1>1 DEF InputInit, Command
  <2> QED BY <1>1, <2>1 DEF InputInit
<1>3. NoneOut("insert") /\ NoneOut("press") /\ NoneOut("down") /\ ~AwaitedCmd("insert") /\ ~Awaiting
  BY <1>2 DEF NoneOut, AwaitedCmd, Awaiting
<1>4. Shaped(todo) /\ WireFits
      /\ InputSettled("press", "release", "button") /\ InputSettled("down", "up", "key")
  BY <1>2, <1>3, NoBatches DEF WireFits, InputSettled
<1>5. call.tool \notin TypeTools
  BY <1>2 DEF NoCall, TypeTools
<1> QED BY <1>2, <1>4, <1>5 DEF DoneInv

LEMMA DoneNext ==
  ASSUME InputInv, InputInv', DoneInv, [InputNext]_inputVars
  PROVE  DoneInv'
<1>1. ASSUME NEW c \in InputCalls, Called(c) PROVE DoneInv'
  BY <1>1, CalledDone
<1>2. ASSUME UNCHANGED inputVars PROVE DoneInv'
  <2>1. /\ call' = call /\ tool' = tool /\ attempt' = attempt /\ todo' = todo /\ wire' = wire
        /\ done' = done /\ held' = held /\ outcome' = outcome
    BY <1>2 DEF inputVars
  <2>2. Shaped(todo)' /\ Lead' = Lead /\ Uses("press")' = Uses("press") /\ Uses("down")' = Uses("down")
    BY <2>1, SameCall DEF DoneInv
  <2>3. WireFits' = WireFits /\ Due' = Due /\ TextIn' = TextIn /\ Awaiting' = Awaiting
        /\ NoneOut("down")' = NoneOut("down")
    BY <2>1, <2>2 DEF WireFits, Due, TextIn, Awaiting, NoneOut, AwaitedCmd, Coming, CharsComing, FirstChars
  <2>4. InputSettled("press", "release", "button")' /\ InputSettled("down", "up", "key")'
    BY <2>1, <2>2 DEF DoneInv, InputSettled, NoneOut, LastOut
  <2> QED BY <2>1, <2>2, <2>3, <2>4 DEF DoneInv
<1> QED BY <1>1, <1>2, ConnectFailsDone, HandOverDone, RefusedDone, CarryOutDone, NotFoundDone,
           RejectedDone, TimesOutDone, BreaksDone, FinishDone DEF InputNext, InputStep

\* A call that ended has done what it is for.
LEMMA EndedDone == InputInv /\ DoneInv => OkMeansDone
<1>1. SUFFICES ASSUME InputInv, DoneInv PROVE OkMeansDone
  OBVIOUS
<1>2. CASE tool = "none"
  <2>1. done["down"] = 0 /\ outcome = "none"
    BY <1>1, <1>2 DEF InputInv, InputFits, Command
  <2> QED BY <2>1 DEF OkMeansDone
<1>3. CASE tool # "none"
  <2>1. call \in InputCall /\ done \in [Command -> Nat]
    BY <1>1, <1>3, CallFits DEF InputInv, InputFits, InputTypeOK
  <2>2. call.submit /\ done["down"] > 0 => TextIn
    BY <1>1, <2>1 DEF InputCall, DoneInv
  <2>3. ASSUME outcome = "ok"
        PROVE  /\ IF Main = {"insert", "chars"} THEN TextIn ELSE \A c \in Main : done[c] > 0
               /\ held = {}
    <3>1. todo = << >> /\ ~Awaiting /\ Due
      BY <1>1, <1>3, <2>3 DEF DoneInv
    <3>2. \A c : ~AwaitedCmd(c) /\ NoneIn(todo, c) /\ ~LastOut("press", c) /\ ~LastOut("down", c)
                 /\ ~HasEnd(todo, c)
      BY <3>1 DEF AwaitedCmd, Awaiting, NoneIn, LastOut, HasEnd
    <3>3. held = {}
      <4>1. "button" \notin held /\ "key" \notin held
        BY <1>1, <2>3, <3>2 DEF DoneInv, InputSettled
      <4> QED BY <1>1, <4>1 DEF InputInv, InputFits, InputTypeOK
    <3>4. CharsComing => done["chars"] >= TextChunks
      <4>1. TextChunks \in Nat /\ "chars" \in Command /\ done["chars"] \in Nat
        BY <2>1, InputAssumption DEF Command
      <4>2. \A k \in 0..TextChunks : FirstChars(k) => k = 0
        BY <3>1, <4>1 DEF FirstChars
      <4> QED BY <3>2, <4>1, <4>2 DEF CharsComing
    <3>5. call.tool \in TypeTools => TextIn
      BY <3>1, <3>2, <3>4 DEF Due, Coming, TextIn
    <3>6. call.tool \notin TypeTools => done[Lead] >= 1
      BY <3>1, <3>2 DEF Due, Coming
    <3>7. Main = (IF call.tool \in TypeTools THEN Texts ELSE {Lead}) /\ Lead \in Command
      BY <2>1, MainFacts
    <3>8. \A c \in Main : call.tool \notin TypeTools => done[c] > 0
      <4>1. done[Lead] \in Nat
        BY <2>1, <3>7
      <4> QED BY <3>6, <3>7, <4>1
    <3> QED BY <3>3, <3>5, <3>7, <3>8 DEF Texts
  <2> QED BY <2>2, <2>3 DEF OkMeansDone
<1> QED BY <1>2, <1>3

\* A call that reports success has done what it is for and has let go of the button
\* and of the key, and Enter is pressed only after the whole text.
THEOREM DoneCorrect == InputSpec => []OkMeansDone
<1>1. InputInit => InputInv /\ DoneInv
  BY InputInitInv, DoneInit
<1>2. InputInv /\ DoneInv /\ [InputNext]_inputVars => InputInv' /\ DoneInv'
  BY InputNextInv, DoneNext
<1>3. InputInv /\ DoneInv => OkMeansDone
  BY EndedDone
<1> QED BY <1>1, <1>2, <1>3, PTL DEF InputSpec
=============================================================================
