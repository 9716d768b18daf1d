----------------------------- MODULE TabProofs ------------------------------
(* Proofs about a server's session in a tab: the blocks that share its     *)
(* connection (TabSession), the events that the extension forwards         *)
(* (BridgeEvents), the connection of its own (CdpChannel) and the page's   *)
(* dialogs (Dialogs), for all values of the constants; and their types.    *)
EXTENDS TabSession, BridgeEvents, CdpChannel, Dialogs, SequenceTheorems, WellFoundedInduction,
        TLAPS

-----------------------------------------------------------------------------
(* The session: the blocks of shared_session.                              *)

Block == [owner : BOOLEAN, line : 1..MaxFrames]

FramesTyped ==
  /\ frames \in Seq(Block) /\ Len(frames) <= MaxFrames
  /\ DOMAIN lines = 1..MaxFrames
  /\ sharedLine \in 0..MaxFrames /\ refcount \in 0..MaxFrames

\* A connection is opened at the depth of its block, and only with none open; it is
\* counted until it is closed.
OwnersOpen == \A i \in 1..Len(frames) : frames[i].owner => frames[i].line = i
CountedIsOpen == refcount > 0 <=> sharedLine # 0
OpeningFields == {"why", "tries", "tab"}
OpeningAlone ==
  /\ DOMAIN opening = OpeningFields /\ opening.why \in {"none", "tool", "hold"}
  /\ opening.why # "none" => plan = <<>> /\ ~SharedActive
  /\ opening.why = "hold" => Len(frames) < MaxFrames

OpenLines == {d \in 1..MaxFrames : lines[d] # NoTab}
Balanced ==
  /\ OpenLines = IF refcount > 0 THEN {sharedLine} ELSE {}
  /\ refcount > 0 =>
       /\ sharedLine \in 1..Len(frames) /\ frames[sharedLine].owner
       /\ refcount = Len(frames) - sharedLine + 1

BlocksInv == FramesTyped /\ OwnersOpen /\ CountedIsOpen /\ OpeningAlone /\ Balanced

LEMMA BlocksInitInv == TabInit => BlocksInv
BY TabAssumption
DEF TabInit, BlocksInv, FramesTyped, OwnersOpen, CountedIsOpen, OpeningAlone, Balanced, OpenLines,
    NotOpening, OpeningFields

\* What leaves the blocks alone, and begins a session only where there is none.
LEMMA BlocksKept ==
  ASSUME BlocksInv, UNCHANGED <<frames, lines, sharedLine, refcount>>,
         DOMAIN opening' = OpeningFields,
         \/ opening'.why = "none"
         \/ opening'.why = opening.why /\ (plan' = plan \/ opening.why = "none")
         \/ /\ opening'.why \in {"tool", "hold"} /\ plan' = <<>> /\ ~SharedActive
            /\ opening'.why = "hold" => Len(frames) < MaxFrames
  PROVE  BlocksInv'
BY DEF BlocksInv, FramesTyped, OwnersOpen, CountedIsOpen, OpeningAlone, Balanced, OpenLines,
       SharedActive

\* A block is entered: with a connection of its own, or with the one that is open.
LEMMA EnterInv ==
  ASSUME BlocksInv, Nest \/ (SessionOpens /\ opening.why # "tool")
  PROVE  BlocksInv'
<1> USE TabAssumption DEF BlocksInv
<1> DEFINE d == Len(frames) + 1
<1>0. Len(frames) \in Nat /\ opening'.why = "none" /\ DOMAIN opening' = OpeningFields
  BY DEF FramesTyped, Nest, SessionOpens, NotOpening, Idle, OpeningFields
<1>1. Len(frames) < MaxFrames /\ d \in 1..MaxFrames
  BY <1>0 DEF Nest, SessionOpens, OpeningAlone, FramesTyped
<1>2. ASSUME NEW b \in Block, frames' = Append(frames, b)
      PROVE  /\ frames' \in Seq(Block) /\ Len(frames') = d /\ frames'[d] = b
             /\ \A i \in 1..Len(frames) : frames'[i] = frames[i]
  BY <1>2, <1>0 DEF FramesTyped
<1>3. CASE Nest
  <2>1. SharedActive /\ sharedLine \in 1..MaxFrames
    BY <1>3 DEF Nest, SharedActive, FramesTyped
  <2>2. [owner |-> FALSE, line |-> sharedLine] \in Block
    BY <2>1 DEF Block
  <2>h DEFINE inner == [owner |-> FALSE, line |-> sharedLine]
  <2>i. frames' = Append(frames, inner)
    BY <1>3 DEF Nest
  <2>j. inner \in Block /\ ~inner.owner
    BY <2>2
  <2>3. /\ frames' \in Seq(Block) /\ Len(frames') = d /\ ~frames'[d].owner
        /\ \A i \in 1..Len(frames) : frames'[i] = frames[i]
    <3> HIDE DEF inner
    <3> QED BY <1>2, <2>i, <2>j
  <2>4. refcount' = refcount + 1 /\ UNCHANGED <<lines, sharedLine>>
    BY <1>3 DEF Nest
  <2>5. FramesTyped'
    BY <1>0, <1>1, <2>1, <2>3, <2>4 DEF FramesTyped, Balanced, SharedActive
  <2>6. OwnersOpen' /\ CountedIsOpen'
    BY <1>0, <2>1, <2>3, <2>4 DEF OwnersOpen, CountedIsOpen, SharedActive, FramesTyped
  <2>7. Balanced'
    BY <1>0, <2>1, <2>3, <2>4, SMTT(60) DEF Balanced, OpenLines, SharedActive, FramesTyped
  <2> QED BY <1>0, <2>5, <2>6, <2>7 DEF OpeningAlone
<1>4. CASE SessionOpens /\ opening.why # "tool"
  <2>1. /\ frames' = Append(frames, [owner |-> TRUE, line |-> d])
        /\ lines' = [lines EXCEPT ![d] = opening.tab] /\ opening.tab # NoTab
        /\ sharedLine' = d /\ refcount' = 1
    BY <1>4 DEF SessionOpens
  <2>2. [owner |-> TRUE, line |-> d] \in Block
    BY <1>1 DEF Block
  <2>3. /\ frames' \in Seq(Block) /\ Len(frames') = d /\ frames'[d] = [owner |-> TRUE, line |-> d]
        /\ \A i \in 1..Len(frames) : frames'[i] = frames[i]
    BY <1>2, <2>1, <2>2
  <2>4. refcount = 0
    BY <1>4 DEF SessionOpens, OpeningAlone, SharedActive, CountedIsOpen, FramesTyped
  <2>5. FramesTyped'
    BY <1>0, <1>1, <2>1, <2>3 DEF FramesTyped
  <2>6. OwnersOpen' /\ CountedIsOpen'
    BY <1>0, <2>1, <2>3 DEF OwnersOpen, CountedIsOpen
  <2>7. OpenLines' = {d}
    BY <1>1, <2>1, <2>4 DEF Balanced, OpenLines, FramesTyped
  <2>8. Balanced'
    BY <1>0, <2>1, <2>3, <2>7 DEF Balanced
  <2> QED BY <1>0, <2>5, <2>6, <2>8 DEF OpeningAlone
<1> QED BY <1>3, <1>4

\* A block is left.
LEMMA BlockReleaseInv ==
  ASSUME BlocksInv, Release
  PROVE  BlocksInv'
<1> USE TabAssumption DEF BlocksInv
<1> DEFINE n == Len(frames)
<1>1. /\ n \in Nat \ {0} /\ UNCHANGED <<plan, opening>>
      /\ opening.why = "none" /\ DOMAIN opening = OpeningFields
  BY DEF Release, FramesTyped, Idle, NotOpening, OpeningFields
<1>2. /\ frames' \in Seq(Block) /\ Len(frames') = n - 1
      /\ \A i \in 1..(n - 1) : frames'[i] = frames[i]
  <2>1. frames' = SubSeq(frames, 1, n - 1)
    BY DEF Release
  <2>2. frames \in Seq(Block) /\ n - 1 \in 0..n
    BY <1>1 DEF FramesTyped
  <2>3. frames' \in Seq(Block) /\ Len(frames') = n - 1
    <3>1. \A i \in 1..(n - 1) : frames[i] \in Block
      BY <1>1, <2>2
    <3> DEFINE m == n - 1
    <3>2. m \in Nat /\ m \in Int /\ 1 \in Int /\ \A i \in 1..m : frames[i] \in Block
      BY <1>1, <3>1
    <3>3. frames' = SubSeq(frames, 1, m)
      BY <2>1
    <3> HIDE DEF m
    <3>4. /\ frames' \in Seq(Block)
          /\ Len(frames') = IF 1 <= m THEN m - 1 + 1 ELSE 0
      BY <3>2, <3>3, SubSeqProperties
    <3>5. Len(frames') = m
      BY <3>2, <3>4
    <3> QED BY <3>4, <3>5 DEF m
  <2>4. ASSUME NEW i \in 1..(n - 1) PROVE frames'[i] = frames[i]
    BY <1>1, <2>1, <2>2
  <2> QED BY <2>3, <2>4
<1>3. OwnersOpen' /\ OpeningAlone'
  BY <1>1, <1>2 DEF OwnersOpen, OpeningAlone
<1>4. CASE refcount > 1
  <2>1. refcount' = refcount - 1 /\ UNCHANGED <<lines, sharedLine>>
    BY <1>4 DEF Release
  <2>2. FramesTyped' /\ CountedIsOpen' /\ Balanced'
    BY <1>1, <1>2, <1>4, <2>1 DEF FramesTyped, CountedIsOpen, Balanced, OpenLines
  <2> QED BY <1>3, <2>2
<1>5. CASE ~(refcount > 1)
  <2>1. /\ refcount' = 0 /\ sharedLine' = 0
        /\ lines' = [lines EXCEPT ![frames[n].line] = NoTab]
    BY <1>5 DEF Release
  <2>2. refcount > 0 => frames[n].line = sharedLine
    BY <1>1, <1>5 DEF Balanced, OwnersOpen, FramesTyped
  <2>3. OpenLines' = {}
    BY <2>1, <2>2 DEF OpenLines, Balanced, FramesTyped
  <2>4. FramesTyped' /\ CountedIsOpen' /\ Balanced'
    BY <1>1, <1>2, <2>1, <2>3 DEF FramesTyped, CountedIsOpen, Balanced
  <2> QED BY <1>3, <2>4
<1> QED BY <1>4, <1>5

LEMMA RecoverInv ==
  ASSUME BlocksInv, RecoverReset
  PROVE  BlocksInv'
<1> USE TabAssumption DEF BlocksInv
<1>1. /\ sharedLine' = 0 /\ refcount' = 0 /\ UNCHANGED <<frames, opening>>
      /\ lines' = IF sharedLine = 0 THEN lines ELSE [lines EXCEPT ![sharedLine] = NoTab]
  BY DEF RecoverReset, DropShared
<1>2. plan # <<>>
  BY DEF RecoverReset, Doing
<1>3. OpenLines' = {}
  BY <1>1 DEF OpenLines, Balanced, CountedIsOpen, FramesTyped
<1> QED
  BY <1>1, <1>2, <1>3
  DEF FramesTyped, OwnersOpen, CountedIsOpen, OpeningAlone, Balanced

LEMMA BlocksNextInv ==
  ASSUME BlocksInv, [TabNext]_tabVars
  PROVE  BlocksInv'
<1>0. plan # <<>> => opening.why = "none"
  BY DEF BlocksInv, OpeningAlone
<1>a. ASSUME UNCHANGED <<frames, lines, sharedLine, refcount>>,
             DOMAIN opening' = OpeningFields,
             opening'.why = "none" \/ (opening' = opening /\ opening.why = "none")
                                   \/ (opening'.why = opening.why /\ plan' = plan)
      PROVE  BlocksInv'
  BY <1>a, BlocksKept
<1>1. CASE UseShared \/ HandleTabs \/ SwitchTab \/ NewTabFails \/ CloseTab
           \/ \E t \in Tabs : AutoTab(t) \/ NewTab(t) \/ TabOpens(t) \/ TabGoes(t)
  <2>1. UNCHANGED <<frames, lines, sharedLine, refcount, opening>>
    BY <1>1
    DEF UseShared, HandleTabs, SwitchTab, NewTabFails, CloseTab, AutoTab, NewTab, TabOpens, TabGoes
  <2>2. opening.why = "none" \/ plan' = plan
    <3>1. CASE UseShared \/ \E t \in Tabs : TabOpens(t) \/ TabGoes(t)
      BY <3>1 DEF UseShared, TabOpens, TabGoes
    <3>2. CASE HandleTabs \/ \E t \in Tabs : AutoTab(t)
      BY <3>2 DEF HandleTabs, AutoTab, Idle, NotOpening
    <3>3. CASE SwitchTab \/ NewTabFails \/ CloseTab \/ \E t \in Tabs : NewTab(t)
      BY <1>0, <3>3 DEF SwitchTab, NewTabFails, CloseTab, NewTab, Doing
    <3> QED BY <1>1, <3>1, <3>2, <3>3
  <2>3. DOMAIN opening' = OpeningFields
    BY <2>1 DEF BlocksInv, OpeningAlone, OpeningFields
  <2> QED BY <1>a, <2>1, <2>2, <2>3
<1>5. CASE SessionOpens /\ opening.why = "tool"
  <2>1. UNCHANGED <<frames, lines, sharedLine, refcount>> /\ opening' = NotOpening
    BY <1>5 DEF SessionOpens
  <2> QED BY <1>a, <2>1 DEF NotOpening, OpeningFields
<1>2. CASE KeepTab \/ SessionFails \/ \E t \in Tabs : ReplaceTab(t)
  <2>1. UNCHANGED <<frames, lines, sharedLine, refcount, plan>>
    BY <1>2 DEF KeepTab, SessionFails, ReplaceTab
  <2>2. opening'.why = "none" \/ opening'.why = opening.why
    <3>1. CASE opening' = NotOpening
      BY <3>1 DEF NotOpening
    <3>2. ASSUME NEW t, opening' = [opening EXCEPT !.tab = t]
          PROVE  opening'.why = opening.why
      BY <3>2 DEF BlocksInv, OpeningAlone, OpeningFields
    <3>3. ASSUME NEW n, NEW t, opening' = [opening EXCEPT !.tries = n, !.tab = t]
          PROVE  opening'.why = opening.why
      BY <3>3 DEF BlocksInv, OpeningAlone, OpeningFields
    <3> QED BY <1>2, <3>1, <3>2, <3>3 DEF KeepTab, SessionFails, ReplaceTab
  <2>3. DOMAIN opening' = OpeningFields
    BY <1>2
    DEF KeepTab, SessionFails, ReplaceTab, NotOpening, BlocksInv, OpeningAlone, OpeningFields
  <2> QED BY <1>a, <2>1, <2>2, <2>3
<1>3. CASE \E why \in {"tool", "hold"} : BeginSession(why)
  BY <1>3, BlocksKept DEF BeginSession, Idle, NotOpening, OpeningFields
<1>4. CASE UNCHANGED tabVars
  BY <1>4, BlocksKept DEF tabVars, BlocksInv, OpeningAlone
<1> QED
  BY <1>1, <1>2, <1>3, <1>4, <1>5, EnterInv, BlockReleaseInv, RecoverInv DEF TabNext

\* However runs, their inner blocks and recoveries are nested, the shared connection is open
\* exactly while it is counted, and the count is that of the blocks on it
\* (session_manager.py, shared_session and recover_reset).
THEOREM SharedCorrect == TabSpec => []SharedBalanced
<1>1. BlocksInv => SharedBalanced
  BY DEF BlocksInv, FramesTyped, CountedIsOpen, Balanced, OpenLines, SharedActive, SharedBalanced
<1> QED BY <1>1, BlocksInitInv, BlocksNextInv, PTL DEF TabSpec

-----------------------------------------------------------------------------
(* The session: the event buses.                                           *)

LEMMA BusesNext ==
  ASSUME BusesFollowSession, [TabNext]_tabVars
  PROVE  BusesFollowSession'
<1> USE DEF BusesFollowSession
<1>1. CASE UseShared \/ SessionOpens \/ \E t \in Tabs : AutoTab(t)
  BY <1>1 DEF UseShared, SessionOpens, AutoTab, ActOn, EnsureBus, Stray
<1>2. CASE SessionFails \/ \E t \in Tabs : ReplaceTab(t)
  BY <1>2 DEF SessionFails, ReplaceTab, Stray
<1>3. CASE SwitchTab \/ CloseTab \/ RecoverReset \/ \E t \in Tabs : NewTab(t)
  BY <1>3 DEF SwitchTab, CloseTab, RecoverReset, NewTab, MoveTo
<1>4. CASE \/ KeepTab \/ Nest \/ Release \/ HandleTabs \/ NewTabFails \/ UNCHANGED tabVars
           \/ \E why \in {"tool", "hold"} : BeginSession(why)
           \/ \E t \in Tabs : TabOpens(t) \/ TabGoes(t)
  BY <1>4
  DEF KeepTab, Nest, Release, HandleTabs, NewTabFails, BeginSession, TabOpens, TabGoes, tabVars
<1> QED BY <1>1, <1>2, <1>3, <1>4 DEF TabNext

\* Whatever tabs do, an event bus runs on the session's tab only, or on one of those that
\* the property says were left behind (session_manager.py, ensure_telemetry).
THEOREM BusesCorrect == TabSpec => []BusesFollowSession
<1>1. TabInit => BusesFollowSession
  BY DEF TabInit, BusesFollowSession
<1> QED BY <1>1, BusesNext, PTL DEF TabSpec

\* Neither a connection nor an event bus of a session is left open (session_manager.py,
\* shared_session, recover_reset and ensure_telemetry).
THEOREM SessionCorrect == TabSpec => []NothingLeaks
BY SharedCorrect, BusesCorrect, PTL DEF NothingLeaks

-----------------------------------------------------------------------------
(* The events of a tab.                                                    *)

LEMMA AppendMembers ==
  ASSUME NEW q \in Seq(Nat), NEW n \in Nat
  PROVE  /\ Append(q, n) \in Seq(Nat) /\ Members(Append(q, n)) = Members(q) \cup {n}
         /\ Rising(q) /\ (\A m \in Members(q) : m < n) => Rising(Append(q, n))
<1>1. /\ Append(q, n) \in Seq(Nat) /\ Len(Append(q, n)) = Len(q) + 1
      /\ Append(q, n)[Len(q) + 1] = n /\ \A i \in 1..Len(q) : Append(q, n)[i] = q[i]
  BY AppendProperties
<1>2. Members(Append(q, n)) = Members(q) \cup {n}
  BY <1>1 DEF Members
<1>3. Rising(q) /\ (\A m \in Members(q) : m < n) => Rising(Append(q, n))
  BY <1>1 DEF Members, Rising
<1> QED BY <1>1, <1>2, <1>3

LEMMA TailMembers ==
  ASSUME NEW q \in Seq(Nat), q # << >>
  PROVE  /\ Tail(q) \in Seq(Nat) /\ Head(q) \in Nat /\ Len(Tail(q)) = Len(q) - 1
         /\ Members(q) = Members(Tail(q)) \cup {Head(q)}
         /\ \A i \in 1..Len(q) - 1 : Tail(q)[i] = q[i + 1]
         /\ Rising(q) => Rising(Tail(q)) /\ \A m \in Members(Tail(q)) : Head(q) < m
<1>1. /\ Tail(q) \in Seq(Nat) /\ Head(q) \in Nat /\ Len(Tail(q)) = Len(q) - 1
      /\ Head(q) = q[1] /\ Len(q) \in Nat \ {0} /\ \A i \in 1..Len(q) - 1 : Tail(q)[i] = q[i + 1]
  BY HeadTailProperties, EmptySeq
<1>2. Members(q) = Members(Tail(q)) \cup {Head(q)}
  <2>1. ASSUME NEW i \in DOMAIN q PROVE q[i] \in Members(Tail(q)) \cup {Head(q)}
    <3>1. CASE i = 1
      BY <1>1, <3>1
    <3>2. CASE i # 1
      <4>1. i - 1 \in DOMAIN Tail(q) /\ Tail(q)[i - 1] = q[i]
        BY <1>1, <3>2
      <4> QED BY <4>1 DEF Members
    <3> QED BY <3>1, <3>2
  <2>2. ASSUME NEW i \in DOMAIN Tail(q) PROVE Tail(q)[i] \in Members(q)
    <3>1. i + 1 \in DOMAIN q /\ Tail(q)[i] = q[i + 1]
      BY <1>1
    <3> QED BY <3>1 DEF Members
  <2>3. Head(q) \in Members(q)
    BY <1>1 DEF Members
  <2> QED BY <2>1, <2>2, <2>3 DEF Members
<1>3. Rising(q) => Rising(Tail(q)) /\ \A m \in Members(Tail(q)) : Head(q) < m
  <2> SUFFICES ASSUME Rising(q) PROVE Rising(Tail(q)) /\ \A m \in Members(Tail(q)) : Head(q) < m
    OBVIOUS
  <2>1. Rising(Tail(q))
    BY <1>1, SMTT(60) DEF Rising
  <2>2. ASSUME NEW i \in DOMAIN Tail(q) PROVE Head(q) < Tail(q)[i]
    <3>1. i + 1 \in DOMAIN q /\ 1 \in DOMAIN q /\ 1 < i + 1 /\ Tail(q)[i] = q[i + 1]
      BY <1>1
    <3> QED BY <1>1, <3>1 DEF Rising
  <2> QED BY <2>1, <2>2 DEF Members
<1> QED BY <1>1, <1>2, <1>3

LEMMA NewestMembers ==
  ASSUME NEW q \in Seq(Nat)
  PROVE  /\ NewestEvents(q) \in Seq(Nat) /\ Members(NewestEvents(q)) \subseteq Members(q)
         /\ Rising(q) => Rising(NewestEvents(q))
<1>1. CASE NewestEvents(q) = q
  BY <1>1
<1>2. CASE NewestEvents(q) # q
  <2> DEFINE m == Len(q) - MaxTabQueue + 1
             r == SubSeq(q, m, Len(q))
  <2>1. Len(q) > MaxTabQueue /\ NewestEvents(q) = r /\ MaxTabQueue \in Nat
    BY <1>2, BridgeEventsAssumption DEF NewestEvents
  <2>2. m \in 1..Len(q) + 1 /\ Len(q) \in m - 1..Len(q)
    BY <2>1
  <2> HIDE DEF m
  <2>3. /\ r \in Seq(Nat) /\ Len(r) = Len(q) - m + 1
        /\ \A i \in 1..Len(q) - m + 1 : r[i] = q[m + i - 1]
    BY <2>2, SubSeqProperties
  <2>4. \A i \in DOMAIN r : m + i - 1 \in DOMAIN q /\ r[i] = q[m + i - 1]
    BY <2>2, <2>3
  <2>5. Members(r) \subseteq Members(q)
    BY <2>4 DEF Members
  <2>6. Rising(q) => Rising(r)
    BY <2>2, <2>3, <2>4 DEF Rising
  <2> QED BY <2>1, <2>3, <2>5, <2>6
<1> QED BY <1>1, <1>2

\* Where what stands before and after the i-th of n is found without it.
LEMMA IndexAround ==
  ASSUME NEW n \in Nat, NEW i \in 1..n, NEW j \in 1..n - 1,
         NEW before \in Nat, before = i - 1, NEW after \in Nat, after = n - i
  PROVE  /\ j < i => j \in 1..before + after /\ j <= before /\ j \in 1..i - 1
         /\ j >= i => /\ j \in 1..before + after /\ ~(j <= before)
                      /\ j - before \in 1..n - i /\ i + (j - before) = j + 1
OBVIOUS

LEMMA CutMembers ==
  ASSUME NEW q \in Seq(Nat), NEW i \in DOMAIN q, Rising(q)
  PROVE  LET r == SubSeq(q, 1, i - 1) \o SubSeq(q, i + 1, Len(q))
         IN  /\ r \in Seq(Nat) /\ Rising(r)
             /\ \A m \in Members(r) : \E j \in DOMAIN q : j # i /\ q[j] = m
             /\ \A j \in DOMAIN q : j # i => q[j] \in Members(r)
<1> DEFINE a == SubSeq(q, 1, i - 1)
           b == SubSeq(q, i + 1, Len(q))
           r == a \o b
           n == i + 1
<1>0. Len(q) \in Nat /\ i \in 1..Len(q)
  OBVIOUS
<1>1. /\ a \in Seq(Nat) /\ Len(a) = i - 1 /\ \A j \in 1..i - 1 : a[j] = q[j]
  BY SubSeqProperties
<1>2. n \in 1..Len(q) + 1 /\ Len(q) \in n - 1..Len(q)
  OBVIOUS
<1>3. /\ b \in Seq(Nat) /\ Len(b) = Len(q) - i /\ \A j \in 1..Len(q) - i : b[j] = q[i + j]
  <2>1. /\ b \in Seq(Nat) /\ Len(b) = IF n <= Len(q) THEN Len(q) - n + 1 ELSE 0
        /\ \A j \in 1..Len(q) - n + 1 : b[j] = q[n + j - 1]
    <3>1. n \in Int /\ Len(q) \in Int /\ \A j \in n..Len(q) : q[j] \in Nat
      BY <1>0
    <3> QED BY <3>1, SubSeqProperties, SMTT(60)
  <2>2. Len(q) - n + 1 = Len(q) - i /\ \A j \in 1..Len(q) - i : n + j - 1 = i + j
    BY <1>0
  <2> HIDE DEF b
  <2> QED BY <1>0, <2>1, <2>2, SMTT(60)
<1> HIDE DEF a, b
<1>4. /\ r \in Seq(Nat) /\ Len(r) = Len(q) - 1
      /\ \A j \in 1..Len(q) - 1 : r[j] = IF j < i THEN q[j] ELSE q[j + 1]
  <2>1. r \in Seq(Nat) /\ Len(r) = Len(a) + Len(b)
    BY <1>1, <1>3, ConcatProperties
  <2>4. \A j \in 1..Len(a) + Len(b) : r[j] = IF j <= Len(a) THEN a[j] ELSE b[j - Len(a)]
    BY <1>1, <1>3, ConcatProperties
  <2> HIDE DEF r
  <2>2. ASSUME NEW j \in 1..Len(q) - 1 PROVE r[j] = IF j < i THEN q[j] ELSE q[j + 1]
    <3>0. j \in Nat /\ 1 <= j
      OBVIOUS
    <3>a. Len(a) \in Nat /\ Len(b) \in Nat /\ Len(a) = i - 1 /\ Len(b) = Len(q) - i
      BY <1>0, <1>1, <1>3
    <3>1. CASE j < i
      <4>0. j \in 1..Len(a) + Len(b) /\ j <= Len(a) /\ j \in 1..i - 1
        BY <1>0, <3>a, <3>1, IndexAround
      <4> QED BY <1>1, <2>4, <3>1, <4>0
    <3>2. CASE j >= i
      <4>1. /\ j \in 1..Len(a) + Len(b) /\ ~(j <= Len(a)) /\ j - Len(a) \in 1..Len(q) - i
            /\ i + (j - Len(a)) = j + 1
        BY <1>0, <3>a, <3>2, IndexAround, SMTT(60)
      <4>2. r[j] = b[j - Len(a)]
        BY <2>4, <4>1
      <4>3. b[j - Len(a)] = q[j + 1]
        BY <1>3, <4>1
      <4>4. ~(j < i)
        BY <1>0, <3>0, <3>2
      <4> QED BY ONLY <4>2, <4>3, <4>4
    <3> QED BY <1>0, <3>0, <3>1, <3>2
  <2> QED BY <1>0, <1>1, <1>3, <2>1, <2>2
<1> HIDE DEF r
<1>5. Rising(r)
  <2> SUFFICES ASSUME NEW j \in DOMAIN r, NEW k \in DOMAIN r, j < k PROVE r[j] < r[k]
    BY DEF Rising
  <2>1. j \in 1..Len(q) - 1 /\ k \in 1..Len(q) - 1
    BY <1>4, SMTT(60)
  <2>2. r[j] = (IF j < i THEN q[j] ELSE q[j + 1]) /\ r[k] = (IF k < i THEN q[k] ELSE q[k + 1])
    BY <1>4, <2>1
  <2> QED BY <1>0, <2>1, <2>2, SMTT(60) DEF Rising
<1>6. \A j \in DOMAIN r : \E k \in DOMAIN q : k # i /\ q[k] = r[j]
  <2> SUFFICES ASSUME NEW j \in DOMAIN r PROVE \E k \in DOMAIN q : k # i /\ q[k] = r[j]
    OBVIOUS
  <2>1. j \in 1..Len(q) - 1 /\ j \in Nat
    BY <1>4
  <2>2. CASE j < i
    <3>1. j \in 1..Len(q) /\ j # i
      BY <1>0, <2>1, <2>2
    <3>2. q[j] = r[j]
      BY <1>4, <2>1, <2>2
    <3> QED BY <3>1, <3>2
  <2>3. CASE j >= i
    <3>1. j + 1 \in 1..Len(q) /\ j + 1 # i /\ ~(j < i)
      BY <1>0, <2>1, <2>3
    <3>2. q[j + 1] = r[j]
      BY <1>4, <2>1, <3>1
    <3> QED BY <3>1, <3>2
  <2> QED BY <1>0, <2>1, <2>2, <2>3
<1>7. ASSUME NEW j \in DOMAIN q, j # i PROVE q[j] \in Members(r)
  <2>1. CASE j < i
    <3>1. j \in 1..Len(q) - 1
      BY <1>0, <2>1
    <3>2. j \in DOMAIN r
      BY <1>4, <3>1
    <3>3. r[j] = q[j]
      BY <1>4, <2>1, <3>1
    <3> QED BY <3>2, <3>3 DEF Members
  <2>2. CASE j > i
    <3>1. j - 1 \in 1..Len(q) - 1 /\ ~(j - 1 < i) /\ (j - 1) + 1 = j
      BY <1>0, <2>2
    <3>2. PICK k : k = j - 1
      OBVIOUS
    <3>3. k \in DOMAIN r
      BY <1>4, <3>1, <3>2
    <3>4. r[k] = q[k + 1] /\ k + 1 = j
      BY <1>4, <3>1, <3>2
    <3> QED BY <3>3, <3>4 DEF Members
  <2> QED BY <1>0, <1>7, <2>1, <2>2
<1> QED BY <1>4, <1>5, <1>6, <1>7, ZenonT(60) DEF r, a, b, Members

\* The last event that has left the pipe to the host.
Upto == Len(kinds) - Len(hostPipe)

PipeInOrder ==
  /\ kinds \in Seq(EventKinds) /\ hostPipe \in Seq(Nat) /\ Len(hostPipe) <= Len(kinds)
  /\ \A i \in 1..Len(hostPipe) : hostPipe[i] = Upto + i

SendingLast ==
  /\ DOMAIN sending = {"event", "to"} /\ sending.event \in Nat
  /\ sending.to # {} => sending.event = Upto /\ Upto # 0
  /\ sending.to \subseteq EventPeers \X Nat /\ \A s \in sending.to : s[2] <= dials[s[1]]

LinksTyped ==
  /\ dials \in [EventPeers -> Nat] /\ records \in [EventPeers -> Nat]
  /\ firstDue \in [EventPeers -> Nat]
  /\ hostLink \in [EventPeers -> {"down", "up", "closing"}]
  /\ \A p \in EventPeers : records[p] <= dials[p] /\ (hostLink[p] = "up" => dials[p] # 0)
  /\ subscribers \subseteq EventPeers \X Nat /\ \A s \in subscribers : s[2] <= dials[s[1]]

StreamsTyped ==
  /\ arriving \in [EventPeers -> Seq(Nat)] /\ tabQueue \in [EventPeers -> Seq(Nat)]
  /\ ingested \in [EventPeers -> Seq(Nat)] /\ takenOut \in [EventPeers -> Seq(Nat)]

\* What has come, is coming and is being sent rises in this order; the queue has some of
\* what has come, and of each name only what is newer than what was taken.
EventsInOrder(p) ==
  /\ Rising(arriving[p]) /\ Rising(ingested[p]) /\ Rising(tabQueue[p])
  /\ \A n \in Members(ingested[p]), m \in Members(arriving[p]) : n < m
  /\ \A n \in Members(arriving[p]) \cup Members(ingested[p]) :
       n # 0 /\ n <= Upto /\ (RecordOf(p) \in sending.to => n < Upto)
TakesEvents(p) ==
  /\ Members(tabQueue[p]) \cup Members(takenOut[p]) \subseteq Members(ingested[p])
  /\ \A n \in Members(takenOut[p]), m \in Members(tabQueue[p]) : kinds[n] = kinds[m] => n < m
  /\ \A i, j \in DOMAIN takenOut[p] :
       i < j /\ kinds[takenOut[p][i]] = kinds[takenOut[p][j]] => takenOut[p][i] < takenOut[p][j]

\* Whoever has subscribed has what has left the pipe since, or is about to be sent the last.
Covered(p) ==
  hostLink[p] = "up" /\ records[p] = dials[p] /\ RecordOf(p) \in subscribers =>
    \A n \in Nat : firstDue[p] <= n /\ n <= Upto =>
      \/ n \in Members(ingested[p]) \cup Members(arriving[p])
      \/ RecordOf(p) \in sending.to /\ n = Upto

EventInv ==
  /\ PipeInOrder /\ SendingLast /\ LinksTyped /\ StreamsTyped
  /\ \A p \in EventPeers : EventsInOrder(p) /\ TakesEvents(p) /\ Covered(p)

LEMMA EventInitInv == EventInit => EventInv
BY DEF EventInit, EventInv, PipeInOrder, SendingLast, LinksTyped, StreamsTyped, EventsInOrder, TakesEvents,
       Covered, Upto, NoBroadcast, Members, Rising, RecordOf

LEMMA PipeMembers ==
  ASSUME PipeInOrder
  PROVE  /\ Upto \in Nat
         /\ \A n \in Nat : Upto < n /\ n <= Len(kinds) => n \in Members(hostPipe)
<1>1. Upto \in Nat
  BY DEF PipeInOrder, Upto
<1>2. ASSUME NEW n \in Nat, Upto < n, n <= Len(kinds) PROVE n \in Members(hostPipe)
  <2>1. n - Upto \in 1..Len(hostPipe) /\ Upto + (n - Upto) = n
    BY <1>1, <1>2 DEF PipeInOrder, Upto
  <2> HIDE DEF Upto
  <2>2. n - Upto \in DOMAIN hostPipe /\ hostPipe[n - Upto] = n
    BY <2>1 DEF PipeInOrder
  <2> QED BY <2>2 DEF Members
<1> QED BY <1>1, <1>2

LEMMA InvImpliesDelivery == EventInv => EventsReachSubscribers
<1> SUFFICES ASSUME EventInv, NEW p \in EventPeers
             PROVE  /\ Live(RecordOf(p)) /\ records[p] = dials[p] /\ RecordOf(p) \in subscribers =>
                         firstDue[p]..Len(kinds) \subseteq Members(ingested[p]) \cup OnTheWay(p)
                    /\ Members(tabQueue[p]) \cap Members(takenOut[p]) = {}
  BY DEF EventInv, EventsReachSubscribers, EventsInOrder, TakesEvents
<1>1. PipeInOrder /\ SendingLast /\ LinksTyped /\ StreamsTyped /\ EventsInOrder(p) /\ TakesEvents(p) /\ Covered(p)
  BY DEF EventInv
<1>2. ASSUME hostLink[p] = "up", records[p] = dials[p], RecordOf(p) \in subscribers,
             NEW n \in firstDue[p]..Len(kinds)
      PROVE  n \in Members(ingested[p]) \cup OnTheWay(p)
  <2>1. n \in Nat /\ firstDue[p] <= n /\ n <= Len(kinds) /\ Upto \in Nat
    BY <1>1, PipeMembers DEF LinksTyped, PipeInOrder
  <2>2. CASE Upto < n
    BY <1>1, <2>1, <2>2, PipeMembers DEF OnTheWay
  <2>3. CASE n <= Upto
    BY <1>1, <1>2, <2>1, <2>3 DEF Covered, OnTheWay, SendingLast
  <2> QED BY <2>1, <2>2, <2>3
<1>3. Live(RecordOf(p)) => hostLink[p] = "up"
  BY DEF Live, RecordOf
<1>4. ASSUME NEW n \in Members(tabQueue[p]), n \in Members(takenOut[p]) PROVE FALSE
  <2>1. n < n
    BY <1>1, <1>4 DEF TakesEvents
  <2>2. n \in Nat
    BY <1>1, <1>4 DEF StreamsTyped, Members
  <2> QED BY <2>1, <2>2
<1> QED BY <1>2, <1>3, <1>4

\* What has come to p stays, and no event it has got is sent again.
LEMMA PeerKept ==
  ASSUME EventInv, NEW p \in EventPeers, PipeInOrder', Upto' >= Upto,
         RecordOf(p)' \in sending'.to => RecordOf(p) \in sending.to \/ Upto' > Upto,
         \A n \in 1..Len(kinds) : kinds'[n] = kinds[n],
         arriving'[p] \in {arriving[p], << >>}, tabQueue'[p] = tabQueue[p], ingested'[p] = ingested[p],
         takenOut'[p] = takenOut[p]
  PROVE  EventsInOrder(p)' /\ TakesEvents(p)'
<1>1. EventsInOrder(p) /\ TakesEvents(p) /\ StreamsTyped /\ PipeInOrder
  BY DEF EventInv
<1>2. Upto \in Nat /\ Upto' \in Nat /\ Upto <= Len(kinds)
  BY <1>1 DEF PipeInOrder, Upto
<1>3. \A n \in Members(arriving[p]) \cup Members(ingested[p]) : n \in 1..Upto
  <2>1. \A n \in Members(arriving[p]) \cup Members(ingested[p]) : n \in Nat
    BY <1>1 DEF StreamsTyped, Members
  <2> QED BY <1>1, <1>2, <2>1 DEF EventsInOrder
<1>4. Rising(arriving'[p]) /\ Members(arriving'[p]) \subseteq Members(arriving[p])
  BY <1>1 DEF EventsInOrder, Rising, Members
<1>5. EventsInOrder(p)'
  BY <1>1, <1>2, <1>3, <1>4 DEF EventsInOrder
<1>6. \A n \in Members(ingested[p]) : kinds'[n] = kinds[n]
  BY <1>2, <1>3
<1>7. \A i \in DOMAIN takenOut[p] : takenOut[p][i] \in Members(ingested[p])
  BY <1>1 DEF TakesEvents, Members
<1>8. TakesEvents(p)'
  BY <1>1, <1>6, <1>7 DEF TakesEvents
<1> QED BY <1>5, <1>8

LEMMA ForwardInv ==
  ASSUME EventInv, NEW k \in EventKinds, ForwardEvent(k)
  PROVE  EventInv'
<1>1. /\ kinds' = Append(kinds, k) /\ hostPipe' = Append(hostPipe, Len(kinds'))
      /\ UNCHANGED <<sending, dials, hostLink, records, subscribers, arriving, tabQueue, ingested,
                     takenOut, firstDue>>
  BY DEF ForwardEvent, links, atPeers
<1>2. PipeInOrder /\ SendingLast /\ LinksTyped /\ StreamsTyped
  BY DEF EventInv
<1>3. /\ kinds' \in Seq(EventKinds) /\ Len(kinds') = Len(kinds) + 1
      /\ \A n \in 1..Len(kinds) : kinds'[n] = kinds[n]
  BY <1>1, <1>2, AppendProperties DEF PipeInOrder
<1>4. /\ hostPipe' \in Seq(Nat) /\ Len(hostPipe') = Len(hostPipe) + 1
      /\ hostPipe'[Len(hostPipe) + 1] = Len(kinds')
      /\ \A i \in 1..Len(hostPipe) : hostPipe'[i] = hostPipe[i]
  BY <1>1, <1>2, <1>3, AppendProperties DEF PipeInOrder
<1>5. Upto' = Upto /\ Upto \in Nat /\ Upto + (Len(hostPipe) + 1) = Len(kinds')
  BY <1>2, <1>3, <1>4 DEF PipeInOrder, Upto
<1>6. PipeInOrder'
  <2>1. Len(hostPipe') <= Len(kinds')
    BY <1>2, <1>3, <1>4 DEF PipeInOrder
  <2>2. ASSUME NEW i \in 1..Len(hostPipe') PROVE hostPipe'[i] = Upto + i
    <3>1. CASE i \in 1..Len(hostPipe)
      BY <1>2, <1>4, <3>1 DEF PipeInOrder
    <3>2. CASE i = Len(hostPipe) + 1
      BY <1>4, <1>5, <3>2
    <3>3. Len(hostPipe) \in Nat
      BY <1>2 DEF PipeInOrder
    <3> QED BY <1>4, <3>1, <3>2, <3>3
  <2> QED BY <1>3, <1>4, <1>5, <2>1, <2>2 DEF PipeInOrder
<1>7. SendingLast' /\ LinksTyped' /\ StreamsTyped'
  BY <1>1, <1>2, <1>5 DEF SendingLast, LinksTyped, StreamsTyped
<1>8. ASSUME NEW p \in EventPeers PROVE EventsInOrder(p)' /\ TakesEvents(p)' /\ Covered(p)'
  <2>1. RecordOf(p)' = RecordOf(p) /\ Upto' >= Upto
    BY <1>1, <1>5 DEF RecordOf
  <2>2. EventsInOrder(p)' /\ TakesEvents(p)'
    BY <1>1, <1>3, <1>6, <2>1, PeerKept
  <2>3. Covered(p)
    BY DEF EventInv
  <2> QED BY <1>1, <1>5, <2>1, <2>2, <2>3 DEF Covered
<1> QED BY <1>6, <1>7, <1>8 DEF EventInv

LEMMA BroadcastBeginsInv ==
  ASSUME EventInv, BroadcastBegins
  PROVE  EventInv'
<1>1. /\ sending = NoBroadcast /\ hostPipe # << >> /\ hostPipe' = Tail(hostPipe)
      /\ sending' = [event |-> Head(hostPipe),
                     to |-> {<<p, records[p]>> : p \in {q \in EventPeers : records[q] # 0}}]
      /\ UNCHANGED <<kinds, dials, hostLink, records, subscribers, arriving, tabQueue, ingested,
                     takenOut, firstDue>>
  BY DEF BroadcastBegins, links, atPeers
<1>2. PipeInOrder /\ SendingLast /\ LinksTyped /\ StreamsTyped
  BY DEF EventInv
<1>3. /\ hostPipe' \in Seq(Nat) /\ Len(hostPipe') = Len(hostPipe) - 1
      /\ Head(hostPipe) = hostPipe[1] /\ Len(hostPipe) \in Nat \ {0}
      /\ \A i \in 1..Len(hostPipe) - 1 : hostPipe'[i] = hostPipe[i + 1]
  BY <1>1, <1>2, TailMembers, EmptySeq, HeadTailProperties DEF PipeInOrder
<1>4. Upto \in Nat /\ Upto' = Upto + 1
  BY <1>1, <1>2, <1>3 DEF PipeInOrder, Upto
<1>5. Head(hostPipe) = Upto' /\ Len(hostPipe') <= Len(kinds)
  BY <1>2, <1>3, <1>4 DEF PipeInOrder
<1>6. PipeInOrder'
  <2>1. ASSUME NEW i \in 1..Len(hostPipe') PROVE hostPipe'[i] = Upto' + i
    <3>1. i + 1 \in 1..Len(hostPipe) /\ hostPipe'[i] = hostPipe[i + 1]
      BY <1>3
    <3>2. hostPipe[i + 1] = Upto + (i + 1)
      BY <1>2, <3>1 DEF PipeInOrder
    <3> QED BY <1>3, <1>4, <3>1, <3>2
  <2> QED BY <1>1, <1>2, <1>3, <1>5, <2>1 DEF PipeInOrder
<1>7. SendingLast' /\ LinksTyped' /\ StreamsTyped'
  <2>1. LinksTyped' /\ StreamsTyped'
    BY <1>1, <1>2 DEF LinksTyped, StreamsTyped
  <2>2. sending'.event = Upto' /\ Upto' \in Nat \ {0} /\ DOMAIN sending' = {"event", "to"}
    BY <1>1, <1>4, <1>5
  <2>3. ASSUME NEW s \in sending'.to PROVE s \in EventPeers \X Nat /\ s[2] <= dials'[s[1]]
    <3>1. PICK q \in EventPeers : s = <<q, records[q]>>
      BY <1>1, <2>3
    <3>2. records[q] \in Nat /\ records[q] <= dials[q] /\ dials' = dials
      BY <1>1, <1>2 DEF LinksTyped
    <3> QED BY <3>1, <3>2
  <2> QED BY <2>1, <2>2, <2>3 DEF SendingLast
<1>8. ASSUME NEW p \in EventPeers PROVE EventsInOrder(p)' /\ TakesEvents(p)' /\ Covered(p)'
  <2>1. RecordOf(p)' = RecordOf(p) /\ Upto' >= Upto /\ Upto' > Upto
    BY <1>1, <1>4 DEF RecordOf
  <2>2. EventsInOrder(p)' /\ TakesEvents(p)'
    BY <1>1, <1>6, <2>1, PeerKept
  <2>3. Covered(p) /\ RecordOf(p) \notin sending.to
    BY <1>1 DEF EventInv, NoBroadcast
  <2>4. hostLink[p] = "up" /\ records[p] = dials[p] => RecordOf(p) \in sending'.to
    BY <1>1, <1>2 DEF LinksTyped, RecordOf
  <2>5. \A n \in Nat : n <= Upto' => n <= Upto \/ n = Upto'
    BY <1>4
  <2> QED BY <1>1, <2>1, <2>2, <2>3, <2>4, <2>5 DEF Covered
<1> QED BY <1>6, <1>7, <1>8 DEF EventInv

LEMMA BroadcastToInv ==
  ASSUME EventInv, NEW r \in sending.to, BroadcastTo(r)
  PROVE  EventInv'
<1> DEFINE here == r \in subscribers /\ Live(r)
<1>1. /\ sending' = IF sending.to \ {r} = {} THEN NoBroadcast
                    ELSE [sending EXCEPT !.to = sending.to \ {r}]
      /\ arriving' = IF here THEN [arriving EXCEPT ![r[1]] = Append(@, sending.event)] ELSE arriving
      /\ UNCHANGED <<kinds, hostPipe, dials, hostLink, records, subscribers, tabQueue, ingested,
                     takenOut, firstDue>>
  BY DEF BroadcastTo, GoesOn, toHost, links
<1>2. PipeInOrder /\ SendingLast /\ LinksTyped /\ StreamsTyped
  BY DEF EventInv
<1>3. Upto' = Upto /\ Upto \in Nat /\ PipeInOrder' /\ LinksTyped'
  BY <1>1, <1>2, PipeMembers DEF PipeInOrder, LinksTyped, Upto
<1>4. /\ sending'.to = sending.to \ {r} /\ DOMAIN sending' = {"event", "to"}
      /\ sending'.to # {} => sending'.event = sending.event
      /\ sending'.event \in Nat
  BY <1>1, <1>2 DEF SendingLast, NoBroadcast
<1>5. SendingLast'
  BY <1>1, <1>2, <1>3, <1>4 DEF SendingLast
<1>6. sending.event = Upto /\ Upto # 0 /\ r \in EventPeers \X Nat /\ r[1] \in EventPeers
  BY <1>2 DEF SendingLast
<1>7. /\ StreamsTyped'
      /\ \A p \in EventPeers :
           IF here /\ p = r[1] THEN arriving'[p] = Append(arriving[p], Upto) ELSE arriving'[p] = arriving[p]
  <2>1. Append(arriving[r[1]], Upto) \in Seq(Nat)
    BY <1>2, <1>3, <1>6, AppendMembers DEF StreamsTyped
  <2> QED BY <1>1, <1>2, <1>6, <2>1 DEF StreamsTyped
<1>8. here => r = RecordOf(r[1])
  BY DEF Live
<1> HIDE DEF here
<1>9. ASSUME NEW p \in EventPeers PROVE EventsInOrder(p)' /\ TakesEvents(p)' /\ Covered(p)'
  <2>1. RecordOf(p)' = RecordOf(p) /\ EventsInOrder(p) /\ TakesEvents(p) /\ Covered(p)
    BY <1>1 DEF RecordOf, EventInv
  <2>2. CASE ~(here /\ p = r[1])
    <3>1. arriving'[p] = arriving[p]
      BY <1>7, <2>2
    <3>2. Upto' >= Upto
      BY <1>3
    <3>3. EventsInOrder(p)' /\ TakesEvents(p)'
      BY <1>1, <1>3, <1>4, <2>1, <3>1, <3>2, PeerKept
    <3>4. r = RecordOf(p) => ~(hostLink[p] = "up" /\ RecordOf(p) \in subscribers)
      BY <1>6, <2>2 DEF here, Live, RecordOf
    <3> QED BY <1>1, <1>3, <1>4, <2>1, <3>1, <3>3, <3>4 DEF Covered
  <2>3. CASE here /\ p = r[1]
    <3>1. arriving'[p] = Append(arriving[p], Upto) /\ r = RecordOf(p)
      BY <1>7, <1>8, <2>3
    <3>2. /\ arriving[p] \in Seq(Nat) /\ \A n \in Members(arriving[p]) \cup Members(ingested[p]) : n < Upto
      BY <1>2, <2>1, <3>1 DEF StreamsTyped, EventsInOrder
    <3>3. Rising(arriving'[p]) /\ Members(arriving'[p]) = Members(arriving[p]) \cup {Upto}
      BY <1>3, <2>1, <3>1, <3>2, AppendMembers DEF EventsInOrder
    <3>4. RecordOf(p) \notin sending'.to
      BY <1>4, <3>1
    <3>5. EventsInOrder(p)'
      BY <1>1, <1>3, <1>6, <2>1, <3>2, <3>3, <3>4 DEF EventsInOrder
    <3>6. TakesEvents(p)'
      BY <1>1, <2>1 DEF TakesEvents
    <3>7. Covered(p)'
      BY <1>1, <1>3, <2>1, <3>3, <3>4 DEF Covered
    <3> QED BY <3>5, <3>6, <3>7
  <2> QED BY <2>2, <2>3
<1> QED BY <1>3, <1>5, <1>7, <1>9 DEF EventInv

\* Nothing moves from the worker to the processes.
LEMMA LinksInv ==
  ASSUME EventInv, UNCHANGED <<kinds, hostPipe, tabQueue, ingested, takenOut>>, LinksTyped',
         sending' \in {sending, NoBroadcast}, sending'.to \subseteq sending.to,
         \A p \in EventPeers : dials'[p] >= dials[p],
         arriving' \in [EventPeers -> Seq(Nat)],
         \A p \in EventPeers : arriving'[p] = arriving[p] \/ arriving'[p] = << >>,
         \A p \in EventPeers :
           hostLink'[p] = "up" /\ records'[p] = dials'[p] /\ RecordOf(p)' \in subscribers' =>
             /\ hostLink[p] = "up" /\ records[p] = dials[p] /\ dials'[p] = dials[p]
             /\ arriving'[p] = arriving[p] /\ sending'.to = sending.to
             /\ \/ RecordOf(p) \in subscribers /\ firstDue'[p] = firstDue[p]
                \/ firstDue'[p] = NextFor(RecordOf(p))
  PROVE  EventInv'
<1>1. PipeInOrder /\ SendingLast /\ LinksTyped /\ StreamsTyped
  BY DEF EventInv
<1>2. PipeInOrder' /\ Upto' = Upto /\ Upto \in Nat /\ Upto' >= Upto
  <2>1. PipeInOrder' /\ Upto' = Upto
    BY <1>1 DEF PipeInOrder, Upto
  <2>2. Upto \in Nat
    BY <1>1, PipeMembers
  <2> QED BY <2>1, <2>2
<1>3. SendingLast' /\ StreamsTyped'
  BY <1>1, <1>2 DEF SendingLast, StreamsTyped, NoBroadcast, LinksTyped
<1>4. ASSUME NEW p \in EventPeers PROVE EventsInOrder(p)' /\ TakesEvents(p)' /\ Covered(p)'
  <2>1. RecordOf(p)' \in sending'.to => RecordOf(p) \in sending.to
    <3>1. RecordOf(p)' \in sending'.to => dials'[p] <= dials[p]
      BY <1>1 DEF SendingLast, RecordOf
    <3>2. dials'[p] <= dials[p] => dials'[p] = dials[p]
      BY <1>1 DEF LinksTyped
    <3> QED BY <3>1, <3>2 DEF RecordOf
  <2>2. EventsInOrder(p)' /\ TakesEvents(p)'
    BY <1>2, <2>1, PeerKept
  <2>3. Covered(p)'
    <3> SUFFICES ASSUME hostLink'[p] = "up", records'[p] = dials'[p], RecordOf(p)' \in subscribers',
                        NEW n \in Nat, firstDue'[p] <= n, n <= Upto
                 PROVE  \/ n \in Members(ingested[p]) \cup Members(arriving[p])
                        \/ RecordOf(p) \in sending.to /\ n = Upto
      BY <1>2 DEF Covered, RecordOf
    <3>1. CASE RecordOf(p) \in subscribers /\ firstDue'[p] = firstDue[p]
      BY <3>1 DEF EventInv, Covered
    <3>2. CASE firstDue'[p] = NextFor(RecordOf(p))
      <4>1. CASE RecordOf(p) \in sending.to
        <5>1. firstDue'[p] = Upto
          BY <1>1, <3>2, <4>1 DEF NextFor, SendingLast
        <5> QED BY <1>2, <4>1, <5>1
      <4>2. CASE RecordOf(p) \notin sending.to
        <5>1. Upto < NextFor(RecordOf(p))
          <6>1. CASE hostPipe = << >>
            BY <1>1, <4>2, <6>1 DEF NextFor, PipeInOrder, Upto
          <6>2. CASE hostPipe # << >>
            <7>1. Head(hostPipe) = hostPipe[1] /\ 1 \in 1..Len(hostPipe)
              BY <1>1, <6>2, HeadTailProperties, EmptySeq DEF PipeInOrder
            <7>2. Head(hostPipe) = Upto + 1
              BY <1>1, <7>1 DEF PipeInOrder
            <7> QED BY <1>2, <4>2, <6>2, <7>2 DEF NextFor
          <6> QED BY <6>1, <6>2
        <5>2. firstDue'[p] \in Nat /\ Upto < firstDue'[p]
          BY <3>2, <5>1 DEF LinksTyped
        <5> QED BY <1>2, <5>2
      <4> QED BY <4>1, <4>2
    <3> QED BY <3>1, <3>2
  <2> QED BY <2>2, <2>3
<1> QED BY <1>2, <1>3, <1>4 DEF EventInv

LEMMA LinkStepsInv ==
  ASSUME EventInv,
         \/ BroadcastToNobody \/ \E r \in ending : HostSeesEnd(r)
         \/ \E p \in EventPeers :
              SubscribeIfTab(p) \/ DialHost(p) \/ EndOfStream(p) \/ GiveUpLink(p)
  PROVE  EventInv'
<1>1. PipeInOrder /\ SendingLast /\ LinksTyped /\ StreamsTyped
  BY DEF EventInv
<1>2. CASE BroadcastToNobody
  <2>1. /\ sending.to = {} /\ sending' = NoBroadcast
        /\ UNCHANGED <<kinds, hostPipe, dials, hostLink, records, subscribers, arriving, tabQueue,
                       ingested, takenOut, firstDue>>
    BY <1>2 DEF BroadcastToNobody, toHost, links, atPeers
  <2>2. LinksTyped' /\ sending'.to = sending.to
    BY <1>1, <2>1 DEF LinksTyped, NoBroadcast
  <2> QED BY <1>1, <2>1, <2>2, LinksInv, SMTT(60) DEF RecordOf, StreamsTyped, LinksTyped
<1>3. ASSUME NEW r \in ending, HostSeesEnd(r) PROVE EventInv'
  <2>1. /\ records' = [records EXCEPT ![r[1]] = 0]
        /\ UNCHANGED <<kinds, hostPipe, sending, dials, hostLink, subscribers, arriving, tabQueue,
                       ingested, takenOut, firstDue>>
    BY <1>3 DEF HostSeesEnd, toHost, atPeers
  <2>2. \A p \in EventPeers : records'[p] \in {records[p], 0}
    BY <1>1, <2>1 DEF LinksTyped
  <2>3. records' \in [EventPeers -> Nat]
    BY <1>1, <2>1 DEF LinksTyped
  <2>4. LinksTyped'
    BY <1>1, <2>1, <2>2, <2>3 DEF LinksTyped
  <2> QED BY <1>1, <2>1, <2>2, <2>4, LinksInv, SMTT(60) DEF RecordOf, StreamsTyped, LinksTyped
<1>4. ASSUME NEW p \in EventPeers, SubscribeIfTab(p) PROVE EventInv'
  <2>1. /\ subscribers' = subscribers \cup {RecordOf(p)}
        /\ firstDue' = IF RecordOf(p) \in subscribers THEN firstDue
                    ELSE [firstDue EXCEPT ![p] = NextFor(RecordOf(p))]
        /\ UNCHANGED <<kinds, hostPipe, sending, dials, hostLink, records, arriving, tabQueue,
                       ingested, takenOut>>
    BY <1>4 DEF SubscribeIfTab, toHost, atPeers
  <2>2. NextFor(RecordOf(p)) \in Nat
    <3>1. hostPipe # << >> => Head(hostPipe) \in Nat
      BY <1>1, TailMembers DEF PipeInOrder
    <3> QED BY <1>1, <3>1 DEF NextFor, SendingLast, PipeInOrder
  <2>3. LinksTyped'
    BY <1>1, <2>1, <2>2 DEF LinksTyped, RecordOf
  <2>4. ASSUME NEW q \in EventPeers, RecordOf(q)' \in subscribers'
        PROVE  \/ RecordOf(q) \in subscribers /\ firstDue'[q] = firstDue[q]
               \/ firstDue'[q] = NextFor(RecordOf(q))
    <3>1. CASE q = p
      BY <1>1, <2>1, <3>1 DEF LinksTyped
    <3>2. CASE q # p
      BY <1>1, <2>1, <2>4, <3>2 DEF LinksTyped, RecordOf
    <3> QED BY <3>1, <3>2
  <2>5. \A q \in EventPeers : dials'[q] >= dials[q] /\ RecordOf(q)' = RecordOf(q)
    BY <1>1, <2>1 DEF LinksTyped, RecordOf
  <2>6. sending' \in {sending, NoBroadcast} /\ sending'.to = sending.to
        /\ arriving' \in [EventPeers -> Seq(Nat)] /\ arriving' = arriving
    BY <1>1, <2>1 DEF StreamsTyped
  <2>7. \A q \in EventPeers :
          hostLink'[q] = "up" /\ records'[q] = dials'[q] /\ RecordOf(q)' \in subscribers' =>
            /\ hostLink[q] = "up" /\ records[q] = dials[q] /\ dials'[q] = dials[q]
            /\ arriving'[q] = arriving[q] /\ sending'.to = sending.to
            /\ \/ RecordOf(q) \in subscribers /\ firstDue'[q] = firstDue[q]
               \/ firstDue'[q] = NextFor(RecordOf(q))
    BY <2>1, <2>4, <2>6
  <2> QED BY <2>1, <2>3, <2>5, <2>6, <2>7, LinksInv
<1>5. ASSUME NEW p \in EventPeers, DialHost(p) PROVE EventInv'
  <2>1. /\ hostLink[p] = "down" /\ dials' = [dials EXCEPT ![p] = @ + 1]
        /\ hostLink' = [hostLink EXCEPT ![p] = "up"]
        /\ records' = [records EXCEPT ![p] = dials'[p]]
        /\ UNCHANGED <<kinds, hostPipe, sending, subscribers, arriving, tabQueue, ingested, takenOut,
                       firstDue>>
    BY <1>5 DEF DialHost, toHost, atPeers
  <2>2. LinksTyped'
    BY <1>1, <2>1 DEF LinksTyped
  <2>3. RecordOf(p)' \notin subscribers
    BY <1>1, <2>1 DEF LinksTyped, RecordOf
  <2>4. \A q \in EventPeers : q # p => RecordOf(q)' = RecordOf(q) /\ dials'[q] = dials[q]
                                       /\ records'[q] = records[q] /\ hostLink'[q] = hostLink[q]
    BY <1>1, <2>1 DEF LinksTyped, RecordOf
  <2>5. \A q \in EventPeers : dials'[q] >= dials[q]
    BY <1>1, <2>1 DEF LinksTyped
  <2> QED BY <1>1, <2>1, <2>2, <2>3, <2>4, <2>5, LinksInv DEF StreamsTyped
<1>6. ASSUME NEW p \in EventPeers, EndOfStream(p) \/ GiveUpLink(p) PROVE EventInv'
  <2>1. /\ hostLink' = [hostLink EXCEPT ![p] = "down"]
        /\ arriving' \in {arriving, [arriving EXCEPT ![p] = << >>]}
        /\ UNCHANGED <<kinds, hostPipe, sending, dials, records, subscribers, tabQueue, ingested,
                       takenOut, firstDue>>
    BY <1>6 DEF EndOfStream, GiveUpLink, toHost, atPeers
  <2>2. LinksTyped'
    BY <1>1, <2>1 DEF LinksTyped
  <2>3. /\ arriving' \in [EventPeers -> Seq(Nat)]
        /\ \A q \in EventPeers : arriving'[q] = arriving[q] \/ (q = p /\ arriving'[q] = << >>)
    <3>1. arriving \in [EventPeers -> Seq(Nat)]
      BY <1>1 DEF StreamsTyped
    <3>2. CASE arriving' = arriving
      BY <3>1, <3>2
    <3>3. CASE arriving' = [arriving EXCEPT ![p] = << >>]
      BY <3>1, <3>3, EmptySeq
    <3> QED BY <2>1, <3>2, <3>3
  <2>4. \A q \in EventPeers : hostLink'[q] = "up" => hostLink[q] = "up" /\ q # p
    BY <1>1, <2>1 DEF LinksTyped
  <2> QED BY <1>1, <2>1, <2>2, <2>3, <2>4, LinksInv DEF RecordOf, LinksTyped
<1> QED BY <1>2, <1>3, <1>4, <1>5, <1>6

LEMMA HostEndsInv ==
  ASSUME EventInv, HostEnds
  PROVE  EventInv'
<1>1. /\ hostPipe' = << >> /\ sending' = NoBroadcast /\ subscribers' = {}
      /\ records' = [p \in EventPeers |-> 0]
      /\ hostLink' = [p \in EventPeers |-> IF hostLink[p] = "up" THEN "closing" ELSE hostLink[p]]
      /\ UNCHANGED <<kinds, dials, arriving, tabQueue, ingested, takenOut, firstDue>>
  BY DEF HostEnds, atPeers
<1>2. PipeInOrder /\ SendingLast /\ LinksTyped /\ StreamsTyped
  BY DEF EventInv
<1>3. PipeInOrder' /\ Upto' >= Upto
  BY <1>1, <1>2, EmptySeq DEF PipeInOrder, Upto
<1>4. SendingLast' /\ LinksTyped' /\ StreamsTyped'
  BY <1>1, <1>2 DEF SendingLast, LinksTyped, StreamsTyped, NoBroadcast
<1>5. ASSUME NEW p \in EventPeers PROVE EventsInOrder(p)' /\ TakesEvents(p)' /\ Covered(p)'
  <2>1. RecordOf(p)' \notin sending'.to /\ RecordOf(p)' \notin subscribers'
    BY <1>1 DEF NoBroadcast
  <2> QED BY <1>1, <1>3, <2>1, PeerKept DEF Covered
<1> QED BY <1>3, <1>4, <1>5 DEF EventInv

\* Of the processes one takes something, and the others are left alone.
LEMMA EventsAloneInv ==
  ASSUME EventInv, NEW p \in EventPeers, UNCHANGED <<toHost, sending, links, firstDue>>, StreamsTyped',
         EventsInOrder(p)' /\ TakesEvents(p)' /\ Covered(p)',
         \A q \in EventPeers \ {p} : /\ arriving'[q] = arriving[q] /\ tabQueue'[q] = tabQueue[q]
                                     /\ ingested'[q] = ingested[q] /\ takenOut'[q] = takenOut[q]
  PROVE  EventInv'
<1>1. UNCHANGED <<kinds, hostPipe, sending, dials, hostLink, records, subscribers, firstDue>>
  BY DEF toHost, links
<1>2. PipeInOrder' /\ SendingLast' /\ LinksTyped' /\ Upto' = Upto /\ Upto \in Nat
  BY <1>1, PipeMembers DEF EventInv, PipeInOrder, SendingLast, LinksTyped, Upto
<1>3. ASSUME NEW q \in EventPeers \ {p} PROVE EventsInOrder(q)' /\ TakesEvents(q)' /\ Covered(q)'
  <2>1. RecordOf(q)' = RecordOf(q) /\ Upto' >= Upto /\ Covered(q)
    BY <1>1, <1>2 DEF RecordOf, EventInv
  <2> QED BY <1>1, <1>2, <2>1, PeerKept DEF Covered
<1> QED BY <1>2, <1>3 DEF EventInv

LEMMA TakeInInv ==
  ASSUME EventInv, NEW p \in EventPeers, TakeIn(p)
  PROVE  EventInv'
<1> DEFINE e == Head(arriving[p])
<1>1. /\ arriving[p] # << >> /\ arriving' = [arriving EXCEPT ![p] = Tail(@)]
      /\ tabQueue' = [tabQueue EXCEPT ![p] = NewestEvents(Append(@, e))]
      /\ ingested' = [ingested EXCEPT ![p] = Append(@, e)]
      /\ UNCHANGED <<toHost, sending, links, takenOut, firstDue>>
  BY DEF TakeIn
<1>2. PipeInOrder /\ SendingLast /\ LinksTyped /\ StreamsTyped /\ EventsInOrder(p) /\ TakesEvents(p) /\ Covered(p)
  BY DEF EventInv
<1>3. /\ e \in Nat /\ Tail(arriving[p]) \in Seq(Nat)
      /\ Members(arriving[p]) = Members(Tail(arriving[p])) \cup {e}
      /\ Rising(Tail(arriving[p])) /\ \A m \in Members(Tail(arriving[p])) : e < m
  BY <1>1, <1>2, TailMembers DEF StreamsTyped, EventsInOrder
<1> HIDE DEF e
<1>4. \A n \in Members(ingested[p]) : n < e
  BY <1>2, <1>3 DEF EventsInOrder
<1>5. /\ Append(ingested[p], e) \in Seq(Nat) /\ Rising(Append(ingested[p], e))
      /\ Members(Append(ingested[p], e)) = Members(ingested[p]) \cup {e}
  BY <1>2, <1>3, <1>4, AppendMembers DEF StreamsTyped, EventsInOrder
<1>6. /\ Append(tabQueue[p], e) \in Seq(Nat) /\ Rising(Append(tabQueue[p], e))
      /\ Members(Append(tabQueue[p], e)) = Members(tabQueue[p]) \cup {e}
  BY <1>2, <1>3, <1>4, AppendMembers DEF StreamsTyped, EventsInOrder, TakesEvents
<1>7. /\ NewestEvents(Append(tabQueue[p], e)) \in Seq(Nat) /\ Rising(NewestEvents(Append(tabQueue[p], e)))
      /\ Members(NewestEvents(Append(tabQueue[p], e))) \subseteq Members(tabQueue[p]) \cup {e}
  BY <1>6, NewestMembers
<1>8. /\ arriving'[p] = Tail(arriving[p]) /\ ingested'[p] = Append(ingested[p], e)
      /\ tabQueue'[p] = NewestEvents(Append(tabQueue[p], e)) /\ takenOut'[p] = takenOut[p]
      /\ UNCHANGED <<kinds, hostPipe, sending, dials, hostLink, records, subscribers, firstDue>>
  BY <1>1, <1>2 DEF StreamsTyped, toHost, links
<1>9. StreamsTyped'
  BY <1>1, <1>2, <1>3, <1>5, <1>7 DEF StreamsTyped
<1>10. RecordOf(p)' = RecordOf(p) /\ Upto' = Upto
  BY <1>8 DEF RecordOf, Upto
<1>11. EventsInOrder(p)'
  BY <1>2, <1>3, <1>4, <1>5, <1>7, <1>8, <1>10 DEF EventsInOrder
<1>12. TakesEvents(p)'
  BY <1>2, <1>4, <1>5, <1>7, <1>8 DEF TakesEvents
<1>13. Covered(p)'
  BY <1>2, <1>3, <1>5, <1>8, <1>10 DEF Covered
<1>14. \A q \in EventPeers \ {p} : /\ arriving'[q] = arriving[q] /\ tabQueue'[q] = tabQueue[q]
                                   /\ ingested'[q] = ingested[q] /\ takenOut'[q] = takenOut[q]
  BY <1>1, <1>2 DEF StreamsTyped
<1> QED BY <1>1, <1>9, <1>11, <1>12, <1>13, <1>14, EventsAloneInv

LEMMA PopInv ==
  ASSUME EventInv, NEW p \in EventPeers, NEW k \in EventKinds, PopOfKind(p, k)
  PROVE  EventInv'
<1>1. PICK i \in OfKind(p, k) :
        /\ \A j \in OfKind(p, k) : i <= j
        /\ tabQueue' = [tabQueue EXCEPT
                          ![p] = SubSeq(@, 1, i - 1) \o SubSeq(@, i + 1, Len(@))]
        /\ takenOut' = [takenOut EXCEPT ![p] = Append(@, tabQueue[p][i])]
        /\ UNCHANGED <<toHost, sending, links, arriving, ingested, firstDue>>
  BY DEF PopOfKind
<1>2. PipeInOrder /\ SendingLast /\ LinksTyped /\ StreamsTyped /\ EventsInOrder(p) /\ TakesEvents(p) /\ Covered(p)
  BY DEF EventInv
<1> DEFINE q == tabQueue[p]
           t == takenOut[p]
           v == q[i]
           r == SubSeq(q, 1, i - 1) \o SubSeq(q, i + 1, Len(q))
<1>3. /\ q \in Seq(Nat) /\ t \in Seq(Nat) /\ i \in DOMAIN q /\ v \in Nat /\ v \in Members(q)
      /\ kinds[v] = k /\ Rising(q)
      /\ \A j \in DOMAIN q : kinds[q[j]] = k => i <= j
  BY <1>1, <1>2, SMTT(60) DEF OfKind, StreamsTyped, EventsInOrder, Members
<1>4. /\ tabQueue'[p] = r /\ takenOut'[p] = Append(t, v)
      /\ UNCHANGED <<kinds, hostPipe, sending, dials, hostLink, records, subscribers, firstDue, arriving,
                     ingested>>
  BY <1>1, <1>2 DEF StreamsTyped, toHost, links
<1>5. /\ r \in Seq(Nat) /\ Rising(r)
      /\ \A m \in Members(r) : \E j \in DOMAIN q : j # i /\ q[j] = m
  BY <1>3, CutMembers, SMTT(60)
<1>6. /\ Append(t, v) \in Seq(Nat) /\ Len(Append(t, v)) = Len(t) + 1
      /\ Append(t, v)[Len(t) + 1] = v /\ \A j \in 1..Len(t) : Append(t, v)[j] = t[j]
      /\ Members(Append(t, v)) = Members(t) \cup {v}
  BY <1>3, AppendMembers, AppendProperties
<1> HIDE DEF q, t, v, r
<1>7. StreamsTyped'
  BY <1>1, <1>2, <1>5, <1>6 DEF StreamsTyped, q, t, v, r
<1>8. /\ Members(q) \cup Members(t) \subseteq Members(ingested[p])
      /\ \A n \in Members(t), m \in Members(q) : kinds[n] = kinds[m] => n < m
      /\ \A a, b \in DOMAIN t : a < b /\ kinds[t[a]] = kinds[t[b]] => t[a] < t[b]
  BY <1>2 DEF TakesEvents, q, t
<1>9. Members(r) \subseteq Members(q) /\ \A m \in Members(r) : kinds[m] = k => v < m
  <2>1. ASSUME NEW j \in DOMAIN q, j # i, kinds[q[j]] = k PROVE v < q[j]
    <3>1. i <= j
      BY <1>3, <2>1
    <3>2. i \in Nat /\ j \in Nat
      BY <1>3
    <3>3. i < j
      BY <2>1, <3>1, <3>2
    <3> QED BY <1>3, <3>3 DEF Rising, v
  <2> QED BY <1>5, <2>1 DEF Members
<1>10. TakesEvents(p)'
  <2>1. Members(r) \cup Members(Append(t, v)) \subseteq Members(ingested[p])
    BY <1>3, <1>6, <1>8, <1>9
  <2>2. \A n \in Members(Append(t, v)), m \in Members(r) : kinds[n] = kinds[m] => n < m
    BY <1>3, <1>6, <1>8, <1>9
  <2>3. ASSUME NEW a \in DOMAIN Append(t, v), NEW b \in DOMAIN Append(t, v), a < b,
               kinds[Append(t, v)[a]] = kinds[Append(t, v)[b]]
        PROVE  Append(t, v)[a] < Append(t, v)[b]
    <3>1. a \in 1..Len(t) /\ Len(t) \in Nat /\ a \in DOMAIN t /\ Append(t, v)[a] = t[a]
      BY <1>3, <1>6, <2>3
    <3>2. CASE b = Len(t) + 1
      <4>1. t[a] \in Members(t) /\ kinds[t[a]] = kinds[v]
        BY <1>6, <2>3, <3>1, <3>2 DEF Members
      <4>2. t[a] < v
        BY <1>3, <1>8, <4>1
      <4> QED BY <1>6, <3>1, <3>2, <4>2
    <3>3. CASE b # Len(t) + 1
      <4>1. b \in 1..Len(t) /\ b \in DOMAIN t /\ Append(t, v)[b] = t[b]
        BY <1>3, <1>6, <3>1, <3>3
      <4> QED BY <1>8, <2>3, <3>1, <4>1
    <3> QED BY <3>2, <3>3
  <2> QED BY <1>4, <2>1, <2>2, <2>3 DEF TakesEvents
<1>11. RecordOf(p)' = RecordOf(p) /\ Upto' = Upto
  BY <1>4 DEF RecordOf, Upto
<1>12. EventsInOrder(p)' /\ Covered(p)'
  BY <1>2, <1>4, <1>5, <1>11 DEF EventsInOrder, Covered
<1>13. \A o \in EventPeers \ {p} : /\ arriving'[o] = arriving[o] /\ tabQueue'[o] = tabQueue[o]
                                   /\ ingested'[o] = ingested[o] /\ takenOut'[o] = takenOut[o]
  BY <1>1, <1>2 DEF StreamsTyped
<1> QED BY <1>1, <1>7, <1>10, <1>12, <1>13, EventsAloneInv

LEMMA EventNextInv ==
  ASSUME EventInv, [EventNext]_bridgeEventVars
  PROVE  EventInv'
<1>1. CASE UNCHANGED bridgeEventVars
  BY <1>1, ZenonT(60)
  DEF bridgeEventVars, toHost, links, atPeers, EventInv, PipeInOrder, SendingLast, LinksTyped,
      StreamsTyped, EventsInOrder, TakesEvents, Covered, Upto, RecordOf
<1>2. CASE EventNext
  BY <1>2, ForwardInv, BroadcastBeginsInv, BroadcastToInv, LinkStepsInv, HostEndsInv, TakeInInv,
     PopInv
  DEF EventNext
<1> QED BY <1>1, <1>2

\* A process that has named the tab over the connection whose record the host has gets every
\* event of the tab from then on, once and in order, and its tools the oldest of a name first
\* and none twice, for any number of processes, events and hosts
\* (native_broker.py _broadcast_cdp_event; extension_gateway_native_peer.py _on_message,
\* pop_event).
THEOREM EventsDelivered == EventSpec => []EventsReachSubscribers
BY EventInitInv, EventNextInv, InvImpliesDelivery, PTL DEF EventSpec

-----------------------------------------------------------------------------
(* The least of some numbers.                                              *)

\* Of a set of numbers there is a least.
LEMMA LeastOf ==
  ASSUME NEW T \in SUBSET Nat, T # {}
  PROVE  \E x \in T : \A y \in T : x <= y
<1>1. PICK x \in T : \A y \in T : ~(<<y, x>> \in OpToRel(<, Nat))
  BY NatLessThanWellFounded, WFMin
<1>2. \A y \in T : y < x => <<y, x>> \in OpToRel(<, Nat)
  BY DEF OpToRel
<1>3. \A y \in T : ~(y < x)
  BY <1>1, <1>2
<1>4. x \in Nat /\ \A y \in T : y \in Nat
  OBVIOUS
<1> QED BY <1>3, <1>4

-----------------------------------------------------------------------------
(* The channel of a tab.                                                   *)

ChannelMessage == [event : Nat, name : EventNames \cup Nat]

ChannelTyped ==
  /\ sent \in Nat /\ unanswered \subseteq Nat /\ emitted \in Nat
  /\ socket \in Seq(ChannelMessage) /\ eventQueue \in Seq(ChannelMessage) /\ sunk \in Seq(Nat)

\* On the socket are the events that have not been read, in order.
SocketInOrder ==
  /\ Len(sunk) <= emitted
  /\ \A i, j \in DOMAIN socket :
       i < j /\ IsEvent(socket[i]) /\ IsEvent(socket[j]) => socket[i].event < socket[j].event
  /\ Numbers(socket) \ {0} = (Len(sunk) + 1)..emitted

\* Those that have been read are kept, in order, or handed out, or were older than the kept.
QueueInOrder ==
  /\ sunk = [i \in 1..Len(sunk) |-> i]
  /\ \A i, j \in DOMAIN eventQueue : i < j => eventQueue[i].event < eventQueue[j].event
  /\ Numbers(eventQueue) \cup taken \cup cut = 1..Len(sunk)
  /\ taken \cap cut = {} /\ Numbers(eventQueue) \cap (taken \cup cut) = {}
  /\ \A n \in cut, m \in Numbers(eventQueue) : n < m

ChannelInv == ChannelTyped /\ SocketInOrder /\ QueueInOrder /\ RepliesMatch

LEMMA ChannelInitInv == ChannelInit => ChannelInv
<1> SUFFICES ASSUME ChannelInit PROVE ChannelInv
  OBVIOUS
<1>1. Numbers(<< >>) = {}
  BY DEF Numbers
<1>2. << >> = [i \in 1..Len(<< >>) |-> i]
  OBVIOUS
<1>3. << >> \in Seq(ChannelMessage) /\ << >> \in Seq(Nat)
  OBVIOUS
<1> QED BY <1>1, <1>2, <1>3
        DEF ChannelInit, ChannelInv, ChannelTyped, SocketInOrder, QueueInOrder, RepliesMatch, Resting

LEMMA InvImpliesChannel == ChannelInv => ChannelDelivers
<1> SUFFICES ASSUME ChannelInv PROVE EventsOnce
  BY DEF ChannelInv, ChannelDelivers
<1>1. ChannelTyped /\ SocketInOrder /\ QueueInOrder
  BY DEF ChannelInv
<1>2. /\ Places[1] = Numbers(socket) /\ Places[2] = Numbers(eventQueue)
      /\ Places[3] = taken /\ Places[4] = cut
  BY DEF Places
<1>3. Len(sunk) \in Nat /\ emitted \in Nat
  BY <1>1 DEF ChannelTyped
<1>4. ASSUME NEW n \in 1..emitted
      PROVE  \E p \in 1..4 : n \in Places[p] /\ \A o \in 1..4 \ {p} : n \notin Places[o]
  <2>1. CASE n <= Len(sunk)
    <3>1. n \notin Numbers(socket) /\ n \in Numbers(eventQueue) \cup taken \cup cut
      BY <1>1, <1>3, <2>1 DEF SocketInOrder, QueueInOrder
    <3>2. CASE n \in Numbers(eventQueue)
      <4>1. n \in Places[2] /\ \A o \in 1..4 \ {2} : n \notin Places[o]
        BY <1>1, <1>2, <3>1, <3>2 DEF QueueInOrder
      <4> QED BY <4>1
    <3>3. CASE n \in taken
      <4>1. n \in Places[3] /\ \A o \in 1..4 \ {3} : n \notin Places[o]
        BY <1>1, <1>2, <3>1, <3>3 DEF QueueInOrder
      <4> QED BY <4>1
    <3>4. CASE n \in cut
      <4>1. n \in Places[4] /\ \A o \in 1..4 \ {4} : n \notin Places[o]
        BY <1>1, <1>2, <3>1, <3>4 DEF QueueInOrder
      <4> QED BY <4>1
    <3> QED BY <3>1, <3>2, <3>3, <3>4
  <2>2. CASE n > Len(sunk)
    <3>1. n \in Numbers(socket) /\ n \notin Numbers(eventQueue) \cup taken \cup cut
      BY <1>1, <1>3, <2>2 DEF SocketInOrder, QueueInOrder
    <3>2. n \in Places[1] /\ \A o \in 1..4 \ {1} : n \notin Places[o]
      BY <1>2, <3>1
    <3> QED BY <3>2
  <2> QED BY <1>3, <2>1, <2>2
<1>5. \A n \in cut : \A i \in DOMAIN eventQueue : n < eventQueue[i].event
  BY <1>1 DEF QueueInOrder, Numbers
<1> QED BY <1>1, <1>4, <1>5 DEF EventsOnce, QueueInOrder

\* The next message off the socket.
LEMMA TailFacts ==
  ASSUME NEW q \in Seq(ChannelMessage), q # << >>
  PROVE  /\ Tail(q) \in Seq(ChannelMessage) /\ Head(q) \in ChannelMessage /\ Head(q) = q[1] /\ 1 \in DOMAIN q
         /\ Len(q) \in Nat \ {0} /\ Len(Tail(q)) = Len(q) - 1
         /\ \A i \in DOMAIN Tail(q) : i + 1 \in DOMAIN q /\ Tail(q)[i] = q[i + 1]
         /\ \A i \in DOMAIN q : i # 1 => i - 1 \in DOMAIN Tail(q) /\ Tail(q)[i - 1] = q[i]
         /\ Numbers(q) = Numbers(Tail(q)) \cup {Head(q).event}
<1>1. /\ Tail(q) \in Seq(ChannelMessage) /\ Head(q) \in ChannelMessage /\ Len(Tail(q)) = Len(q) - 1
      /\ Head(q) = q[1] /\ Len(q) \in Nat \ {0} /\ \A i \in 1..Len(q) - 1 : Tail(q)[i] = q[i + 1]
  BY HeadTailProperties, EmptySeq, ElementOfSeq
<1>2. /\ \A i \in DOMAIN Tail(q) : i + 1 \in DOMAIN q /\ Tail(q)[i] = q[i + 1]
      /\ \A i \in DOMAIN q : i # 1 => i - 1 \in DOMAIN Tail(q) /\ Tail(q)[i - 1] = q[i]
      /\ 1 \in DOMAIN q
  BY <1>1
<1>3. ASSUME NEW i \in DOMAIN q PROVE q[i].event \in Numbers(Tail(q)) \cup {Head(q).event}
  <2>1. CASE i = 1
    BY <1>1, <2>1
  <2>2. CASE i # 1
    <3>1. i - 1 \in DOMAIN Tail(q) /\ Tail(q)[i - 1] = q[i]
      BY <1>2, <2>2
    <3> QED BY <3>1 DEF Numbers
  <2> QED BY <2>1, <2>2
<1>4. Numbers(Tail(q)) \cup {Head(q).event} \subseteq Numbers(q)
  BY <1>1, <1>2 DEF Numbers
<1>5. Numbers(q) \subseteq Numbers(Tail(q)) \cup {Head(q).event}
  BY <1>3 DEF Numbers
<1> QED BY <1>1, <1>2, <1>4, <1>5

LEMMA HeadIsNext ==
  ASSUME ChannelInv, socket # << >>, IsEvent(Head(socket))
  PROVE  Head(socket).event = Len(sunk) + 1 /\ Len(sunk) + 1 <= emitted
<1>1. ChannelTyped /\ SocketInOrder
  BY DEF ChannelInv
<1>2. /\ socket \in Seq(ChannelMessage) /\ Len(sunk) \in Nat /\ emitted \in Nat
      /\ Head(socket) \in ChannelMessage /\ Head(socket) = socket[1] /\ 1 \in DOMAIN socket
      /\ \A i \in DOMAIN socket : i \in Nat \ {0} /\ socket[i] \in ChannelMessage
  BY <1>1, TailFacts, ElementOfSeq DEF ChannelTyped
<1>3. Head(socket).event \in (Len(sunk) + 1)..emitted
  BY <1>1, <1>2 DEF SocketInOrder, Numbers, IsEvent
<1>4. Len(sunk) + 1 \in Numbers(socket)
  BY <1>1, <1>2, <1>3 DEF SocketInOrder
<1>5. PICK i \in DOMAIN socket : socket[i].event = Len(sunk) + 1
  BY <1>4 DEF Numbers
<1>6. i # 1 => socket[1].event < socket[i].event
  BY <1>1, <1>2, <1>5 DEF SocketInOrder, IsEvent
<1> QED BY <1>2, <1>3, <1>5, <1>6

LEMMA ReadsSocket ==
  ASSUME ChannelInv, socket # << >>, socket' = Tail(socket), emitted' = emitted,
         Len(sunk') = IF IsEvent(Head(socket)) THEN Len(sunk) + 1 ELSE Len(sunk)
  PROVE  SocketInOrder' /\ socket' \in Seq(ChannelMessage)
<1>1. ChannelTyped /\ SocketInOrder
  BY DEF ChannelInv
<1>2. /\ socket \in Seq(ChannelMessage) /\ Len(sunk) \in Nat /\ emitted \in Nat
      /\ \A i \in DOMAIN socket : i \in Nat \ {0} /\ socket[i] \in ChannelMessage
  BY <1>1, ElementOfSeq DEF ChannelTyped
<1>3. /\ socket' \in Seq(ChannelMessage) /\ Head(socket) = socket[1] /\ 1 \in DOMAIN socket
      /\ \A i \in DOMAIN socket' : i + 1 \in DOMAIN socket /\ socket'[i] = socket[i + 1]
      /\ Numbers(socket) = Numbers(socket') \cup {Head(socket).event}
  BY <1>2, TailFacts
<1>4. \A i \in DOMAIN socket' : i \in Nat \ {0}
  BY <1>3
<1>5. \A i, j \in DOMAIN socket' :
        i < j /\ IsEvent(socket'[i]) /\ IsEvent(socket'[j]) => socket'[i].event < socket'[j].event
  BY <1>1, <1>3, <1>4 DEF SocketInOrder
<1>6. CASE IsEvent(Head(socket))
  <2>1. Head(socket).event = Len(sunk) + 1 /\ Len(sunk) + 1 <= emitted
    BY <1>6, HeadIsNext
  <2>2. Len(sunk) + 1 \notin Numbers(socket')
    <3> SUFFICES ASSUME NEW i \in DOMAIN socket', socket'[i].event = Len(sunk) + 1 PROVE FALSE
      BY DEF Numbers
    <3>1. i + 1 \in DOMAIN socket /\ 1 < i + 1 /\ socket[i + 1].event = Len(sunk) + 1
      BY <1>3, <1>4
    <3>2. IsEvent(socket[1]) /\ IsEvent(socket[i + 1])
      BY <1>2, <1>3, <1>6, <3>1 DEF IsEvent
    <3>3. socket[1].event < socket[i + 1].event
      BY <1>1, <1>3, <3>1, <3>2 DEF SocketInOrder
    <3> QED BY <1>2, <1>3, <2>1, <3>1, <3>3
  <2>3. Numbers(socket') \ {0} = (Len(sunk) + 2)..emitted
    BY <1>1, <1>2, <1>3, <2>1, <2>2 DEF SocketInOrder
  <2> QED BY <1>2, <1>3, <1>5, <1>6, <2>1, <2>3 DEF SocketInOrder, Numbers
<1>7. CASE ~IsEvent(Head(socket))
  <2>1. Head(socket).event = 0
    BY <1>2, <1>3, <1>7 DEF IsEvent, ChannelMessage
  <2>2. Numbers(socket') \ {0} = Numbers(socket) \ {0}
    BY <1>3, <2>1
  <2> QED BY <1>1, <1>3, <1>5, <1>7, <2>2 DEF SocketInOrder, Numbers
<1> QED BY <1>6, <1>7

\* A message is added to the socket.
LEMMA AddsToSocket ==
  ASSUME ChannelInv, NEW m \in ChannelMessage, socket' = Append(socket, m), UNCHANGED sunk,
         \/ m.event = 0 /\ emitted' = emitted
         \/ m.event = emitted + 1 /\ emitted' = emitted + 1
  PROVE  /\ SocketInOrder' /\ socket' \in Seq(ChannelMessage) /\ Len(socket) + 1 \in DOMAIN socket'
         /\ socket'[Len(socket) + 1] = m
         /\ \A i \in DOMAIN socket : i \in DOMAIN socket' /\ socket'[i] = socket[i]
<1>1. ChannelTyped /\ SocketInOrder
  BY DEF ChannelInv
<1>2. /\ socket \in Seq(ChannelMessage) /\ Len(sunk) \in Nat /\ emitted \in Nat
      /\ \A i \in DOMAIN socket : i \in Nat \ {0} /\ socket[i] \in ChannelMessage
  BY <1>1, ElementOfSeq DEF ChannelTyped
<1>3. /\ socket' \in Seq(ChannelMessage) /\ Len(socket') = Len(socket) + 1
      /\ socket'[Len(socket) + 1] = m /\ \A i \in 1..Len(socket) : socket'[i] = socket[i]
  BY <1>2, AppendProperties
<1>4. Numbers(socket') = Numbers(socket) \cup {m.event}
  BY <1>2, <1>3 DEF Numbers
<1>5. m.event \in Nat /\ \A n \in Numbers(socket) : n \in Nat /\ n <= emitted
  <2>1. ASSUME NEW n \in Numbers(socket) PROVE n \in Nat /\ n <= emitted
    <3>1. n = 0 \/ n \in Numbers(socket) \ {0}
      BY <2>1
    <3>2. n = 0 \/ n \in (Len(sunk) + 1)..emitted
      BY <1>1, <3>1 DEF SocketInOrder
    <3> QED BY <1>2, <3>2
  <2> QED BY <2>1 DEF ChannelMessage
<1>6. ASSUME NEW i \in DOMAIN socket', NEW j \in DOMAIN socket', i < j,
             IsEvent(socket'[i]), IsEvent(socket'[j])
      PROVE  socket'[i].event < socket'[j].event
  <2>1. i \in 1..Len(socket) /\ Len(socket) \in Nat /\ socket'[i] = socket[i]
    BY <1>2, <1>3, <1>6
  <2>2. CASE j = Len(socket) + 1
    <3>1. socket[i].event \in Numbers(socket)
      BY <2>1 DEF Numbers
    <3>2. m.event > 0
      BY <1>3, <1>6, <2>2 DEF IsEvent
    <3> QED BY <1>2, <1>3, <1>5, <2>1, <2>2, <3>1, <3>2
  <2>3. CASE j # Len(socket) + 1
    <3>1. j \in 1..Len(socket) /\ socket'[j] = socket[j]
      BY <1>2, <1>3, <2>1, <2>3
    <3> QED BY <1>1, <1>6, <2>1, <3>1 DEF SocketInOrder
  <2> QED BY <2>2, <2>3
<1>7. Numbers(socket') \ {0} = (Len(sunk) + 1)..emitted'
  BY <1>1, <1>2, <1>4, <1>5 DEF SocketInOrder
<1>8. Len(sunk') <= emitted'
  BY <1>1, <1>2 DEF SocketInOrder
<1>9. SocketInOrder'
  BY <1>6, <1>7, <1>8 DEF SocketInOrder, Numbers
<1> QED BY <1>2, <1>3, <1>9

LEMMA SunkGrows ==
  ASSUME ChannelTyped, QueueInOrder, sunk' = Append(sunk, Len(sunk) + 1)
  PROVE  /\ sunk' \in Seq(Nat) /\ Len(sunk') = Len(sunk) + 1
         /\ sunk' = [i \in 1..Len(sunk') |-> i] /\ 1..Len(sunk') = 1..Len(sunk) \cup {Len(sunk) + 1}
<1>1. sunk \in Seq(Nat) /\ Len(sunk) \in Nat
  BY DEF ChannelTyped
<1>2. /\ sunk' \in Seq(Nat) /\ Len(sunk') = Len(sunk) + 1 /\ sunk'[Len(sunk) + 1] = Len(sunk) + 1
      /\ \A i \in 1..Len(sunk) : sunk'[i] = sunk[i]
  BY <1>1, AppendProperties
<1>3. \A i \in 1..Len(sunk) : sunk[i] = i
  BY DEF QueueInOrder
<1>4. \A i \in 1..Len(sunk') : sunk'[i] = i
  BY <1>1, <1>2, <1>3
<1>5. sunk' = [i \in 1..Len(sunk') |-> sunk'[i]]
  BY <1>2
<1> QED BY <1>1, <1>2, <1>4, <1>5

\* An event is put into the queue, and the oldest leave it.
LEMMA PushFacts ==
  ASSUME ChannelTyped, QueueInOrder, NEW m \in ChannelMessage, m.event = Len(sunk) + 1, PushEvent(m),
         UNCHANGED taken
  PROVE  /\ QueueInOrder' /\ eventQueue' \in Seq(ChannelMessage) /\ sunk' \in Seq(Nat)
         /\ Len(sunk') = Len(sunk) + 1 /\ Len(eventQueue') <= MaxEventQueue
<1> DEFINE q == Append(eventQueue, m)
           over == IF Len(q) > MaxEventQueue THEN Len(q) - MaxEventQueue ELSE 0
           n == over + 1
           r == SubSeq(q, n, Len(q))
           gone == {q[i].event : i \in 1..over}
<1>1. sunk' = Append(sunk, Len(sunk) + 1) /\ eventQueue' = r /\ cut' = cut \cup gone
  BY DEF PushEvent
<1>2. /\ sunk' \in Seq(Nat) /\ Len(sunk') = Len(sunk) + 1 /\ sunk' = [i \in 1..Len(sunk') |-> i]
      /\ 1..Len(sunk') = 1..Len(sunk) \cup {Len(sunk) + 1}
  BY <1>1, SunkGrows
<1>3. /\ eventQueue \in Seq(ChannelMessage) /\ Len(sunk) \in Nat /\ Len(eventQueue) \in Nat
      /\ \A i \in 1..Len(eventQueue) : eventQueue[i] \in ChannelMessage
      /\ \A k \in Numbers(eventQueue) \cup taken \cup cut : k \in Nat /\ k <= Len(sunk)
  BY ElementOfSeq DEF ChannelTyped, QueueInOrder
<1>4. /\ q \in Seq(ChannelMessage) /\ Len(q) = Len(eventQueue) + 1 /\ q[Len(eventQueue) + 1] = m
      /\ \A i \in 1..Len(eventQueue) : q[i] = eventQueue[i]
  BY <1>3, AppendProperties
<1> HIDE DEF q
<1>5. \A i, j \in 1..Len(q) : i < j => q[i].event < q[j].event
  <2> SUFFICES ASSUME NEW i \in 1..Len(q), NEW j \in 1..Len(q), i < j
               PROVE  q[i].event < q[j].event
    OBVIOUS
  <2>1. i \in 1..Len(eventQueue) /\ q[i] = eventQueue[i]
    BY <1>3, <1>4
  <2>2. CASE j = Len(eventQueue) + 1
    <3>1. eventQueue[i].event \in Numbers(eventQueue)
      BY <1>3, <2>1 DEF Numbers
    <3> QED BY <1>3, <1>4, <2>1, <2>2, <3>1
  <2>3. CASE j # Len(eventQueue) + 1
    <3>1. j \in 1..Len(eventQueue) /\ q[j] = eventQueue[j]
      BY <1>3, <1>4, <2>3
    <3> QED BY <1>3, <2>1, <3>1 DEF QueueInOrder
  <2> QED BY <2>2, <2>3
<1>6. Numbers(q) = Numbers(eventQueue) \cup {Len(sunk) + 1}
  <2>1. \A i \in DOMAIN q : q[i].event \in Numbers(eventQueue) \cup {Len(sunk) + 1}
    BY <1>3, <1>4 DEF Numbers
  <2>2. \A i \in DOMAIN eventQueue : i \in DOMAIN q /\ q[i] = eventQueue[i]
    BY <1>3, <1>4
  <2>3. Len(eventQueue) + 1 \in DOMAIN q
    BY <1>3, <1>4
  <2> QED BY <1>4, <2>1, <2>2, <2>3 DEF Numbers
<1>7. over \in Nat /\ over < Len(q) /\ Len(q) \in Nat
  BY <1>3, <1>4, ChannelAssumption
<1>23. Len(q) - over <= MaxEventQueue
  BY <1>3, <1>4, ChannelAssumption
<1> HIDE DEF over
<1>8. n \in 1..Len(q) + 1 /\ Len(q) \in n - 1..Len(q)
  BY <1>7
<1>9. /\ r \in Seq(ChannelMessage) /\ Len(r) = Len(q) - n + 1
      /\ \A i \in 1..Len(q) - n + 1 : r[i] = q[n + i - 1]
  BY <1>4, <1>8, SubSeqProperties
<1> HIDE DEF r
<1>10. /\ \A i \in DOMAIN r : over + i \in 1..Len(q) /\ over < over + i /\ r[i] = q[over + i]
       /\ \A i \in 1..Len(q) : i > over => i - over \in DOMAIN r /\ r[i - over] = q[i]
  BY <1>7, <1>9
<1>11. Numbers(r) \cup gone = Numbers(q)
  <2>1. \A i \in DOMAIN r : r[i].event \in Numbers(q)
    BY <1>4, <1>10 DEF Numbers
  <2>2. \A i \in 1..over : i \in DOMAIN q
    BY <1>4, <1>7
  <2>3. \A i \in DOMAIN q : q[i].event \in Numbers(r) \cup gone
    <3> SUFFICES ASSUME NEW i \in DOMAIN q PROVE q[i].event \in Numbers(r) \cup gone
      OBVIOUS
    <3>1. i \in 1..Len(q) /\ i \in Nat
      BY <1>4
    <3>2. CASE i <= over
      BY <3>1, <3>2
    <3>3. CASE i > over
      <4>1. i - over \in DOMAIN r /\ r[i - over] = q[i]
        BY <1>10, <3>1, <3>3
      <4> QED BY <4>1 DEF Numbers
    <3> QED BY <1>7, <3>1, <3>2, <3>3
  <2> QED BY <2>1, <2>2, <2>3 DEF Numbers
<1>12. \A a \in gone, b \in Numbers(r) : a < b
  <2> SUFFICES ASSUME NEW i \in 1..over, NEW j \in DOMAIN r PROVE q[i].event < r[j].event
    BY DEF Numbers
  <2>1. over + j \in 1..Len(q) /\ over < over + j /\ r[j] = q[over + j]
    BY <1>10
  <2>2. i \in 1..Len(q) /\ i < over + j
    BY <1>7, <2>1
  <2> QED BY <1>5, <2>1, <2>2
<1>13. \A i, j \in DOMAIN r : i < j => r[i].event < r[j].event
  <2> SUFFICES ASSUME NEW i \in DOMAIN r, NEW j \in DOMAIN r, i < j PROVE r[i].event < r[j].event
    OBVIOUS
  <2>1. over + i \in 1..Len(q) /\ over + j \in 1..Len(q) /\ r[i] = q[over + i] /\ r[j] = q[over + j]
    BY <1>10
  <2>2. over + i < over + j
    BY <1>7, <1>9
  <2> QED BY <1>5, <2>1, <2>2
<1>14. \A k \in Numbers(r) \cup gone : k \in Nat
  BY <1>3, <1>6, <1>11
<1> HIDE DEF gone
<1>15. Numbers(r) \cup taken \cup cut \cup gone = 1..Len(sunk')
  BY <1>2, <1>6, <1>11 DEF QueueInOrder
<1>16. \A k \in taken \cup cut : k \notin Numbers(r) \cup gone
  BY <1>3, <1>6, <1>11 DEF QueueInOrder
<1>17. \A k \in cut, b \in Numbers(r) : k < b
  BY <1>3, <1>6, <1>11 DEF QueueInOrder
<1>18. \A k \in Numbers(r) : k \notin gone
  BY <1>12, <1>14
<1>19. Numbers(eventQueue)' = Numbers(r)
  BY <1>1 DEF Numbers
<1>20. taken \cap (cut \cup gone) = {} /\ Numbers(r) \cap (taken \cup cut \cup gone) = {}
  BY <1>16, <1>18 DEF QueueInOrder
<1>21. QueueInOrder'
  BY <1>1, <1>2, <1>12, <1>13, <1>15, <1>17, <1>19, <1>20 DEF QueueInOrder
<1>22. Len(r) <= MaxEventQueue
  BY <1>7, <1>9, <1>23
<1> QED BY <1>1, <1>2, <1>9, <1>21, <1>22

LEMMA PopFacts ==
  ASSUME ChannelTyped, QueueInOrder, NEW name, PopEvent(name), UNCHANGED <<sunk, cut>>
  PROVE  QueueInOrder' /\ eventQueue' \in Seq(ChannelMessage) /\ Len(eventQueue') <= Len(eventQueue)
<1> DEFINE q == eventQueue
           i == CHOOSE k \in QueuedAs(name) : \A j \in QueuedAs(name) : k <= j
           a == SubSeq(q, 1, i - 1)
           n == i + 1
           b == SubSeq(q, n, Len(q))
           r == a \o b
<1>1. QueuedAs(name) # {} /\ taken' = taken \cup {q[i].event} /\ eventQueue' = r
  BY DEF PopEvent
<1>2. i \in 1..Len(q)
  <2>1. QueuedAs(name) \in SUBSET Nat
    BY DEF QueuedAs, ChannelTyped
  <2>2. i \in QueuedAs(name)
    BY <1>1, <2>1, LeastOf
  <2> QED BY <2>2 DEF QueuedAs, ChannelTyped
<1> HIDE DEF i
<1>3. q \in Seq(ChannelMessage) /\ Len(q) \in Nat
  BY DEF ChannelTyped
<1>4. /\ a \in Seq(ChannelMessage) /\ Len(a) = i - 1 /\ \A j \in 1..i - 1 : a[j] = q[j]
  BY <1>2, <1>3, SubSeqProperties
<1>5. n \in 1..Len(q) + 1 /\ Len(q) \in n - 1..Len(q)
  BY <1>2, <1>3
<1>6. /\ b \in Seq(ChannelMessage) /\ Len(b) = Len(q) - i /\ \A j \in 1..Len(q) - i : b[j] = q[i + j]
  BY <1>2, <1>3, <1>5, SubSeqProperties
<1> HIDE DEF a, b
<1>7. /\ r \in Seq(ChannelMessage) /\ Len(r) = Len(q) - 1
      /\ \A j \in 1..Len(q) - 1 : r[j] = IF j < i THEN q[j] ELSE q[j + 1]
  <2>1. r \in Seq(ChannelMessage) /\ Len(r) = Len(a) + Len(b)
    BY <1>4, <1>6, ConcatProperties
  <2>2. \A j \in 1..Len(a) + Len(b) : r[j] = IF j <= Len(a) THEN a[j] ELSE b[j - Len(a)]
    BY <1>4, <1>6, ConcatProperties
  <2> HIDE DEF r
  <2>3. ASSUME NEW j \in 1..Len(q) - 1, j < i PROVE r[j] = q[j]
    <3>1. j \in 1..Len(a) + Len(b) /\ j <= Len(a) /\ j \in 1..i - 1
      BY <1>2, <1>3, <1>4, <1>6, <2>3
    <3> QED BY <1>4, <2>2, <3>1
  <2>4. ASSUME NEW j \in 1..Len(q) - 1, j >= i PROVE r[j] = q[j + 1]
    <3>1. /\ j \in 1..Len(a) + Len(b) /\ ~(j <= Len(a)) /\ j - Len(a) \in 1..Len(q) - i
          /\ i + (j - Len(a)) = j + 1
      BY <1>2, <1>3, <1>4, <1>6, <2>4
    <3>2. r[j] = b[j - Len(a)] /\ b[j - Len(a)] = q[j + 1]
      BY <1>6, <2>2, <3>1
    <3> QED BY <3>2
  <2> QED BY <1>2, <1>3, <1>4, <1>6, <2>1, <2>3, <2>4
<1> HIDE DEF r
<1>8. /\ \A j \in DOMAIN r : \E k \in DOMAIN q : k # i /\ q[k] = r[j]
      /\ \A k \in DOMAIN q : k # i => \E j \in DOMAIN r : q[k] = r[j]
  <2>1. ASSUME NEW j \in DOMAIN r PROVE \E k \in DOMAIN q : k # i /\ q[k] = r[j]
    <3>1. j \in 1..Len(q) - 1 /\ j \in Nat
      BY <1>3, <1>7
    <3>2. CASE j < i
      BY <1>2, <1>3, <1>7, <3>1, <3>2
    <3>3. CASE ~(j < i)
      <4>1. j + 1 \in DOMAIN q /\ j + 1 # i /\ q[j + 1] = r[j]
        BY <1>2, <1>3, <1>7, <3>1, <3>3
      <4> QED BY <4>1
    <3> QED BY <3>2, <3>3
  <2>2. ASSUME NEW k \in DOMAIN q, k # i PROVE \E j \in DOMAIN r : q[k] = r[j]
    <3>1. k \in 1..Len(q) /\ k \in Nat
      BY <1>3
    <3>2. CASE k < i
      BY <1>2, <1>3, <1>7, <3>1, <3>2
    <3>3. CASE ~(k < i)
      <4>1. k - 1 \in DOMAIN r /\ k - 1 \in 1..Len(q) - 1 /\ ~(k - 1 < i) /\ (k - 1) + 1 = k
        BY <1>2, <1>3, <1>7, <2>2, <3>1, <3>3
      <4>2. q[k] = r[k - 1]
        BY <1>7, <4>1
      <4> QED BY <4>1, <4>2
    <3> QED BY <3>2, <3>3
  <2> QED BY <2>1, <2>2
<1>9. \A j, k \in DOMAIN r : j < k => r[j].event < r[k].event
  <2> SUFFICES ASSUME NEW j \in DOMAIN r, NEW k \in DOMAIN r, j < k PROVE r[j].event < r[k].event
    OBVIOUS
  <2>1. j \in 1..Len(q) - 1 /\ k \in 1..Len(q) - 1
    BY <1>7
  <2>2. r[j] = (IF j < i THEN q[j] ELSE q[j + 1]) /\ r[k] = (IF k < i THEN q[k] ELSE q[k + 1])
    BY <1>7, <2>1
  <2> QED BY <1>2, <1>3, <2>1, <2>2, SMTT(60) DEF QueueInOrder
<1>10. /\ \A j \in DOMAIN q : q[j].event \in Nat /\ (j # i => q[j].event # q[i].event)
  <2>1. \A j \in DOMAIN q : q[j].event \in 1..Len(sunk)
    BY DEF QueueInOrder, Numbers
  <2>2. Len(sunk) \in Nat
    BY DEF ChannelTyped
  <2> QED BY <1>2, <1>3, <2>1, <2>2 DEF QueueInOrder
<1>11. Numbers(q) = Numbers(r) \cup {q[i].event} /\ q[i].event \notin Numbers(r)
  <2>1. i \in DOMAIN q
    BY <1>2, <1>3
  <2>2. \A j \in DOMAIN r : r[j].event \in Numbers(q) /\ r[j].event # q[i].event
    BY <1>8, <1>10 DEF Numbers
  <2>3. \A k \in DOMAIN q : q[k].event \in Numbers(r) \cup {q[i].event}
    BY <1>8 DEF Numbers
  <2>4. Numbers(r) \cup {q[i].event} \subseteq Numbers(q) /\ q[i].event \notin Numbers(r)
    BY <2>1, <2>2 DEF Numbers
  <2>5. Numbers(q) \subseteq Numbers(r) \cup {q[i].event}
    BY <2>3 DEF Numbers
  <2> QED BY <2>4, <2>5
<1>12. Numbers(eventQueue)' = Numbers(r)
  BY <1>1 DEF Numbers
<1>13. Len(r) <= Len(q)
  BY <1>3, <1>7
<1> QED BY <1>1, <1>7, <1>9, <1>11, <1>12, <1>13 DEF QueueInOrder

\* A reply that is awaited is still to come.
SendAwaited == doing.op = "send" =>
  \/ doing.arg \in unanswered
  \/ \E i \in DOMAIN socket : ~IsEvent(socket[i]) /\ socket[i].name = doing.arg

\* A message is read: an event goes to the sink and is kept or handed out.
LEMMA ReadsInv ==
  ASSUME ChannelInv, socket # << >>, socket' = Tail(socket), UNCHANGED <<sent, unanswered, emitted>>,
         IF IsEvent(Head(socket))
         THEN \/ PushEvent(Head(socket)) /\ UNCHANGED taken
              \/ /\ sunk' = Append(sunk, Head(socket).event)
                 /\ taken' = taken \cup {Head(socket).event} /\ UNCHANGED <<eventQueue, cut>>
         ELSE UNCHANGED <<eventQueue, sunk, taken, cut>>,
         RepliesMatch'
  PROVE  ChannelInv'
<1>1. ChannelTyped /\ QueueInOrder /\ Head(socket) \in ChannelMessage
  BY TailFacts DEF ChannelInv, ChannelTyped
<1>2. /\ QueueInOrder' /\ eventQueue' \in Seq(ChannelMessage) /\ sunk' \in Seq(Nat)
      /\ Len(sunk') = IF IsEvent(Head(socket)) THEN Len(sunk) + 1 ELSE Len(sunk)
  <2>1. CASE ~IsEvent(Head(socket))
    BY <1>1, <2>1 DEF QueueInOrder, ChannelTyped, Numbers
  <2>2. CASE IsEvent(Head(socket)) /\ PushEvent(Head(socket)) /\ UNCHANGED taken
    BY <1>1, <2>2, HeadIsNext, PushFacts
  <2>3. CASE /\ IsEvent(Head(socket)) /\ sunk' = Append(sunk, Head(socket).event)
             /\ taken' = taken \cup {Head(socket).event} /\ UNCHANGED <<eventQueue, cut>>
    <3>1. /\ Len(sunk') = Len(sunk) + 1 /\ sunk' = [i \in 1..Len(sunk') |-> i]
          /\ sunk' \in Seq(Nat) /\ 1..Len(sunk') = 1..Len(sunk) \cup {Len(sunk) + 1}
          /\ taken' = taken \cup {Len(sunk) + 1}
      BY <1>1, <2>3, HeadIsNext, SunkGrows
    <3>2. /\ Numbers(eventQueue)' = Numbers(eventQueue) /\ eventQueue' \in Seq(ChannelMessage)
          /\ Len(sunk) \in Nat
      BY <1>1, <2>3 DEF Numbers, ChannelTyped
    <3>3. Len(sunk) + 1 \notin 1..Len(sunk)
      BY <3>2
    <3>4. Len(sunk) + 1 \notin Numbers(eventQueue) \cup taken \cup cut
      BY <1>1, <3>3 DEF QueueInOrder
    <3>5. Numbers(eventQueue)' \cup taken' \cup cut' = 1..Len(sunk')
      BY <1>1, <2>3, <3>1, <3>2 DEF QueueInOrder
    <3>6. /\ taken' \cap cut' = {} /\ Numbers(eventQueue)' \cap (taken' \cup cut') = {}
      BY <1>1, <2>3, <3>1, <3>2, <3>4 DEF QueueInOrder
    <3>7. QueueInOrder'
      BY <1>1, <2>3, <3>1, <3>2, <3>5, <3>6 DEF QueueInOrder
    <3> QED BY <2>3, <3>1, <3>2, <3>7
  <2> QED BY <2>1, <2>2, <2>3
<1>3. SocketInOrder' /\ socket' \in Seq(ChannelMessage)
  BY <1>2, ReadsSocket
<1>4. ChannelTyped'
  BY <1>1, <1>2, <1>3 DEF ChannelTyped
<1> QED BY <1>2, <1>3, <1>4 DEF ChannelInv

\* Nothing is read or arrives.
LEMMA ChannelRests ==
  ASSUME ChannelInv, UNCHANGED <<emitted, socket, eventQueue, sunk, taken, cut>>,
         sent' \in Nat, unanswered' \subseteq Nat, RepliesMatch'
  PROVE  ChannelInv'
BY DEF ChannelInv, ChannelTyped, SocketInOrder, QueueInOrder, Numbers, IsEvent

LEMMA ChannelNextInv ==
  ASSUME ChannelInv, [ChannelNext]_channelVars
  PROVE  ChannelInv'
<1>1. ChannelTyped /\ RepliesMatch /\ (\A a \in answers : a[1] = a[2]) /\ SendAwaited
  BY DEF ChannelInv, RepliesMatch, SendAwaited
<1>2. (\A a \in answers' : a[1] = a[2]) /\ SendAwaited' => RepliesMatch'
  BY DEF RepliesMatch, SendAwaited
<1>3. CASE Send
  <2>1. /\ sent' = sent + 1 /\ unanswered' \in {unanswered, unanswered \cup {sent + 1}}
        /\ doing' = Resting \/ doing'.arg \in unanswered'
        /\ UNCHANGED <<emitted, socket, eventQueue, sunk, taken, cut, answers>>
    BY <1>3 DEF Send, Do
  <2>2. RepliesMatch'
    BY <1>1, <1>2, <2>1 DEF SendAwaited, Resting
  <2> QED BY <1>1, <2>1, <2>2, ChannelRests DEF ChannelTyped
<1>4. CASE GivesUp \/ DrainEvents \/ Abort \/ Broken \/ \E name \in EventNames : WaitForEvent(name)
  <2>1. /\ UNCHANGED <<sent, unanswered, emitted, socket, eventQueue, sunk, taken, cut, answers>>
        /\ doing' = doing \/ doing'.op # "send"
    BY <1>4 DEF GivesUp, DrainEvents, Abort, Broken, WaitForEvent, Do, Resting
  <2>2. RepliesMatch'
    BY <1>1, <1>2, <2>1 DEF SendAwaited, IsEvent
  <2> QED BY <1>1, <2>1, <2>2, ChannelRests DEF ChannelTyped
<1>5. CASE RecvUntil
  <2> DEFINE m == Head(socket)
  <2>1. /\ doing.op = "send" /\ socket # << >> /\ socket' = Tail(socket)
        /\ UNCHANGED <<sent, unanswered, emitted, taken>>
        /\ IF IsEvent(m) THEN PushEvent(m) ELSE UNCHANGED <<eventQueue, sunk, cut>>
        /\ \/ doing' = Resting /\ answers' = answers \cup {<<doing.arg, m.name>>}
              /\ doing.arg = m.name
           \/ doing' = doing /\ answers' = answers /\ (IsEvent(m) \/ m.name # doing.arg)
    BY <1>5 DEF RecvUntil, IsReplyTo
  <2>2. \A a \in answers' : a[1] = a[2]
    BY <1>1, <2>1
  <2>3. SendAwaited'
    <3>1. CASE doing' = Resting
      BY <3>1 DEF SendAwaited, Resting
    <3>2. CASE /\ doing' = doing /\ (IsEvent(m) \/ m.name # doing.arg)
               /\ \E i \in DOMAIN socket : ~IsEvent(socket[i]) /\ socket[i].name = doing.arg
      <4>1. PICK i \in DOMAIN socket : ~IsEvent(socket[i]) /\ socket[i].name = doing.arg
        BY <3>2
      <4>2. i # 1 /\ i - 1 \in DOMAIN socket' /\ socket'[i - 1] = socket[i]
        BY <1>1, <2>1, <3>2, <4>1, TailFacts DEF ChannelTyped
      <4> QED BY <3>2, <4>1, <4>2 DEF SendAwaited, IsEvent
    <3>3. CASE doing' = doing /\ doing.arg \in unanswered
      BY <2>1, <3>3 DEF SendAwaited
    <3> QED BY <1>1, <2>1, <3>1, <3>2, <3>3 DEF SendAwaited
  <2> QED BY <1>2, <2>1, <2>2, <2>3, ReadsInv
<1>6. CASE WaitReads \/ (DrainReads /\ socket' # socket)
  <2> DEFINE m == Head(socket)
  <2>1. /\ doing.op \in {"wait", "drain"} /\ socket # << >> /\ socket' = Tail(socket)
        /\ UNCHANGED <<sent, unanswered, emitted, answers>> /\ doing'.op # "send"
    BY <1>6 DEF WaitReads, DrainReads, Do, Resting
  <2>2. IF IsEvent(m)
        THEN \/ PushEvent(m) /\ UNCHANGED taken
             \/ /\ sunk' = Append(sunk, m.event)
                /\ taken' = taken \cup {m.event} /\ UNCHANGED <<eventQueue, cut>>
        ELSE UNCHANGED <<eventQueue, sunk, taken, cut>>
    BY <1>6, <2>1 DEF WaitReads, DrainReads
  <2>3. RepliesMatch'
    BY <1>1, <1>2, <2>1 DEF SendAwaited
  <2> QED BY <2>1, <2>2, <2>3, ReadsInv
<1>7. CASE DrainReads /\ socket' = socket
  <2>1. UNCHANGED <<sent, unanswered, emitted, answers, taken>> /\ doing.op = "drain"
    BY <1>7 DEF DrainReads
  <2>2. socket # << >> => Tail(socket) # socket
    BY <1>1, TailFacts DEF ChannelTyped
  <2>3. doing' = Resting /\ UNCHANGED <<socket, eventQueue, sunk, cut>>
    BY <1>7, <2>2 DEF DrainReads
  <2>4. RepliesMatch'
    BY <1>1, <1>2, <2>1, <2>3 DEF SendAwaited, Resting
  <2> QED BY <1>1, <2>1, <2>3, <2>4, ChannelRests DEF ChannelTyped
<1>8. ASSUME NEW id \in unanswered, BrowserAnswers(id) PROVE ChannelInv'
  <2>1. /\ unanswered' = unanswered \ {id} /\ socket' = Append(socket, Reply(id))
        /\ UNCHANGED <<sent, emitted, doing, eventQueue, sunk, taken, cut, answers>>
    BY <1>8 DEF BrowserAnswers
  <2>2. Reply(id) \in ChannelMessage /\ Reply(id).event = 0 /\ Reply(id).name = id
    BY <1>1 DEF Reply, ChannelMessage, ChannelTyped
  <2>3. /\ SocketInOrder' /\ socket' \in Seq(ChannelMessage) /\ Len(socket) + 1 \in DOMAIN socket'
        /\ socket'[Len(socket) + 1] = Reply(id)
        /\ \A i \in DOMAIN socket : i \in DOMAIN socket' /\ socket'[i] = socket[i]
    BY <2>1, <2>2, AddsToSocket
  <2>4. SendAwaited'
    BY <1>1, <2>1, <2>2, <2>3 DEF SendAwaited, IsEvent
  <2>5. ChannelTyped' /\ QueueInOrder'
    BY <1>1, <2>1, <2>3 DEF ChannelInv, ChannelTyped, QueueInOrder, Numbers
  <2> QED BY <1>1, <1>2, <2>1, <2>3, <2>4, <2>5 DEF ChannelInv
<1>9. ASSUME NEW name \in EventNames, BrowserEmits(name) PROVE ChannelInv'
  <2>1. /\ emitted' = emitted + 1 /\ socket' = Append(socket, Event(emitted + 1, name))
        /\ UNCHANGED <<sent, unanswered, doing, eventQueue, sunk, taken, cut, answers>>
    BY <1>9 DEF BrowserEmits
  <2>2. Event(emitted + 1, name) \in ChannelMessage /\ Event(emitted + 1, name).event = emitted + 1
    BY <1>1 DEF Event, ChannelMessage, ChannelTyped
  <2>3. /\ SocketInOrder' /\ socket' \in Seq(ChannelMessage)
        /\ \A i \in DOMAIN socket : i \in DOMAIN socket' /\ socket'[i] = socket[i]
    BY <2>1, <2>2, AddsToSocket
  <2>4. SendAwaited'
    BY <1>1, <2>1, <2>3 DEF SendAwaited, IsEvent
  <2>5. ChannelTyped' /\ QueueInOrder'
    BY <1>1, <2>1, <2>3 DEF ChannelInv, ChannelTyped, QueueInOrder, Numbers
  <2> QED BY <1>1, <1>2, <2>1, <2>3, <2>4, <2>5 DEF ChannelInv
<1>10. ASSUME NEW name \in EventNames, TakeEvent(name) PROVE ChannelInv'
  <2>1. /\ PopEvent(name) /\ UNCHANGED <<sent, unanswered, emitted, socket, doing, sunk, cut, answers>>
    BY <1>10 DEF TakeEvent
  <2>2. QueueInOrder' /\ eventQueue' \in Seq(ChannelMessage)
    BY <1>1, <2>1, PopFacts DEF ChannelInv
  <2>3. ChannelTyped' /\ SocketInOrder' /\ SendAwaited'
    BY <1>1, <2>1, <2>2 DEF ChannelInv, ChannelTyped, SocketInOrder, Numbers, IsEvent, SendAwaited
  <2> QED BY <1>1, <1>2, <2>1, <2>2, <2>3 DEF ChannelInv
<1>11. CASE UNCHANGED channelVars
  BY <1>11 DEF channelVars, ChannelInv, ChannelTyped, SocketInOrder, QueueInOrder, RepliesMatch,
               Numbers, IsEvent
<1>12. CASE WaitReads \/ DrainReads
  BY <1>6, <1>7, <1>12
<1> QED BY <1>3, <1>4, <1>5, <1>6, <1>7, <1>8, <1>9, <1>10, <1>11, <1>12 DEF ChannelNext

\* A tab's connection keeps every event exactly once and in the order the browser sent them,
\* wherever timeouts, calls, reads by name and drains take them from, until the queue is full,
\* and gives a call the reply to it (session_cdp.py: _recv_until, _push_event, pop_event,
\* wait_for_event, drain_events).
THEOREM ChannelCorrect == ChannelSpec => []ChannelDelivers
BY ChannelInitInv, ChannelNextInv, InvImpliesChannel, PTL DEF ChannelSpec

-----------------------------------------------------------------------------
(* The dialogs of a tab.                                                   *)

DialogsTyped ==
  /\ happened \in Nat /\ busSeen \in 0..happened /\ connSeen \in 0..happened
  /\ flag \in BOOLEAN /\ lost \in BOOLEAN /\ expected \in BOOLEAN
  /\ noters \in Nat /\ backlog \in Seq(Nat)

\* What the queue holds was read in this order; the closing of what it holds is in it as
\* well, once read, until it is taken after its opening.
BacklogRises == Rising(backlog) /\ \A n \in Members(backlog) : 0 < n /\ n <= connSeen
ClosingsFollow ==
  \A n \in Members(backlog) : \A c \in (n + 1)..connSeen :
    IsOpening(n) /\ ~IsOpening(c) => c \in Members(backlog)
ClosingFirst ==
  \A n \in Members(backlog) :
    IsOpening(n) => \E c \in Members(backlog) : ~IsOpening(c) /\ c < n
BacklogInv ==
  /\ BacklogRises /\ ClosingsFollow
  /\ at \in {"drained", "closeDrained"} => ClosingFirst

\* A false alarm has something ahead that ends it.
Ahead == busSeen < happened \/ connSeen < happened \/ backlog # << >> \/ noters > 0
Excused == at = "toolHandled" \/ (at = "tool" /\ expected = TRUE)
AlarmIsPending == flag = TRUE /\ lost = FALSE /\ ~DialogOpen /\ ~Excused => Ahead

DialogsInv == DialogsTyped /\ BacklogInv /\ AlarmIsPending

LEMMA Alternating ==
  ASSUME NEW n \in Nat
  PROVE  ~IsOpening(0) /\ (IsOpening(n + 1) <=> ~IsOpening(n))
BY DEF IsOpening

LEMMA DialogInitInv == DialogInit => DialogsInv
<1> SUFFICES ASSUME DialogInit PROVE DialogsInv
  OBVIOUS
<1>1. Members(<< >>) = {} /\ Rising(<< >>)
  BY DEF Members, Rising
<1>2. << >> \in Seq(Nat)
  OBVIOUS
<1>3. flag = FALSE /\ lost = FALSE /\ expected = FALSE
  BY DEF DialogInit
<1>5. happened \in Nat /\ busSeen \in 0..happened /\ connSeen \in 0..happened
  BY DEF DialogInit
<1>6. noters \in Nat /\ backlog \in Seq(Nat)
  BY <1>2 DEF DialogInit
<1>7. DialogsTyped
  BY ONLY <1>3, <1>5, <1>6 DEF DialogsTyped
<1>8. AlarmIsPending
  BY ONLY <1>3 DEF AlarmIsPending
<1>4. BacklogInv
  BY <1>1 DEF DialogInit, BacklogInv, BacklogRises, ClosingsFollow
<1> QED BY <1>4, <1>7, <1>8 DEF DialogsInv

\* A step that leaves the queue alone, and does not begin to take closings from it.
LEMMA BacklogRests ==
  ASSUME BacklogInv, UNCHANGED <<backlog, connSeen>>,
         at' \in {"drained", "closeDrained"} => at \in {"drained", "closeDrained"}
  PROVE  BacklogInv'
BY DEF BacklogInv, BacklogRises, ClosingsFollow, ClosingFirst

LEMMA PageStepsInv ==
  ASSUME DialogsInv, PageDialog \/ BusReads \/ BusReconnects \/ WorkerHandles
  PROVE  DialogsInv'
<1> USE DEF DialogsInv, DialogsTyped
<1>1. UNCHANGED <<backlog, connSeen, at, expected>>
  BY DEF PageDialog, BusReads, BusReconnects, WorkerHandles
<1>2. BacklogInv'
  BY <1>1, BacklogRests
<1>3. CASE PageDialog
  <2>1. happened' = happened + 1 /\ UNCHANGED <<busSeen, flag, lost, noters>>
    BY <1>3 DEF PageDialog
  <2>2. DialogsTyped' /\ busSeen' < happened'
    BY <1>1, <2>1
  <2> QED BY <1>2, <2>2 DEF AlarmIsPending, Ahead
<1>4. CASE BusReads
  <2>1. /\ busSeen < happened /\ busSeen' = busSeen + 1 /\ flag' = IsOpening(busSeen + 1)
        /\ UNCHANGED <<happened, lost, noters>>
    BY <1>4 DEF BusReads, Ingest, SetFlag
  <2>2. flag' \in BOOLEAN
    BY <2>1 DEF IsOpening
  <2>3. DialogsTyped'
    BY <1>1, <2>1, <2>2
  <2>4. flag' /\ ~DialogOpen' => busSeen' < happened'
    BY <2>1 DEF DialogOpen
  <2> QED BY <1>2, <2>3, <2>4 DEF AlarmIsPending, Ahead
<1>5. CASE BusReconnects
  <2>1. busSeen' = happened /\ lost' = TRUE /\ UNCHANGED <<happened, flag, noters>>
    BY <1>5 DEF BusReconnects
  <2> QED BY <1>1, <1>2, <2>1 DEF AlarmIsPending
<1>6. CASE WorkerHandles
  <2>1. UNCHANGED <<busSeen, flag, lost>>
    BY <1>6 DEF WorkerHandles
  <2>2. CASE Handle /\ noters' = noters + 1
    <3>1. happened' = happened + 1
      BY <2>2 DEF Handle
    <3> QED BY <1>1, <1>2, <2>1, <2>2, <3>1 DEF AlarmIsPending, Ahead
  <2>3. CASE UNCHANGED <<happened, noters>>
    <3>1. DialogsTyped'
      BY <1>1, <2>1, <2>3
    <3> QED BY <1>1, <1>2, <2>1, <2>3, <3>1 DEF AlarmIsPending, Ahead, Excused, DialogOpen
  <2> QED BY <1>6, <2>2, <2>3 DEF WorkerHandles
<1> QED BY <1>3, <1>4, <1>5, <1>6

\* A step of the run or of a worker that neither reads nor sets the flag.
LEMMA StillPending ==
  ASSUME DialogsInv, UNCHANGED <<happened, busSeen, connSeen, backlog, lost>>,
         noters' \in Nat, expected' \in BOOLEAN,
         at' \in {"drained", "closeDrained"} => at \in {"drained", "closeDrained"},
         \/ flag' = FALSE
         \/ flag' = flag /\ noters' = noters /\ (Excused => Excused')
  PROVE  DialogsInv'
<1> USE DEF DialogsInv, DialogsTyped
<1>1. BacklogInv'
  BY BacklogRests
<1>2. DialogsTyped'
  OBVIOUS
<1>3. CASE flag' = FALSE
  BY <1>1, <1>2, <1>3 DEF AlarmIsPending
<1>4. CASE flag' = flag /\ noters' = noters /\ (Excused => Excused')
  <2>1. (Ahead <=> Ahead') /\ (DialogOpen <=> DialogOpen')
    BY <1>4 DEF Ahead, DialogOpen
  <2>2. AlarmIsPending
    OBVIOUS
  <2>3. AlarmIsPending'
    BY ONLY <1>4, <2>1, <2>2, lost' = lost, Zenon DEF AlarmIsPending
  <2> QED BY <1>1, <1>2, <2>3
<1> QED BY <1>3, <1>4

LEMMA RestingSteps ==
  ASSUME DialogsInv,
         \/ Throttle \/ Expire \/ WorkerNotes \/ DrainBegins \/ Decide \/ EvalEnds \/ ToolNotes
         \/ UNCHANGED dialogVars
  PROVE  DialogsInv'
<1> USE DEF DialogsInv, DialogsTyped
<1>1. UNCHANGED <<happened, busSeen, connSeen, backlog, lost, expected>>
  BY DEF Throttle, Expire, WorkerNotes, DrainBegins, Decide, EvalEnds, ToolNotes, dialogVars
<1>2. CASE Throttle \/ Expire \/ UNCHANGED dialogVars
  <2>1. UNCHANGED <<flag, noters, at>>
    BY <1>2 DEF Throttle, Expire, dialogVars
  <2>2. Excused => Excused'
    BY <1>1, <2>1 DEF Excused
  <2> QED BY <1>1, <2>1, <2>2, StillPending
<1>3. CASE WorkerNotes
  <2>1. flag' = FALSE /\ noters' = noters - 1 /\ noters > 0 /\ at' = at
    BY <1>3 DEF WorkerNotes, NoteClosed
  <2>2. noters' \in Nat /\ expected' \in BOOLEAN
    BY <1>1, <2>1
  <2> QED BY ONLY DialogsInv, <1>1, <2>1, <2>2, StillPending
<1>4. CASE ToolNotes
  BY <1>1, <1>4, StillPending DEF ToolNotes, NoteClosed, Goto
<1>5. CASE DrainBegins \/ Decide \/ EvalEnds
  <2>1. /\ UNCHANGED <<flag, noters>> /\ at \in {"between", "closing", "deciding", "evaluating"}
        /\ at' \notin {"drained", "closeDrained"}
    BY <1>5 DEF DrainBegins, Decide, EvalEnds, Goto
  <2>2. ~Excused
    BY <2>1 DEF Excused
  <2> QED BY <1>1, <2>1, <2>2, StillPending
<1> QED BY <1>2, <1>3, <1>4, <1>5

\* The dialog tool, and the way to close a dialog in a run.
LEMMA ToolSteps ==
  ASSUME DialogsInv, CloseDialog \/ DialogTool \/ ToolHandles \/ ToolRecovers
  PROVE  DialogsInv'
<1> USE DEF DialogsInv, DialogsTyped, Goto
<1>1. CASE ToolRecovers
  <2>1. Members(<< >>) = {} /\ Rising(<< >>)
    BY DEF Members, Rising
  <2>2. << >> \in Seq(Nat)
    OBVIOUS
  <2>3. /\ flag' = FALSE /\ lost' = FALSE /\ expected' = expected /\ happened' = 0 /\ busSeen' = 0
        /\ connSeen' = 0 /\ noters' = 0 /\ backlog' = << >>
    BY <1>1 DEF ToolRecovers
  <2>a. busSeen' \in 0..happened' /\ connSeen' \in 0..happened' /\ backlog' \in Seq(Nat)
    BY <2>2, <2>3
  <2>b. flag' \in BOOLEAN /\ lost' \in BOOLEAN /\ expected' \in BOOLEAN
    BY <2>3
  <2>5. DialogsTyped'
    BY ONLY <2>3, <2>a, <2>b DEF DialogsTyped
  <2>6. AlarmIsPending'
    BY ONLY <2>3 DEF AlarmIsPending
  <2>4. BacklogInv'
    BY <1>1, <2>1 DEF ToolRecovers, BacklogInv, BacklogRises, ClosingsFollow
  <2> QED BY <2>4, <2>5, <2>6
<1>2. CASE DialogTool
  <2>1. /\ UNCHANGED <<happened, flag, busSeen, connSeen, backlog, noters>>
        /\ at' = "tool" /\ expected' = flag /\ lost' = FALSE
    BY <1>2 DEF DialogTool
  <2>2. BacklogInv'
    BY <2>1, BacklogRests
  <2> QED BY <2>1, <2>2 DEF AlarmIsPending, Excused
<1>3. CASE ToolHandles
  <2>1. UNCHANGED <<flag, busSeen, connSeen, backlog, noters, expected, lost>> /\ at = "tool"
    BY <1>3 DEF ToolHandles
  <2>2. CASE Handle /\ at' = "toolHandled"
    <3>1. happened' = happened + 1
      BY <2>2 DEF Handle
    <3>2. BacklogInv'
      BY <2>1, <2>2, BacklogRests
    <3> QED BY <2>1, <2>2, <3>1, <3>2 DEF AlarmIsPending, Excused
  <2>3. CASE UNCHANGED happened /\ at' = IF expected THEN "toolHandled" ELSE "between"
    <3>1. Excused => Excused'
      BY <2>1, <2>3 DEF Excused
    <3> QED BY <2>1, <2>3, <3>1, StillPending
  <2> QED BY <1>3, <2>2, <2>3 DEF ToolHandles
<1>4. CASE CloseDialog
  <2>1. UNCHANGED <<busSeen, connSeen, backlog, noters, expected, lost>> /\ at = "closed"
    BY <1>4 DEF CloseDialog
  <2>2. CASE NoteClosed /\ at' = "draining" /\ (Handle \/ UNCHANGED happened)
    <3>1. flag' = FALSE /\ happened' \in Nat /\ happened <= happened'
      BY <2>2 DEF NoteClosed, Handle
    <3>2. BacklogInv'
      BY <2>1, <2>2, BacklogRests
    <3>3. AlarmIsPending'
      BY ONLY <3>1 DEF AlarmIsPending
    <3>4. busSeen' \in 0..happened' /\ connSeen' \in 0..happened'
      BY <2>1, <3>1
    <3>5. DialogsTyped'
      BY <2>1, <3>1, <3>4
    <3> QED BY <3>2, <3>3, <3>5
  <2>3. CASE UNCHANGED <<happened, flag>> /\ at' \in {"closing", "between"}
    <3>1. ~Excused
      BY <2>1 DEF Excused
    <3> QED BY <2>1, <2>3, <3>1, StillPending
  <2> QED BY <1>4, <2>2, <2>3 DEF CloseDialog
<1> QED BY <1>1, <1>2, <1>3, <1>4

LEMMA ConnReadsInv ==
  ASSUME DialogsInv, ConnReads
  PROVE  DialogsInv'
<1> USE DEF DialogsInv, DialogsTyped
<1>1. PICK n \in Nat : n = connSeen + 1
  OBVIOUS
<1>2. /\ at \notin {"drained", "closeDrained"} /\ connSeen < happened /\ connSeen' = n
      /\ backlog' = Append(backlog, n) /\ flag' = IsOpening(n)
      /\ UNCHANGED <<happened, busSeen, at, noters, expected, lost>>
  BY <1>1 DEF ConnReads, Receiving, Ingest, SetFlag
<1>3. /\ backlog' \in Seq(Nat) /\ Members(backlog') = Members(backlog) \cup {n}
      /\ Rising(backlog')
  <2>1. ASSUME NEW m \in Members(backlog) PROVE m < n
    <3>1. m \in Nat /\ m <= connSeen
      BY DEF BacklogInv, BacklogRises, Members
    <3> QED BY <1>1, <3>1
  <2> QED BY <1>2, <2>1, AppendMembers DEF BacklogInv, BacklogRises
<1>4. DialogsTyped'
  BY <1>1, <1>2, <1>3 DEF IsOpening
<1>5. BacklogRises'
  BY <1>1, <1>2, <1>3 DEF BacklogInv, BacklogRises, Members
<1>6. ClosingsFollow'
  <2>1. \A m \in Members(backlog) : m \in Nat
    BY DEF Members
  <2>2. ASSUME NEW m \in Members(backlog'), NEW c \in (m + 1)..n, IsOpening(m), ~IsOpening(c)
        PROVE  c \in Members(backlog')
    <3>1. CASE c = n
      BY <1>3, <3>1
    <3>2. CASE c # n
      <4>1. m \in Members(backlog) /\ c \in (m + 1)..connSeen
        BY <1>1, <1>3, <2>1, <3>2
      <4> QED BY <1>3, <2>2, <4>1 DEF BacklogInv, ClosingsFollow
    <3> QED BY <3>1, <3>2
  <2> QED BY <1>2, <2>2 DEF ClosingsFollow
<1>7. backlog' # << >>
  <2>1. n \in Members(backlog')
    BY <1>3
  <2> QED BY <2>1 DEF Members
<1> QED BY <1>2, <1>4, <1>5, <1>6, <1>7 DEF BacklogInv, AlarmIsPending, Ahead

\* What pop_event takes is the oldest of its kind.
LEMMA PopsOldest ==
  ASSUME DialogsInv, NEW opens \in BOOLEAN, Queued(opens) # {}, Pop(opens)
  PROVE  \E n \in Members(backlog) :
           /\ n = backlog[Oldest(opens)] /\ IsOpening(n) = opens
           /\ backlog' \in Seq(Nat) /\ Rising(backlog')
           /\ Members(backlog') \subseteq Members(backlog) \ {n}
           /\ \A m \in Members(backlog) : m # n => m \in Members(backlog')
           /\ \A m \in Members(backlog) : IsOpening(m) = opens => n <= m
<1> DEFINE Q == Queued(opens)
<1>1. backlog \in Seq(Nat) /\ Rising(backlog) /\ Q \in SUBSET Nat /\ Q # {}
  BY DEF DialogsInv, DialogsTyped, BacklogInv, BacklogRises, Queued
<1>2. \E i \in Q : \A j \in Q : i <= j
  BY <1>1, LeastOf
<1>3. PICK i : i = Oldest(opens)
  OBVIOUS
<1>4. i \in Q /\ \A j \in Q : i <= j
  BY <1>2, <1>3 DEF Oldest
<1>5. i \in DOMAIN backlog /\ IsOpening(backlog[i]) = opens
  BY <1>4 DEF Queued
<1>6. backlog' = SubSeq(backlog, 1, i - 1) \o SubSeq(backlog, i + 1, Len(backlog))
  BY <1>3 DEF Pop
<1>7. /\ backlog' \in Seq(Nat) /\ Rising(backlog')
      /\ \A m \in Members(backlog') : \E j \in DOMAIN backlog : j # i /\ backlog[j] = m
      /\ \A j \in DOMAIN backlog : j # i => backlog[j] \in Members(backlog')
  BY <1>1, <1>5, <1>6, CutMembers, SMTT(60)
<1>8. PICK n : n = backlog[i]
  OBVIOUS
<1>9. n \in Members(backlog) /\ IsOpening(n) = opens /\ n = backlog[Oldest(opens)]
  BY <1>3, <1>5, <1>8 DEF Members
<1>10. Members(backlog') \subseteq Members(backlog) \ {n}
  <2>1. ASSUME NEW m \in Members(backlog') PROVE m \in Members(backlog) /\ m # n
    <3>1. PICK j \in DOMAIN backlog : j # i /\ backlog[j] = m
      BY <1>7
    <3>2. i \in Nat /\ j \in Nat /\ backlog[i] \in Nat /\ m \in Nat
      BY <1>1, <1>5, <3>1
    <3>3. CASE j < i
      BY <1>1, <1>5, <1>8, <3>1, <3>2, <3>3 DEF Rising, Members
    <3>4. CASE i < j
      BY <1>1, <1>5, <1>8, <3>1, <3>2, <3>4 DEF Rising, Members
    <3> QED BY <3>1, <3>2, <3>3, <3>4
  <2> QED BY <2>1
<1>11. \A m \in Members(backlog) : m # n => m \in Members(backlog')
  BY <1>7, <1>8 DEF Members
<1>12. ASSUME NEW m \in Members(backlog), IsOpening(m) = opens PROVE n <= m
  <2>1. PICK j \in DOMAIN backlog : m = backlog[j]
    BY DEF Members
  <2>2. j \in Q
    BY <1>12, <2>1 DEF Queued
  <2>3. i <= j /\ i \in Nat /\ j \in Nat
    BY <1>1, <1>4, <2>2
  <2>4. n \in Nat /\ m \in Nat
    BY <1>1, <1>5, <1>8, <2>1
  <2>5. CASE i = j
    BY <1>8, <2>1, <2>4, <2>5
  <2>6. CASE i < j
    BY <1>1, <1>5, <1>8, <2>1, <2>4, <2>6 DEF Rising
  <2> QED BY <2>3, <2>5, <2>6
<1> QED BY <1>7, <1>9, <1>10, <1>11, <1>12

\* An opening is taken, and the flag is set by it: if the dialog was closed since, that has
\* still to be read, or is in the queue.
LEMMA PopOpening ==
  ASSUME DialogsInv, Queued(TRUE) # {}, Pop(TRUE), flag' = TRUE,
         UNCHANGED <<happened, busSeen, connSeen, noters, expected, lost>>
  PROVE  DialogsInv' /\ ClosingFirst'
<1>1. PICK n \in Members(backlog) :
           /\ IsOpening(n) /\ backlog' \in Seq(Nat) /\ Rising(backlog')
           /\ Members(backlog') \subseteq Members(backlog) \ {n}
           /\ \A m \in Members(backlog) : m # n => m \in Members(backlog')
           /\ \A m \in Members(backlog) : IsOpening(m) => n <= m
  BY PopsOldest
<1>2. /\ happened \in Nat /\ connSeen \in Nat /\ connSeen <= happened
      /\ BacklogRises /\ ClosingsFollow
  BY DEF DialogsInv, DialogsTyped, BacklogInv
<1>3. n \in Nat /\ n <= connSeen /\ ~IsOpening(n + 1) /\ \A m \in Members(backlog) : m \in Nat
  <2>1. n \in Nat /\ \A m \in Members(backlog) : m \in Nat
    BY DEF DialogsInv, DialogsTyped, Members
  <2> QED BY <1>1, <1>2, <2>1, Alternating DEF BacklogRises
<1>4. n + 1 <= connSeen => n + 1 \in Members(backlog')
  <2>1. n + 1 <= connSeen => n + 1 \in (n + 1)..connSeen
    BY <1>2, <1>3
  <2>2. n + 1 <= connSeen => n + 1 \in Members(backlog)
    BY <1>1, <1>2, <1>3, <2>1 DEF ClosingsFollow
  <2>3. n + 1 # n
    BY <1>3
  <2> QED BY <1>1, <2>2, <2>3
<1>5. DialogsTyped'
  BY <1>1 DEF DialogsInv, DialogsTyped
<1>6. BacklogRises'
  BY <1>1, <1>2 DEF BacklogRises
<1>7. ClosingsFollow'
  <2>1. ASSUME NEW m \in Members(backlog'), NEW c \in (m + 1)..connSeen,
               IsOpening(m), ~IsOpening(c)
        PROVE  c \in Members(backlog')
    BY <1>1, <1>2, <2>1 DEF ClosingsFollow
  <2> QED BY <2>1 DEF ClosingsFollow
<1>8. ClosingFirst'
  <2>1. ASSUME NEW m \in Members(backlog'), IsOpening(m)
        PROVE  \E c \in Members(backlog') : ~IsOpening(c) /\ c < m
    <3>1. m \in Nat /\ n <= m /\ m <= connSeen
      BY <1>1, <1>2, <1>3, <2>1 DEF BacklogRises
    <3>2. m # n
      BY <1>1
    <3>3. n + 1 <= m /\ n + 1 # m /\ n + 1 <= connSeen
      BY <1>2, <1>3, <2>1, <3>1, <3>2
    <3> QED BY <1>3, <1>4, <3>1, <3>3
  <2> QED BY <2>1 DEF ClosingFirst
<1>9. AlarmIsPending'
  <2>1. ~DialogOpen' => n + 1 <= connSeen \/ connSeen < happened
    BY <1>1, <1>2, <1>3 DEF DialogOpen
  <2>2. n + 1 \in Members(backlog') => backlog' # << >>
    BY DEF Members
  <2> QED BY <1>4, <2>1, <2>2 DEF AlarmIsPending, Ahead
<1> QED BY <1>5, <1>6, <1>7, <1>8, <1>9 DEF DialogsInv, BacklogInv

\* Without an opening in the queue none is taken.
LEMMA NoOpening ==
  ASSUME Queued(TRUE) = {}
  PROVE  ClosingFirst
<1>1. \A n \in Members(backlog) : ~IsOpening(n)
  BY DEF Queued, Members, IsOpening
<1> QED BY <1>1 DEF ClosingFirst

LEMMA OpeningsInv ==
  ASSUME DialogsInv, DrainOpening \/ RetryAfterDialog \/ EvalTimesOut
  PROVE  DialogsInv'
<1>1. /\ UNCHANGED <<happened, busSeen, connSeen, noters, expected, lost>>
      /\ at \in {"draining", "closeDraining", "failed", "evaluating"}
  BY DEF DrainOpening, RetryAfterDialog, EvalTimesOut
<1>2. CASE Queued(TRUE) # {}
  <2>1. Pop(TRUE) /\ flag' = TRUE
    <3>1. CASE EvalTimesOut
      BY <1>2, <3>1 DEF EvalTimesOut
    <3>2. CASE DrainOpening \/ RetryAfterDialog
      <4>1. Pop(TRUE) /\ flag' = IsOpening(backlog[Oldest(TRUE)])
        BY <1>2, <3>2 DEF DrainOpening, RetryAfterDialog, PopAndIngest, Ingest, SetFlag
      <4>2. IsOpening(backlog[Oldest(TRUE)]) = TRUE
        BY <1>2, <4>1, PopsOldest
      <4> QED BY <4>1, <4>2
    <3> QED BY <3>1, <3>2
  <2> QED BY <1>1, <1>2, <2>1, PopOpening
<1>3. CASE Queued(TRUE) = {}
  <2>1. UNCHANGED <<backlog, flag>>
    BY <1>3 DEF DrainOpening, RetryAfterDialog, EvalTimesOut, PopAndIngest
  <2>2. ClosingFirst
    BY <1>3, NoOpening
  <2>3. BacklogInv'
    BY <1>1, <2>1, <2>2
    DEF DialogsInv, BacklogInv, BacklogRises, ClosingsFollow, ClosingFirst
  <2>4. ~Excused
    BY <1>1 DEF Excused
  <2>5. AlarmIsPending'
    BY <1>1, <2>1, <2>4 DEF DialogsInv, AlarmIsPending, Ahead, DialogOpen
  <2>6. DialogsTyped'
    BY <1>1, <2>1 DEF DialogsInv, DialogsTyped
  <2> QED BY <2>3, <2>5, <2>6 DEF DialogsInv
<1> QED BY <1>2, <1>3

LEMMA DrainClosedInv ==
  ASSUME DialogsInv, DrainClosed
  PROVE  DialogsInv'
<1>1. /\ at \in {"drained", "closeDrained"} /\ at' \in {"deciding", "closed"}
      /\ PopAndIngest(FALSE) /\ UNCHANGED <<happened, busSeen, connSeen, noters, expected, lost>>
  BY DEF DrainClosed, Goto
<1>2. CASE Queued(FALSE) = {}
  <2>1. UNCHANGED <<backlog, flag>>
    BY <1>1, <1>2 DEF PopAndIngest
  <2>2. ~Excused
    BY <1>1 DEF Excused
  <2> QED BY <1>1, <2>1, <2>2, StillPending DEF DialogsInv, DialogsTyped
<1>3. CASE Queued(FALSE) # {}
  <2>1. Pop(FALSE) /\ flag' = IsOpening(backlog[Oldest(FALSE)])
    BY <1>1, <1>3 DEF PopAndIngest, Ingest, SetFlag
  <2>2. PICK n \in Members(backlog) :
             /\ n = backlog[Oldest(FALSE)] /\ IsOpening(n) = FALSE
             /\ backlog' \in Seq(Nat) /\ Rising(backlog')
             /\ Members(backlog') \subseteq Members(backlog) \ {n}
             /\ \A m \in Members(backlog) : m # n => m \in Members(backlog')
             /\ \A m \in Members(backlog) : IsOpening(m) = FALSE => n <= m
    BY <1>3, <2>1, PopsOldest
  <2>3. flag' = FALSE
    BY <2>1, <2>2
  <2>4. DialogsTyped'
    BY <1>1, <2>2, <2>3 DEF DialogsInv, DialogsTyped
  <2>5. BacklogRises /\ ClosingsFollow /\ ClosingFirst
    BY <1>1 DEF DialogsInv, BacklogInv
  <2>6. BacklogRises'
    BY <1>1, <2>2, <2>5 DEF BacklogRises
  <2>7. ClosingsFollow'
    <3>1. ASSUME NEW m \in Members(backlog'), NEW c \in (m + 1)..connSeen,
                 IsOpening(m), ~IsOpening(c)
          PROVE  c \in Members(backlog')
      <4>1. m \in Members(backlog) /\ c \in Members(backlog)
        BY <2>2, <2>5, <3>1 DEF ClosingsFollow
      <4>2. PICK d \in Members(backlog) : ~IsOpening(d) /\ d < m
        BY <2>5, <3>1, <4>1 DEF ClosingFirst
      <4>3. n <= d
        BY <2>2, <4>2 DEF IsOpening
      <4>4. n \in Nat /\ d \in Nat /\ m \in Nat /\ c \in Nat
        BY <4>1 DEF DialogsInv, DialogsTyped, Members
      <4>5. c # n
        BY <3>1, <4>2, <4>3, <4>4
      <4> QED BY <2>2, <4>1, <4>5
    <3> QED BY <1>1, <3>1 DEF ClosingsFollow
  <2>8. BacklogInv'
    BY <1>1, <2>6, <2>7 DEF BacklogInv
  <2>9. AlarmIsPending'
    BY ONLY <2>3 DEF AlarmIsPending
  <2> QED BY <2>4, <2>8, <2>9 DEF DialogsInv
<1> QED BY <1>2, <1>3

LEMMA DialogNextInv ==
  ASSUME DialogsInv, [DialogNext]_dialogVars
  PROVE  DialogsInv'
BY PageStepsInv, RestingSteps, ToolSteps, ConnReadsInv, OpeningsInv, DrainClosedInv DEF DialogNext

\* However late the event bus and the run's connection read what the page does, whatever is
\* ingested twice or guessed by an evaluation that timed out, and whoever closes a dialog: once
\* everything is read, the flag is set only if a dialog is open, unless the bus has missed
\* events (session_manager.py, ensure_telemetry; flow/handler.py,
\* _drain_and_ingest_dialog_events).
THEOREM AlarmsEnd == DialogSpec => []NoLastingAlarm
<1>1. DialogsInv => NoLastingAlarm
  <2> SUFFICES ASSUME DialogsInv, Settled, lost = FALSE, flag = TRUE PROVE DialogOpen
    BY DEF NoLastingAlarm, DialogsInv, DialogsTyped
  <2>1. ~Excused
    BY DEF Settled, Excused
  <2>2. ~Ahead
    BY DEF Settled, Ahead, DialogsInv, DialogsTyped
  <2> QED BY <2>1, <2>2 DEF DialogsInv, AlarmIsPending
<1> QED BY <1>1, DialogInitInv, DialogNextInv, PTL DEF DialogSpec

-----------------------------------------------------------------------------
(* Sequences and their items.                                              *)

LEMMA SeqOfItems ==
  ASSUME NEW S, NEW q \in Seq(S)
  PROVE  Len(q) \in Nat /\ DOMAIN q = 1..Len(q) /\ q \in [1..Len(q) -> S]
OBVIOUS

LEMMA ItemsAreSeq ==
  ASSUME NEW S, NEW n \in Nat, NEW q \in [1..n -> S]
  PROVE  q \in Seq(S)
OBVIOUS

-----------------------------------------------------------------------------
(* Types and bounds: tabs and sessions.                                    *)

\* What the proof about blocks does not need: the tabs, and the steps a handler has to take.
Openings(S) == [why : {"none", "tool", "hold"}, tries : 0..2, tab : S]
TabsTyped ==
  /\ mode \in Modes /\ tabs \subseteq born /\ born \subseteq Tabs
  /\ sessionTab \in born \cup {NoTab} /\ buses \subseteq born /\ strayed \subseteq born
  /\ lines \in [1..MaxFrames -> born \cup {NoTab}]
  /\ opening \in Openings(born \cup {NoTab})
StepsTyped ==
  plan \in Seq(TabOp) /\ Len(plan) <= 3 /\ acted \in {"none", "session", "other"}

LEMMA BornGrows ==
  ASSUME TabsTyped, NEW T, born \subseteq T
  PROVE  /\ tabs \subseteq T /\ sessionTab \in T \cup {NoTab} /\ buses \subseteq T
         /\ strayed \subseteq T /\ lines \in [1..MaxFrames -> T \cup {NoTab}]
         /\ opening \in Openings(T \cup {NoTab})
<1>1. lines \in [1..MaxFrames -> T \cup {NoTab}]
  BY DEF TabsTyped
<1>2. opening \in Openings(T \cup {NoTab})
  BY DEF TabsTyped, Openings
<1> QED BY <1>1, <1>2 DEF TabsTyped

LEMMA CreatedTyped ==
  ASSUME TabsTyped, NEW t \in Tabs, Create(t)
  PROVE  /\ t \in born' /\ tabs' \subseteq born' /\ born' \subseteq Tabs /\ born \subseteq born'
         /\ born' = born \cup {t}
BY DEF TabsTyped, Create

\* A tool works on a tab that has existed.
LEMMA ActOnTyped ==
  ASSUME TabsTyped, NEW t \in born, ActOn(t), born \subseteq born'
  PROVE  /\ buses' \subseteq born /\ strayed' \subseteq born
         /\ acted' \in {"session", "other"}
<1>1. buses' \subseteq born
  BY DEF ActOn, EnsureBus, TabsTyped
<1>2. strayed' \subseteq strayed \cup buses'
  BY DEF ActOn, Stray
<1> QED BY <1>1, <1>2 DEF ActOn, TabsTyped

LEMMA SharedTabBorn ==
  ASSUME BlocksInv, TabsTyped, SharedActive
  PROVE  lines[sharedLine] \in born
<1>1. sharedLine \in OpenLines
  BY DEF BlocksInv, FramesTyped, Balanced, SharedActive
<1> QED BY <1>1 DEF TabsTyped, OpenLines

LEMMA TabsTypedNext ==
  ASSUME BlocksInv, TabsTyped, [TabNext]_tabVars
  PROVE  TabsTyped'
<1> USE TabAssumption
<1>1. DOMAIN lines = 1..MaxFrames /\ sharedLine \in 0..MaxFrames
  BY DEF BlocksInv, FramesTyped
<1>2. ASSUME NEW t \in born, MoveTo(t), UNCHANGED born PROVE
        /\ sessionTab' \in born' \cup {NoTab} /\ buses' \subseteq born' /\ strayed' \subseteq born'
  BY <1>2 DEF MoveTo, TabsTyped
<1>3. CASE UseShared
  <2>1. lines[sharedLine] \in born /\ ActOn(lines[sharedLine])
    BY <1>3, SharedTabBorn DEF UseShared
  <2>2. UNCHANGED <<mode, tabs, born, sessionTab, lines, opening>>
    BY <1>3 DEF UseShared
  <2>3. buses' \subseteq born /\ strayed' \subseteq born
    BY <2>1, <2>2, ActOnTyped
  <2> QED BY <2>2, <2>3 DEF TabsTyped
<1>4. ASSUME NEW t \in Tabs, AutoTab(t) PROVE TabsTyped'
  <2>1. Create(t) /\ ActOn(lines[sharedLine]) /\ lines[sharedLine] \in born
        /\ UNCHANGED <<mode, sessionTab, lines, opening>>
    BY <1>4, SharedTabBorn DEF AutoTab
  <2>2. buses' \subseteq born /\ strayed' \subseteq born
    BY <2>1, CreatedTyped, ActOnTyped
  <2> QED BY <2>1, <2>2, CreatedTyped, BornGrows DEF TabsTyped
<1>5. CASE KeepTab
  <2>1. opening' = [opening EXCEPT !.tab = sessionTab]
        /\ UNCHANGED <<mode, tabs, born, sessionTab, lines, buses, strayed>>
    BY <1>5 DEF KeepTab
  <2>2. opening' \in Openings(born \cup {NoTab})
    BY <2>1 DEF TabsTyped, Openings
  <2> QED BY <2>1, <2>2 DEF TabsTyped
<1>6. CASE SessionFails
  <2>1. sessionTab' \in {sessionTab, NoTab}
    BY <1>6 DEF SessionFails
  <2>2. opening' \in {[opening EXCEPT !.tries = 2, !.tab = NoTab], NotOpening}
    BY <1>6 DEF SessionFails
  <2>3. strayed' \subseteq strayed \cup buses'
    BY <1>6 DEF SessionFails, Stray
  <2>4. UNCHANGED <<mode, tabs, born, lines, buses>>
    BY <1>6 DEF SessionFails
  <2>5. [opening EXCEPT !.tries = 2, !.tab = NoTab] \in Openings(born \cup {NoTab})
    <3>1. [opening EXCEPT !.tries = 2, !.tab = NoTab] = [[opening EXCEPT !.tries = 2] EXCEPT !.tab = NoTab]
      OBVIOUS
    <3>2. [opening EXCEPT !.tries = 2] \in Openings(born \cup {NoTab})
      BY DEF TabsTyped, Openings
    <3> QED BY <3>1, <3>2 DEF Openings
  <2>6. NotOpening \in Openings(born \cup {NoTab})
    BY DEF NotOpening, Openings
  <2> QED BY <2>1, <2>2, <2>3, <2>4, <2>5, <2>6 DEF TabsTyped
<1>7. CASE SessionOpens
  <2>1. /\ opening.tab \in born /\ opening' = NotOpening /\ UNCHANGED <<mode, tabs, born, sessionTab>>
    BY <1>7 DEF SessionOpens, TabsTyped, Openings
  <2>2. NotOpening \in Openings(born \cup {NoTab})
    BY DEF NotOpening, Openings
  <2>3. CASE opening.why = "tool"
    <3>1. ActOn(opening.tab) /\ UNCHANGED lines
      BY <1>7, <2>3 DEF SessionOpens
    <3>2. buses' \subseteq born /\ strayed' \subseteq born
      BY <2>1, <3>1, ActOnTyped
    <3> QED BY <2>1, <2>2, <3>1, <3>2 DEF TabsTyped
  <2>4. CASE opening.why # "tool"
    <3>1. lines' = [lines EXCEPT ![Len(frames) + 1] = opening.tab] /\ UNCHANGED <<buses, strayed>>
      BY <1>7, <2>4 DEF SessionOpens
    <3>2. lines' \in [1..MaxFrames -> born \cup {NoTab}]
      BY <2>1, <3>1 DEF TabsTyped
    <3> QED BY <2>1, <2>2, <3>1, <3>2 DEF TabsTyped
  <2> QED BY <2>3, <2>4
<1>8. CASE Nest \/ HandleTabs \/ NewTabFails
  BY <1>8 DEF Nest, HandleTabs, NewTabFails, TabsTyped
<1>9. CASE Release
  <2>1. UNCHANGED <<mode, tabs, born, sessionTab, buses, strayed, opening>>
    BY <1>9 DEF Release
  <2>2. lines' = lines \/ lines' = [lines EXCEPT ![frames[Len(frames)].line] = NoTab]
    BY <1>9 DEF Release
  <2>3. lines' \in [1..MaxFrames -> born \cup {NoTab}]
    BY <2>2 DEF TabsTyped
  <2> QED BY <2>1, <2>3 DEF TabsTyped
<1>10. CASE SwitchTab
  <2>1. UNCHANGED <<mode, tabs, born, lines, opening>>
    BY <1>10 DEF SwitchTab
  <2>2. CASE UNCHANGED <<sessionTab, buses, strayed>>
    BY <2>1, <2>2 DEF TabsTyped
  <2>3. CASE TRUE \in Seen(Head(plan).tab) /\ MoveTo(Head(plan).tab)
    <3>1. Head(plan).tab \in born
      BY <2>3 DEF Seen, TabsTyped
    <3> QED BY <1>2, <2>1, <2>3, <3>1 DEF TabsTyped
  <2> QED BY <1>10, <2>2, <2>3 DEF SwitchTab
<1>11. ASSUME NEW t \in Tabs, NewTab(t) PROVE TabsTyped'
  <2>1. Create(t) /\ MoveTo(t) /\ UNCHANGED <<mode, lines, opening>>
    BY <1>11 DEF NewTab
  <2>2. /\ t \in born' /\ tabs' \subseteq born' /\ born' \subseteq Tabs /\ born \subseteq born'
    BY <2>1, CreatedTyped
  <2>3. sessionTab' = t /\ buses' \subseteq buses /\ strayed' \subseteq strayed
    BY <2>1 DEF MoveTo
  <2> QED BY <2>1, <2>2, <2>3, BornGrows DEF TabsTyped
<1>12. CASE CloseTab
  <2>1. UNCHANGED <<mode, born, lines, opening>>
    BY <1>12 DEF CloseTab
  <2>2. /\ tabs' \subseteq tabs /\ buses' \subseteq buses /\ strayed' \subseteq strayed
        /\ sessionTab' \in {sessionTab, NoTab}
    BY <1>12 DEF CloseTab
  <2> QED BY <2>1, <2>2 DEF TabsTyped
<1>13. CASE RecoverReset
  <2>1. /\ UNCHANGED <<mode, tabs, born, opening>> /\ sessionTab' = NoTab /\ buses' = {}
        /\ strayed' = {} /\ (lines' = lines \/ lines' = [lines EXCEPT ![sharedLine] = NoTab])
    BY <1>13 DEF RecoverReset, DropShared
  <2>2. lines' \in [1..MaxFrames -> born \cup {NoTab}]
    BY <2>1 DEF TabsTyped
  <2> QED BY <2>1, <2>2 DEF TabsTyped
<1>14. ASSUME NEW why \in {"tool", "hold"}, BeginSession(why) PROVE TabsTyped'
  <2>1. opening' = [why |-> why, tries |-> 1, tab |-> NoTab]
        /\ UNCHANGED <<mode, tabs, born, sessionTab, lines, buses, strayed>>
    BY <1>14 DEF BeginSession
  <2>2. opening' \in Openings(born \cup {NoTab})
    BY <2>1 DEF Openings
  <2> QED BY <2>1, <2>2 DEF TabsTyped
<1>15. ASSUME NEW t \in Tabs, ReplaceTab(t) PROVE TabsTyped'
  <2>1. /\ sessionTab' = t /\ opening' = [opening EXCEPT !.tab = t] /\ UNCHANGED <<mode, lines, buses>>
        /\ strayed' \subseteq strayed \cup buses
    BY <1>15 DEF ReplaceTab, Stray
  <2>2. Create(t) \/ (t \in tabs /\ UNCHANGED <<tabs, born>>)
    BY <1>15 DEF ReplaceTab
  <2>3. /\ t \in born' /\ tabs' \subseteq born' /\ born' \subseteq Tabs /\ born \subseteq born'
    BY <2>2, CreatedTyped DEF TabsTyped
  <2>4. opening' \in Openings(born' \cup {NoTab})
    <3>1. opening \in Openings(born' \cup {NoTab})
      BY <2>3, BornGrows
    <3> QED BY <2>1, <2>3, <3>1 DEF Openings
  <2>5. strayed \cup buses \subseteq born'
    BY <2>3, BornGrows
  <2>6. lines \in [1..MaxFrames -> born' \cup {NoTab}]
    BY <2>3, BornGrows
  <2> QED BY <2>1, <2>3, <2>4, <2>5, <2>6 DEF TabsTyped
<1>16. ASSUME NEW t \in Tabs, TabOpens(t) PROVE TabsTyped'
  <2>1. Create(t) /\ UNCHANGED <<mode, sessionTab, lines, buses, strayed, opening>>
    BY <1>16 DEF TabOpens
  <2> QED BY <2>1, CreatedTyped, BornGrows DEF TabsTyped
<1>17. ASSUME NEW t \in Tabs, TabGoes(t) PROVE TabsTyped'
  BY <1>17 DEF TabGoes, TabsTyped
<1>18. CASE UNCHANGED tabVars
  BY <1>18 DEF tabVars, TabsTyped
<1> QED BY <1>3, <1>4, <1>5, <1>6, <1>7, <1>8, <1>9, <1>10, <1>11, <1>12, <1>13, <1>14, <1>15, <1>16,
           <1>17, <1>18 DEF TabNext

LEMMA StepsTypedNext ==
  ASSUME BlocksInv, TabsTyped, StepsTyped, [TabNext]_tabVars
  PROVE  StepsTyped'
<1> USE DEF StepsTyped
<1>1. \A o \in {"switch", "new", "close", "reset"}, t \in Tabs \cup {NoTab} : Op(o, t) \in TabOp
  BY DEF Op, TabOp
<1>2. \A p \in Plans : p \in Seq(TabOp) /\ Len(p) <= 3
  <2>1. sessionTab \in Tabs \cup {NoTab} /\ born \subseteq Tabs
    BY DEF TabsTyped
  <2>2. \A a, b, c \in TabOp :
          /\ <<a>> \in Seq(TabOp) /\ Len(<<a>>) = 1
          /\ <<a, b>> \in Seq(TabOp) /\ Len(<<a, b>>) = 2
          /\ <<a, b, c>> \in Seq(TabOp) /\ Len(<<a, b, c>>) = 3
    OBVIOUS
  <2>3. ASSUME NEW p \in Plans
        PROVE  \E a, b, c \in TabOp : p \in {<<a>>, <<a, b>>, <<a, b, c>>}
    <3>1. /\ Op("new", NoTab) \in TabOp /\ Op("reset", NoTab) \in TabOp
          /\ Op("close", sessionTab) \in TabOp
          /\ \A t \in born : Op("switch", t) \in TabOp /\ Op("close", t) \in TabOp
      BY <1>1, <2>1
    <3> QED BY <3>1 DEF Plans
  <2> TAKE p \in Plans
  <2>4. PICK a \in TabOp, b \in TabOp, c \in TabOp : p \in {<<a>>, <<a, b>>, <<a, b, c>>}
    BY <2>3
  <2>5. CASE p = <<a>>
    BY <2>2, <2>5
  <2>6. CASE p = <<a, b>>
    BY <2>2, <2>6
  <2>7. CASE p = <<a, b, c>>
    BY <2>2, <2>7
  <2> QED BY <2>4, <2>5, <2>6, <2>7
<1>3. plan # <<>> => Tail(plan) \in Seq(TabOp) /\ Len(Tail(plan)) <= 3
  BY HeadTailProperties
<1>4. <<>> \in Seq(TabOp) /\ Len(<<>>) <= 3
  OBVIOUS
<1>5. ASSUME NEW t \in Tabs, ActOn(t) PROVE acted' \in {"session", "other"}
  BY <1>5 DEF ActOn
<1>6. SharedActive => lines[sharedLine] \in Tabs
  BY SharedTabBorn DEF TabsTyped
<1>7. CASE UseShared
  BY <1>5, <1>6, <1>7 DEF UseShared
<1>8. ASSUME NEW t \in Tabs, AutoTab(t) PROVE StepsTyped'
  <2>1. plan' = <<Op("switch", t)>> /\ Op("switch", t) \in TabOp
    BY <1>1, <1>8 DEF AutoTab
  <2>2. acted' \in {"session", "other"}
    BY <1>5, <1>6, <1>8 DEF AutoTab
  <2> QED BY <2>1, <2>2
<1>9. CASE SessionOpens
  <2>1. UNCHANGED plan /\ (acted' = acted \/ ActOn(opening.tab))
    BY <1>9 DEF SessionOpens
  <2>2. opening.tab \in Tabs
    BY <1>9 DEF SessionOpens, TabsTyped, Openings
  <2> QED BY <1>5, <2>1, <2>2
<1>10. CASE HandleTabs
  BY <1>2, <1>10 DEF HandleTabs
<1>11. CASE SwitchTab \/ CloseTab \/ RecoverReset \/ \E t \in Tabs : NewTab(t)
  <2>1. plan # <<>> /\ plan' \in {Tail(plan), <<>>} /\ UNCHANGED acted
    BY <1>11 DEF SwitchTab, CloseTab, RecoverReset, NewTab, Doing
  <2> QED BY <1>3, <1>4, <2>1
<1>12. CASE NewTabFails
  BY <1>4, <1>12 DEF NewTabFails
<1>13. CASE KeepTab \/ SessionFails \/ Nest \/ Release \/ \E why \in {"tool", "hold"} : BeginSession(why)
  BY <1>13 DEF KeepTab, SessionFails, Nest, Release, BeginSession
<1>14. CASE \E t \in Tabs : ReplaceTab(t) \/ TabOpens(t) \/ TabGoes(t)
  BY <1>14 DEF ReplaceTab, TabOpens, TabGoes
<1>15. CASE UNCHANGED tabVars
  BY <1>15 DEF tabVars
<1> QED BY <1>7, <1>8, <1>9, <1>10, <1>11, <1>12, <1>13, <1>14, <1>15 DEF TabNext

\* The session, its connections and its tabs keep their types and bounds (session_manager.py).
THEOREM TabTypeCorrect == TabSpec => []TabTypeOK
<1>1. TabInit => TabsTyped /\ StepsTyped
  <2> SUFFICES ASSUME TabInit PROVE TabsTyped /\ StepsTyped
    OBVIOUS
  <2>1. NotOpening \in Openings({NoTab}) /\ <<>> \in Seq(TabOp) /\ Len(<<>>) <= 3
    BY DEF NotOpening, Openings
  <2>2. [d \in 1..MaxFrames |-> NoTab] \in [1..MaxFrames -> {NoTab}]
    OBVIOUS
  <2>3. TabsTyped
    BY <2>1, <2>2 DEF TabInit, TabsTyped
  <2>4. StepsTyped
    BY <2>1 DEF TabInit, StepsTyped
  <2> QED BY <2>3, <2>4
<1>2. BlocksInv /\ TabsTyped /\ StepsTyped => TabTypeOK
  BY DEF BlocksInv, FramesTyped, Block, TabsTyped, Openings, StepsTyped, TabTypeOK
<1> QED BY <1>1, <1>2, BlocksInitInv, BlocksNextInv, TabsTypedNext, StepsTypedNext, PTL DEF TabSpec

-----------------------------------------------------------------------------
(* Types and bounds: the connection.                                       *)

\* What the proof about events and replies does not need: the socket, the method at work, and
\* the bounds.
ChannelFlags == isOpen \in BOOLEAN /\ doing.op \in {"none", "send", "wait", "drain"}
ChannelBounds ==
  /\ sent <= MaxCommands /\ emitted <= MaxEvents /\ Len(eventQueue) <= MaxEventQueue
  /\ unanswered \subseteq 1..sent

LEMMA ChannelFlagsNext ==
  ASSUME ChannelFlags, [ChannelNext]_channelVars
  PROVE  ChannelFlags'
<1> USE DEF ChannelFlags
<1>1. Resting.op = "none" /\ \A o, a : Do(o, a).op = o
  BY DEF Resting, Do
<1>2. CASE Abort
  BY <1>2 DEF Abort
<1>3. CASE Send
  BY <1>1, <1>3 DEF Send
<1>4. CASE RecvUntil
  BY <1>1, <1>4 DEF RecvUntil
<1>5. CASE WaitReads
  BY <1>1, <1>5 DEF WaitReads
<1>6. CASE GivesUp \/ DrainEvents \/ Broken
  BY <1>1, <1>6 DEF GivesUp, DrainEvents, Broken
<1>7. CASE DrainReads
  BY <1>1, <1>7 DEF DrainReads
<1>8. CASE \E id \in unanswered : BrowserAnswers(id)
  BY <1>8 DEF BrowserAnswers
<1>9. CASE \E name \in EventNames : BrowserEmits(name) \/ TakeEvent(name) \/ WaitForEvent(name)
  BY <1>1, <1>9 DEF BrowserEmits, TakeEvent, WaitForEvent
<1>10. CASE UNCHANGED channelVars
  BY <1>10 DEF channelVars
<1> QED BY <1>2, <1>3, <1>4, <1>5, <1>6, <1>7, <1>8, <1>9, <1>10 DEF ChannelNext

LEMMA ChannelBoundsNext ==
  ASSUME ChannelInv, ChannelBounds, [ChannelNext]_channelVars
  PROVE  ChannelBounds'
<1>1. /\ ChannelTyped /\ QueueInOrder /\ sent \in Nat /\ emitted \in Nat /\ Len(eventQueue) \in Nat
      /\ MaxCommands \in Nat /\ MaxEvents \in Nat /\ MaxEventQueue \in Nat
  BY ChannelAssumption DEF ChannelInv, ChannelTyped
<1>2. ASSUME UNCHANGED <<sent, emitted, unanswered>>, Len(eventQueue') <= MaxEventQueue
      PROVE  ChannelBounds'
  BY <1>2 DEF ChannelBounds
<1>3. ASSUME socket # << >>, IsEvent(Head(socket)), PushEvent(Head(socket)), UNCHANGED taken
      PROVE  Len(eventQueue') <= MaxEventQueue
  BY <1>1, <1>3, HeadIsNext, TailFacts, PushFacts DEF ChannelTyped
<1>4. UNCHANGED eventQueue => Len(eventQueue') <= MaxEventQueue
  BY DEF ChannelBounds
<1>5. CASE Send
  <2>1. /\ sent < MaxCommands /\ sent' = sent + 1 /\ UNCHANGED <<emitted, eventQueue>>
        /\ unanswered' \subseteq unanswered \cup {sent + 1}
    BY <1>5 DEF Send
  <2>2. unanswered \cup {sent + 1} \subseteq 1..sent + 1 /\ sent + 1 <= MaxCommands
    BY <1>1, <2>1 DEF ChannelBounds
  <2> QED BY <2>1, <2>2 DEF ChannelBounds
<1>6. CASE RecvUntil
  BY <1>2, <1>3, <1>4, <1>6 DEF RecvUntil
<1>7. CASE WaitReads
  BY <1>2, <1>3, <1>4, <1>7 DEF WaitReads
<1>8. CASE DrainReads
  BY <1>2, <1>3, <1>4, <1>8 DEF DrainReads
<1>9. CASE GivesUp \/ DrainEvents \/ Broken \/ Abort
  BY <1>2, <1>4, <1>9 DEF GivesUp, DrainEvents, Broken, Abort
<1>10. CASE \E id \in unanswered : BrowserAnswers(id)
  BY <1>10 DEF BrowserAnswers, ChannelBounds
<1>11. CASE \E name \in EventNames : BrowserEmits(name)
  BY <1>1, <1>11 DEF BrowserEmits, ChannelBounds
<1>12. CASE \E name \in EventNames : WaitForEvent(name)
  BY <1>2, <1>4, <1>12 DEF WaitForEvent
<1>13. CASE \E name \in EventNames : TakeEvent(name)
  <2>1. PICK name \in EventNames : TakeEvent(name)
    BY <1>13
  <2>2. Len(eventQueue') <= Len(eventQueue) /\ eventQueue' \in Seq(ChannelMessage)
    BY <1>1, <2>1, PopFacts DEF TakeEvent
  <2>3. Len(eventQueue') \in Nat
    BY <2>2
  <2> QED BY <1>1, <1>2, <2>1, <2>2, <2>3 DEF TakeEvent, ChannelBounds
<1>14. CASE UNCHANGED channelVars
  BY <1>2, <1>4, <1>14 DEF channelVars
<1> QED BY <1>5, <1>6, <1>7, <1>8, <1>9, <1>10, <1>11, <1>12, <1>13, <1>14 DEF ChannelNext

\* The connection's ids, events and queue keep their types and bounds; every event that is on
\* the way, taken or dropped is one that the browser has emitted (session_cdp.py).
THEOREM ChannelTypeCorrect == ChannelSpec => []ChannelTypeOK
<1>1. ChannelInit => ChannelFlags /\ ChannelBounds
  <2>1. MaxCommands \in Nat /\ MaxEvents \in Nat /\ MaxEventQueue \in Nat
    BY ChannelAssumption
  <2> QED BY <2>1 DEF ChannelInit, ChannelFlags, ChannelBounds, Resting
<1>2. ChannelInv /\ ChannelFlags /\ ChannelBounds => ChannelTypeOK
  <2> SUFFICES ASSUME ChannelInv, ChannelFlags, ChannelBounds PROVE ChannelTypeOK
    OBVIOUS
  <2>1. /\ sent \in Nat /\ emitted \in Nat /\ Len(sunk) \in Nat /\ Len(sunk) <= emitted
        /\ MaxCommands \in Nat /\ MaxEvents \in Nat
        /\ Numbers(socket) \ {0} = (Len(sunk) + 1)..emitted
        /\ Numbers(eventQueue) \cup taken \cup cut = 1..Len(sunk)
        /\ socket \in Seq(ChannelMessage)
    BY ChannelAssumption DEF ChannelInv, ChannelTyped, SocketInOrder, QueueInOrder
  <2>2. sent \in 0..MaxCommands /\ emitted \in 0..MaxEvents
    BY <2>1 DEF ChannelBounds
  <2>3. taken \subseteq 1..emitted /\ cut \subseteq 1..emitted
    BY <2>1
  <2>4. ASSUME NEW i \in DOMAIN socket, IsEvent(socket[i]) PROVE socket[i].event \in 1..emitted
    <3>1. socket[i].event \in Numbers(socket) /\ socket[i] \in ChannelMessage
      BY <2>1, ElementOfSeq DEF Numbers
    <3>2. socket[i].event # 0
      BY <2>4, <3>1 DEF IsEvent, ChannelMessage
    <3>3. socket[i].event \in (Len(sunk) + 1)..emitted
      BY <2>1, <3>1, <3>2
    <3> QED BY <2>1, <3>3
  <2> QED BY <2>2, <2>3, <2>4 DEF ChannelFlags, ChannelBounds, ChannelTypeOK
<1> QED BY <1>1, <1>2, ChannelInitInv, ChannelNextInv, ChannelFlagsNext, ChannelBoundsNext, PTL
        DEF ChannelSpec

-----------------------------------------------------------------------------
(* Types and bounds: dialogs.                                              *)

\* What the proof about alarms does not need: the flags of a run, and the bounds.
DialogFlags == autoDialog \in BOOLEAN /\ armed \in BOOLEAN /\ throttled \in BOOLEAN
DialogBounds ==
  /\ happened <= 2 * MaxDialogs /\ at \in Steps
  /\ handlers \in Nat /\ noters \in Nat /\ handlers + noters <= MaxWorkers

LEMMA DialogFlagsNext ==
  ASSUME DialogFlags, [DialogNext]_dialogVars
  PROVE  DialogFlags'
<1> USE DEF DialogFlags
<1>1. Schedule => throttled' \in BOOLEAN
  BY DEF Schedule
<1>2. \A n : Ingest(n) => throttled' \in BOOLEAN
  BY <1>1 DEF Ingest
<1>3. \A isIt : PopAndIngest(isIt) => throttled' \in BOOLEAN
  BY <1>2 DEF PopAndIngest
<1>4. CASE BusReads \/ ConnReads \/ DrainOpening \/ DrainClosed \/ RetryAfterDialog
  <2>1. UNCHANGED <<autoDialog, armed>>
    BY <1>4 DEF BusReads, ConnReads, DrainOpening, DrainClosed, RetryAfterDialog
  <2>2. throttled' \in BOOLEAN
    BY <1>2, <1>3, <1>4 DEF BusReads, ConnReads, DrainOpening, DrainClosed, RetryAfterDialog
  <2> QED BY <2>1, <2>2
<1>5. CASE PageDialog \/ BusReconnects \/ Throttle \/ Expire \/ WorkerHandles \/ WorkerNotes
  BY <1>5 DEF PageDialog, BusReconnects, Throttle, Expire, WorkerHandles, WorkerNotes
<1>6. CASE DrainBegins \/ EvalEnds \/ EvalTimesOut \/ CloseDialog
  BY <1>6 DEF DrainBegins, EvalEnds, EvalTimesOut, CloseDialog
<1>7. CASE Decide
  BY <1>1, <1>7 DEF Decide
<1>8. CASE DialogTool \/ ToolHandles \/ ToolNotes \/ ToolRecovers
  BY <1>8 DEF DialogTool, ToolHandles, ToolNotes, ToolRecovers
<1>9. CASE UNCHANGED dialogVars
  BY <1>9 DEF dialogVars
<1> QED BY <1>4, <1>5, <1>6, <1>7, <1>8, <1>9 DEF DialogNext

LEMMA DialogBoundsNext ==
  ASSUME DialogsTyped, DialogBounds, [DialogNext]_dialogVars
  PROVE  DialogBounds'
<1>1. /\ MaxDialogs \in Nat \ {0} /\ MaxWorkers \in Nat /\ happened \in Nat
      /\ handlers \in Nat /\ noters \in Nat /\ handlers + noters <= MaxWorkers
      /\ happened <= 2 * MaxDialogs /\ at \in Steps
  BY DialogAssumption DEF DialogsTyped, DialogBounds
<1>2. Schedule => handlers' \in Nat /\ handlers' + noters <= MaxWorkers
  BY <1>1 DEF Schedule
<1>3. \A n : Ingest(n) => handlers' \in Nat /\ handlers' + noters <= MaxWorkers
  BY <1>1, <1>2 DEF Ingest
<1>4. \A isIt : PopAndIngest(isIt) => handlers' \in Nat /\ handlers' + noters <= MaxWorkers
  BY <1>1, <1>3 DEF PopAndIngest
<1>5. Handle => happened' <= 2 * MaxDialogs
  <2>1. happened % 2 = 1 => happened # 2 * MaxDialogs
    BY <1>1
  <2> QED BY <1>1, <2>1 DEF Handle, DialogOpen, IsOpening
<1>6. ASSUME UNCHANGED <<happened, noters>>, handlers' \in Nat, handlers' + noters <= MaxWorkers,
             at' \in Steps
      PROVE  DialogBounds'
  BY <1>1, <1>6 DEF DialogBounds
<1>7. CASE BusReads \/ ConnReads
  BY <1>1, <1>3, <1>6, <1>7 DEF BusReads, ConnReads
<1>8. CASE DrainOpening \/ DrainClosed \/ RetryAfterDialog
  <2>1. UNCHANGED <<happened, noters>> /\ at' \in Steps
    BY <1>8 DEF DrainOpening, DrainClosed, RetryAfterDialog, Goto, Steps
  <2>2. handlers' \in Nat /\ handlers' + noters <= MaxWorkers
    BY <1>4, <1>8 DEF DrainOpening, DrainClosed, RetryAfterDialog
  <2> QED BY <1>6, <2>1, <2>2
<1>9. CASE PageDialog
  BY <1>1, <1>9 DEF PageDialog, DialogBounds
<1>10. CASE BusReconnects \/ Throttle \/ Expire
  BY <1>1, <1>6, <1>10 DEF BusReconnects, Throttle, Expire
<1>11. CASE WorkerHandles
  <2>1. handlers > 0 /\ handlers' = handlers - 1 /\ at' = at
    BY <1>11 DEF WorkerHandles
  <2>2. \/ Handle /\ noters' = noters + 1
        \/ UNCHANGED <<happened, noters>>
    BY <1>11 DEF WorkerHandles
  <2>3. happened' <= 2 * MaxDialogs
    BY <1>1, <1>5, <2>2
  <2>4. noters' = noters \/ noters' = noters + 1
    BY <2>2
  <2>6. handlers' \in Nat /\ handlers' = handlers - 1
    BY <1>1, <2>1
  <2>5. handlers' \in Nat /\ noters' \in Nat /\ handlers' + noters' <= MaxWorkers
    <3>1. CASE noters' = noters
      BY <1>1, <2>6, <3>1 DEF DialogBounds
    <3>2. CASE noters' = noters + 1
      BY <1>1, <2>6, <3>2 DEF DialogBounds
    <3> QED BY <2>4, <3>1, <3>2
  <2> QED BY <1>1, <2>1, <2>3, <2>5 DEF DialogBounds
<1>12. CASE WorkerNotes
  <2>1. noters > 0 /\ noters' = noters - 1 /\ UNCHANGED <<happened, handlers, at>>
    BY <1>12 DEF WorkerNotes
  <2> QED BY <1>1, <2>1 DEF DialogBounds
<1>13. CASE DrainBegins \/ EvalEnds \/ EvalTimesOut
  <2>1. UNCHANGED <<happened, handlers, noters>> /\ at' \in Steps
    BY <1>13 DEF DrainBegins, EvalEnds, EvalTimesOut, Goto, Steps
  <2> QED BY <1>1, <1>6, <2>1
<1>14. CASE Decide
  <2>1. UNCHANGED <<happened, noters>> /\ at' \in Steps
    BY <1>14 DEF Decide, Goto, Steps
  <2>2. Schedule \/ handlers' = handlers
    BY <1>14 DEF Decide
  <2> QED BY <1>1, <1>2, <1>6, <2>1, <2>2
<1>15. CASE CloseDialog
  <2>1. UNCHANGED <<handlers, noters>> /\ (Handle \/ UNCHANGED happened)
    BY <1>15 DEF CloseDialog
  <2>2. at' \in Steps
    BY <1>15 DEF CloseDialog, Goto, Steps
  <2> QED BY <1>1, <1>5, <2>1, <2>2 DEF DialogBounds
<1>16. CASE ToolHandles
  <2>1. UNCHANGED <<handlers, noters>> /\ (Handle \/ UNCHANGED happened)
    BY <1>16 DEF ToolHandles
  <2>2. at' \in Steps
    BY <1>16 DEF ToolHandles, Goto, Steps
  <2> QED BY <1>1, <1>5, <2>1, <2>2 DEF DialogBounds
<1>17. CASE DialogTool \/ ToolNotes
  <2>1. UNCHANGED <<happened, handlers, noters>> /\ at' \in Steps
    BY <1>17 DEF DialogTool, ToolNotes, Goto, Steps
  <2> QED BY <1>1, <1>6, <2>1
<1>18. CASE ToolRecovers
  <2>1. happened' = 0 /\ handlers' = 0 /\ noters' = 0 /\ at' \in Steps
    BY <1>18 DEF ToolRecovers, Goto, Steps
  <2> QED BY <1>1, <2>1 DEF DialogBounds
<1>19. CASE UNCHANGED dialogVars
  BY <1>1, <1>6, <1>19 DEF dialogVars
<1> QED BY <1>7, <1>8, <1>9, <1>10, <1>11, <1>12, <1>13, <1>14, <1>15, <1>16, <1>17, <1>18, <1>19
        DEF DialogNext

\* The dialogs of a tab, what has been read of them and the workers under way keep their types
\* and bounds (session_manager.py, telemetry.py).
THEOREM DialogTypeCorrect == DialogSpec => []DialogTypeOK
<1>1. DialogInit => DialogFlags /\ DialogBounds
  <2>1. MaxDialogs \in Nat /\ MaxWorkers \in Nat
    BY DialogAssumption
  <2> SUFFICES ASSUME DialogInit PROVE DialogFlags /\ DialogBounds
    OBVIOUS
  <2>2. DialogFlags
    BY DEF DialogInit, DialogFlags
  <2>3. happened = 0 /\ handlers = 0 /\ noters = 0 /\ at \in Steps
    BY DEF DialogInit, Steps
  <2> QED BY <2>1, <2>2, <2>3 DEF DialogBounds
<1>2. DialogsInv /\ DialogFlags /\ DialogBounds => DialogTypeOK
  <2> SUFFICES ASSUME DialogsInv, DialogFlags, DialogBounds PROVE DialogTypeOK
    OBVIOUS
  <2>1. DialogsTyped /\ BacklogRises /\ MaxDialogs \in Nat /\ MaxWorkers \in Nat
    BY DialogAssumption DEF DialogsInv, BacklogInv
  <2>2. happened \in 0..2 * MaxDialogs
    BY <2>1 DEF DialogsTyped, DialogBounds
  <2>3. handlers \in 0..MaxWorkers /\ noters \in 0..MaxWorkers /\ at \in Steps
    BY <2>1 DEF DialogBounds
  <2>4. backlog \in Seq(1..connSeen)
    <3>1. Len(backlog) \in Nat /\ backlog \in [1..Len(backlog) -> Nat]
          /\ DOMAIN backlog = 1..Len(backlog) /\ connSeen \in Nat
      BY <2>1 DEF DialogsTyped
    <3>2. \A i \in 1..Len(backlog) : backlog[i] \in 1..connSeen
      BY <2>1, <3>1 DEF BacklogRises, Members
    <3>3. backlog \in [1..Len(backlog) -> 1..connSeen]
      BY <3>1, <3>2
    <3> QED BY <3>1, <3>3, ItemsAreSeq
  <2> QED BY <2>1, <2>2, <2>3, <2>4 DEF DialogsTyped, DialogFlags, DialogTypeOK
<1>3. DialogsInv => DialogsTyped
  BY DEF DialogsInv
<1> QED BY <1>1, <1>2, <1>3, DialogInitInv, DialogNextInv, DialogFlagsNext, DialogBoundsNext, PTL
        DEF DialogSpec

-----------------------------------------------------------------------------
(* Types and bounds: the events of the bridge.                             *)

\* What the proof about delivery does not need: bounds on what is sent, on the connections and
\* on the queues.
SentBounds ==
  /\ Len(kinds) <= MaxEmitted /\ sending.event <= Len(kinds) /\ hostEnds \in 0..MaxHostEnds
LinkRecords == EventPeers \X (1..MaxPeerDials)
LinkBounds ==
  /\ \A p \in EventPeers : dials[p] <= MaxPeerDials
  /\ sending.to \subseteq LinkRecords /\ subscribers \subseteq LinkRecords
  /\ ending \subseteq LinkRecords
QueueBounds == \A p \in EventPeers : Len(tabQueue[p]) <= MaxTabQueue

LEMMA NewestFits ==
  ASSUME NEW q \in Seq(Nat)
  PROVE  Len(NewestEvents(q)) <= MaxTabQueue
<1>1. MaxTabQueue \in Nat /\ Len(q) \in Nat
  BY BridgeEventsAssumption
<1>2. CASE Len(q) > MaxTabQueue
  <2> DEFINE m == Len(q) - MaxTabQueue + 1
             r == SubSeq(q, m, Len(q))
  <2>1. NewestEvents(q) = r
    BY <1>2 DEF NewestEvents
  <2>2. m \in 1..Len(q) + 1 /\ Len(q) \in m - 1..Len(q) /\ Len(q) - m + 1 = MaxTabQueue
    BY <1>1, <1>2
  <2> HIDE DEF m
  <2>3. Len(r) = Len(q) - m + 1
    BY <2>2, SubSeqProperties
  <2> QED BY <1>1, <2>1, <2>2, <2>3
<1>3. CASE ~(Len(q) > MaxTabQueue)
  BY <1>1, <1>3 DEF NewestEvents
<1> QED BY <1>2, <1>3

LEMMA CutShorter ==
  ASSUME NEW q \in Seq(Nat), NEW i \in DOMAIN q
  PROVE  LET r == SubSeq(q, 1, i - 1) \o SubSeq(q, i + 1, Len(q))
         IN  Len(r) \in Nat /\ Len(r) <= Len(q)
<1> DEFINE n == i + 1
           a == SubSeq(q, 1, i - 1)
           b == SubSeq(q, n, Len(q))
<1>1. Len(q) \in Nat /\ i \in 1..Len(q)
  OBVIOUS
<1>2. a \in Seq(Nat) /\ Len(a) = i - 1
  BY <1>1, SubSeqProperties
<1>3. n \in 1..Len(q) + 1 /\ Len(q) \in n - 1..Len(q) /\ Len(q) - n + 1 = Len(q) - i
  BY <1>1
<1> HIDE DEF n
<1>4. b \in Seq(Nat) /\ Len(b) = Len(q) - n + 1
  BY <1>3, SubSeqProperties
<1> HIDE DEF a, b
<1>5. Len(a \o b) = Len(a) + Len(b)
  BY <1>2, <1>4, ConcatProperties
<1>6. Len(a) + Len(b) = Len(q) - 1 /\ Len(q) - 1 \in Nat
  BY <1>1, <1>2, <1>3, <1>4
<1>7. Len(a \o b) \in Nat /\ Len(a \o b) <= Len(q)
  BY <1>1, <1>5, <1>6
<1> QED BY <1>7 DEF a, b, n

LEMMA SentBoundsNext ==
  ASSUME PipeInOrder, sending.event \in Nat, SentBounds, [EventNext]_bridgeEventVars
  PROVE  SentBounds'
<1>1. /\ kinds \in Seq(EventKinds) /\ Len(kinds) \in Nat /\ Len(hostPipe) <= Len(kinds)
      /\ MaxEmitted \in Nat /\ MaxHostEnds \in Nat /\ NoBroadcast.event = 0
  BY BridgeEventsAssumption DEF PipeInOrder, NoBroadcast
<1>2. CASE \E k \in EventKinds : ForwardEvent(k)
  <2>1. PICK k \in EventKinds : ForwardEvent(k)
    BY <1>2
  <2>2. kinds' = Append(kinds, k) /\ UNCHANGED <<sending, hostEnds>> /\ Len(kinds) < MaxEmitted
    BY <2>1 DEF ForwardEvent
  <2>3. Len(kinds') = Len(kinds) + 1
    BY <1>1, <2>2, AppendProperties
  <2> QED BY <1>1, <2>2, <2>3 DEF SentBounds
<1>3. CASE BroadcastBegins
  <2>1. /\ hostPipe # << >> /\ UNCHANGED <<kinds, hostEnds>>
        /\ sending'.event = Head(hostPipe)
    BY <1>3 DEF BroadcastBegins
  <2>2. Head(hostPipe) = hostPipe[1] /\ Len(hostPipe) \in Nat \ {0}
    BY <2>1, EmptySeq, HeadTailProperties DEF PipeInOrder
  <2>3. hostPipe[1] = Upto + 1 /\ Upto + 1 <= Len(kinds)
    BY <1>1, <2>2 DEF PipeInOrder, Upto
  <2> QED BY <2>1, <2>2, <2>3 DEF SentBounds
<1>4. CASE BroadcastToNobody
  BY <1>1, <1>4 DEF BroadcastToNobody, toHost, SentBounds
<1>5. CASE HostEnds
  BY <1>1, <1>5 DEF HostEnds, SentBounds
<1>6. CASE \E r \in sending.to : BroadcastTo(r)
  <2>1. UNCHANGED <<kinds, hostEnds>> /\ (sending' = NoBroadcast \/ sending'.event = sending.event)
    BY <1>6 DEF BroadcastTo, toHost
  <2> QED BY <1>1, <2>1 DEF SentBounds
<1>7. CASE \/ \E r \in ending : HostSeesEnd(r)
           \/ \E p \in EventPeers :
                \/ SubscribeIfTab(p) \/ DialHost(p) \/ EndOfStream(p) \/ GiveUpLink(p)
                \/ TakeIn(p)
                \/ \E k \in EventKinds : PopOfKind(p, k)
  <2>1. UNCHANGED <<kinds, hostEnds, sending>>
    BY <1>7 DEF HostSeesEnd, SubscribeIfTab, DialHost, EndOfStream, GiveUpLink, TakeIn, PopOfKind,
                toHost
  <2> QED BY <2>1 DEF SentBounds
<1>8. CASE UNCHANGED bridgeEventVars
  BY <1>8 DEF bridgeEventVars, toHost, SentBounds
<1> QED BY <1>2, <1>3, <1>4, <1>5, <1>6, <1>7, <1>8 DEF EventNext

LEMMA LinkBoundsNext ==
  ASSUME LinksTyped, SendingLast, LinkBounds, [EventNext]_bridgeEventVars
  PROVE  LinkBounds'
<1>1. /\ dials \in [EventPeers -> Nat] /\ records \in [EventPeers -> Nat] /\ MaxPeerDials \in Nat
      /\ NoBroadcast.to = {}
      /\ \A p \in EventPeers : /\ records[p] <= dials[p] /\ dials[p] <= MaxPeerDials
                               /\ hostLink[p] = "up" => dials[p] # 0
  BY BridgeEventsAssumption DEF LinksTyped, LinkBounds, NoBroadcast
<1>2. \A p \in EventPeers : /\ records[p] # 0 => <<p, records[p]>> \in LinkRecords
                            /\ hostLink[p] = "up" => RecordOf(p) \in LinkRecords
  BY <1>1 DEF LinkRecords, RecordOf
<1>3. ASSUME UNCHANGED dials, sending'.to \subseteq LinkRecords, subscribers' \subseteq LinkRecords,
             ending' \subseteq LinkRecords
      PROVE  LinkBounds'
  BY <1>1, <1>3 DEF LinkBounds, LinkRecords
<1>4. CASE BroadcastBegins
  <2>1. /\ UNCHANGED <<dials, subscribers, ending>>
        /\ sending'.to = {<<p, records[p]>> : p \in {q \in EventPeers : records[q] # 0}}
    BY <1>4 DEF BroadcastBegins, links
  <2>2. sending'.to \subseteq LinkRecords
    BY <1>2, <2>1
  <2> QED BY <1>3, <2>1, <2>2 DEF LinkBounds
<1>5. CASE BroadcastToNobody
  BY <1>1, <1>3, <1>5 DEF BroadcastToNobody, links, LinkBounds
<1>6. CASE HostEnds
  BY <1>1, <1>3, <1>6 DEF HostEnds
<1>7. CASE \E r \in sending.to : BroadcastTo(r)
  <2>1. PICK r \in sending.to : BroadcastTo(r)
    BY <1>7
  <2>2. UNCHANGED <<dials, subscribers, ending>>
    BY <2>1 DEF BroadcastTo, links
  <2>3. sending' = NoBroadcast \/ sending' = [sending EXCEPT !.to = GoesOn(r)]
    BY <2>1 DEF BroadcastTo
  <2>4. sending'.to \subseteq sending.to
    BY <1>1, <2>3 DEF GoesOn, SendingLast
  <2> QED BY <1>3, <2>2, <2>4 DEF LinkBounds
<1>8. CASE \E r \in ending : HostSeesEnd(r)
  BY <1>3, <1>8 DEF HostSeesEnd, LinkBounds
<1>9. ASSUME NEW p \in EventPeers, SubscribeIfTab(p) PROVE LinkBounds'
  BY <1>2, <1>3, <1>9 DEF SubscribeIfTab, LinkBounds
<1>10. ASSUME NEW p \in EventPeers, GiveUpLink(p) PROVE LinkBounds'
  <2>1. ending' \subseteq LinkRecords
    BY <1>2, <1>10 DEF GiveUpLink, LinkBounds
  <2> QED BY <1>3, <1>10, <2>1 DEF GiveUpLink, LinkBounds
<1>11. ASSUME NEW p \in EventPeers, DialHost(p) PROVE LinkBounds'
  <2>1. dials[p] < MaxPeerDials /\ dials' = [dials EXCEPT ![p] = @ + 1]
        /\ UNCHANGED <<sending, subscribers, ending>>
    BY <1>11 DEF DialHost
  <2>2. ASSUME NEW q \in EventPeers PROVE dials'[q] <= MaxPeerDials
    <3>1. CASE q = p
      BY <1>1, <2>1, <3>1
    <3>2. CASE q # p
      BY <1>1, <2>1, <3>2
    <3> QED BY <3>1, <3>2
  <2> QED BY <2>1, <2>2 DEF LinkBounds, LinkRecords
<1>12. CASE \/ \E k \in EventKinds : ForwardEvent(k)
            \/ \E p \in EventPeers : \/ EndOfStream(p) \/ TakeIn(p)
                                     \/ \E k \in EventKinds : PopOfKind(p, k)
  <2>1. UNCHANGED <<dials, subscribers, ending, sending>>
    BY <1>12 DEF ForwardEvent, EndOfStream, TakeIn, PopOfKind, links
  <2> QED BY <1>3, <2>1 DEF LinkBounds
<1>13. CASE UNCHANGED bridgeEventVars
  BY <1>3, <1>13 DEF bridgeEventVars, links, LinkBounds
<1> QED BY <1>4, <1>5, <1>6, <1>7, <1>8, <1>9, <1>10, <1>11, <1>12, <1>13 DEF EventNext

LEMMA QueueBoundsNext ==
  ASSUME StreamsTyped, QueueBounds, [EventNext]_bridgeEventVars
  PROVE  QueueBounds'
<1>1. MaxTabQueue \in Nat /\ tabQueue \in [EventPeers -> Seq(Nat)]
  BY BridgeEventsAssumption DEF StreamsTyped
<1>2. ASSUME NEW p \in EventPeers, NEW q, Len(q) <= MaxTabQueue,
             tabQueue' = [tabQueue EXCEPT ![p] = q]
      PROVE  QueueBounds'
  BY <1>1, <1>2 DEF QueueBounds
<1>3. ASSUME NEW p \in EventPeers, TakeIn(p) PROVE QueueBounds'
  <2>1. /\ arriving[p] # << >> /\ arriving[p] \in Seq(Nat) /\ tabQueue[p] \in Seq(Nat)
        /\ tabQueue' = [tabQueue EXCEPT ![p] = NewestEvents(Append(tabQueue[p], Head(arriving[p])))]
    BY <1>3 DEF TakeIn, StreamsTyped
  <2>2. Append(tabQueue[p], Head(arriving[p])) \in Seq(Nat)
    BY <2>1, EmptySeq, HeadTailProperties, AppendProperties
  <2>3. Len(NewestEvents(Append(tabQueue[p], Head(arriving[p])))) <= MaxTabQueue
    BY <2>2, NewestFits
  <2> QED BY <1>2, <2>1, <2>3
<1>4. ASSUME NEW p \in EventPeers, NEW k, PopOfKind(p, k) PROVE QueueBounds'
  <2>1. PICK i \in OfKind(p, k) :
          tabQueue' = [tabQueue EXCEPT ![p] = SubSeq(tabQueue[p], 1, i - 1)
                                                \o SubSeq(tabQueue[p], i + 1, Len(tabQueue[p]))]
    BY <1>4 DEF PopOfKind
  <2>2. i \in DOMAIN tabQueue[p] /\ tabQueue[p] \in Seq(Nat) /\ Len(tabQueue[p]) \in Nat
    BY <1>1 DEF OfKind
  <2> DEFINE r == SubSeq(tabQueue[p], 1, i - 1) \o SubSeq(tabQueue[p], i + 1, Len(tabQueue[p]))
  <2>3. Len(r) \in Nat /\ Len(r) <= Len(tabQueue[p])
    BY <2>2, CutShorter
  <2> HIDE DEF r
  <2>4. Len(r) <= MaxTabQueue
    BY <1>1, <2>2, <2>3 DEF QueueBounds
  <2>5. tabQueue' = [tabQueue EXCEPT ![p] = r]
    BY <2>1 DEF r
  <2> QED BY <1>2, <2>4, <2>5
<1>5. CASE \/ \E k \in EventKinds : ForwardEvent(k)
           \/ BroadcastBegins \/ BroadcastToNobody \/ HostEnds
           \/ \E r \in sending.to : BroadcastTo(r)
           \/ \E r \in ending : HostSeesEnd(r)
           \/ \E p \in EventPeers : SubscribeIfTab(p) \/ DialHost(p) \/ EndOfStream(p) \/ GiveUpLink(p)
  <2>1. UNCHANGED tabQueue
    BY <1>5 DEF ForwardEvent, BroadcastBegins, BroadcastToNobody, HostEnds, BroadcastTo, HostSeesEnd,
                SubscribeIfTab, DialHost, EndOfStream, GiveUpLink, atPeers
  <2> QED BY <2>1 DEF QueueBounds
<1>6. CASE UNCHANGED bridgeEventVars
  BY <1>6 DEF bridgeEventVars, atPeers, QueueBounds
<1> QED BY <1>3, <1>4, <1>5, <1>6 DEF EventNext

\* The events, the connections and the queues that they go through keep their types and bounds
\* (native_broker.py, extension_gateway_native_peer.py).
THEOREM EventTypeCorrect == EventSpec => []EventTypeOK
<1>1. EventInit => SentBounds /\ LinkBounds /\ QueueBounds
  <2>1. {MaxTabQueue, MaxEmitted, MaxPeerDials, MaxHostEnds} \subseteq Nat
    BY BridgeEventsAssumption
  <2> SUFFICES ASSUME EventInit PROVE SentBounds /\ LinkBounds /\ QueueBounds
    OBVIOUS
  <2>2. SentBounds
    BY <2>1 DEF EventInit, SentBounds, NoBroadcast
  <2>3. LinkBounds
    BY <2>1 DEF EventInit, LinkBounds, NoBroadcast
  <2>4. QueueBounds
    BY <2>1 DEF EventInit, QueueBounds
  <2> QED BY <2>2, <2>3, <2>4
<1>2. EventInv /\ SentBounds /\ LinkBounds /\ QueueBounds => EventTypeOK
  <2> SUFFICES ASSUME EventInv, SentBounds, LinkBounds, QueueBounds PROVE EventTypeOK
    OBVIOUS
  <2>1. /\ LinksTyped /\ sending.event \in Nat /\ Len(kinds) \in Nat
        /\ MaxPeerDials \in Nat
    BY BridgeEventsAssumption DEF EventInv, SendingLast, PipeInOrder
  <2>2. sending.event \in 0..Len(kinds)
    BY <2>1 DEF SentBounds
  <2>3. dials \in [EventPeers -> 0..MaxPeerDials]
    BY <2>1 DEF LinksTyped, LinkBounds
  <2>4. records \in [EventPeers -> 0..MaxPeerDials]
    BY <2>1 DEF LinksTyped, LinkBounds
  <2>5. {sending.to, subscribers, ending} \subseteq SUBSET (EventPeers \X (1..MaxPeerDials))
    BY DEF LinkBounds, LinkRecords
  <2> QED BY <2>1, <2>2, <2>3, <2>4, <2>5 DEF SentBounds, QueueBounds, LinksTyped, EventTypeOK
<1>3. EventInv => PipeInOrder /\ sending.event \in Nat /\ SendingLast /\ LinksTyped /\ StreamsTyped
  BY DEF EventInv, SendingLast
<1> QED BY <1>1, <1>2, <1>3, EventInitInv, EventNextInv, SentBoundsNext, LinkBoundsNext,
           QueueBoundsNext, PTL DEF EventSpec
=============================================================================
