--------------------------- MODULE ResourceTimings ---------------------------
(***************************************************************************)
(* The list of what a page has loaded, which the script in the page makes  *)
(* from the page's resource timings and keeps for a second, with one       *)
(* sorted copy for each order that was asked for (diagnostics.py,          *)
(* resources; tools/page/resources.py).                                    *)
(*                                                                         *)
(* Time counts half seconds.  Of the two orders modelled, one is the order *)
(* of the beginnings, the other its reverse.                               *)
(***************************************************************************)
EXTENDS Naturals, Sequences, FiniteSets

CONSTANTS
  CacheTime,       \* half seconds for which a list is used again: 2
  MaxTimings,      \* timings that the browser keeps for a page
  MaxResources, MaxTimingTime, MaxAsks   \* bounds

ASSUME TimingsAssumption ==
  /\ {CacheTime, MaxTimings, MaxResources, MaxAsks} \subseteq Nat
  /\ MaxTimingTime \in Nat \ {0}

VARIABLES
  timingTime,
  timings,     \* the page's entries: number and beginning, in the order of both
  cache,       \* __mcpDiagResourceCache
  fetchedCount, asks,
  \* history
  emptied,     \* the page has cleared its timings since the cache was made
  listing       \* the last answer: its items, those due, and whether the page had emptied

timingVars == <<timingTime, timings, cache, fetchedCount, asks, emptied, listing>>

SortOrders == {"start", "size"}
NoList == << >>
NoCache == [mapped |-> NoList, builtAt |-> 0, made |-> FALSE,
            sorted |-> [o \in SortOrders |-> NoList]]

TimingInit ==
  /\ timingTime = 1 /\ timings = << >> /\ cache = NoCache /\ fetchedCount = 0 /\ asks = 0
  /\ emptied = FALSE /\ listing = [items |-> NoList, due |-> NoList, emptied |-> FALSE]

-----------------------------------------------------------------------------
(* The page                                                                *)

\* A resource is loaded; the browser records it while its buffer has room.
ResourceLoads ==
  /\ fetchedCount < MaxResources /\ fetchedCount' = fetchedCount + 1
  /\ timings' = IF Len(timings) < MaxTimings
                THEN Append(timings, [id |-> fetchedCount', at |-> timingTime]) ELSE timings
  /\ UNCHANGED <<timingTime, cache, asks, emptied, listing>>

\* performance.clearResourceTimings().
PageClearsTimings ==
  /\ timings # << >> /\ timings' = << >> /\ emptied' = TRUE
  /\ UNCHANGED <<timingTime, cache, fetchedCount, asks, listing>>

NextPage ==
  /\ timings # << >> \/ cache.made
  /\ timings' = << >> /\ cache' = NoCache /\ emptied' = FALSE
  /\ UNCHANGED <<timingTime, fetchedCount, asks, listing>>

TimingTick ==
  /\ timingTime < MaxTimingTime /\ timingTime' = timingTime + 1
  /\ UNCHANGED <<timings, cache, fetchedCount, asks, emptied, listing>>

-----------------------------------------------------------------------------
(* resources                                                               *)

Ordered(list, order) ==
  IF order = "start" THEN list ELSE [i \in DOMAIN list |-> list[Len(list) + 1 - i]]

CanUseCache ==
  /\ cache.made /\ Len(cache.mapped) = Len(timings)
  /\ timingTime - cache.builtAt < CacheTime

\* Mutant: a new list leaves the sorted copies of the old one.
SortedKept == [mapped |-> timings, builtAt |-> timingTime, made |-> TRUE,
               sorted |-> cache.sorted]

\* The cache that answers: as it is, or made anew.
Rebuilt == [mapped |-> timings, builtAt |-> timingTime, made |-> TRUE,
            sorted |-> [o \in SortOrders |-> NoList]]
Current == IF CanUseCache THEN cache ELSE Rebuilt

\* A copy in this order, made when there is none.  (An empty copy is made again.)
InOrder(c, order) == IF c.sorted[order] # NoList THEN c.sorted[order]
                     ELSE Ordered(c.mapped, order)

NewerThan(list, since) == SelectSeq(list, LAMBDA r : r.at > since)

\* page(detail="resources" or "diagnostics", sort=order, since=cursor).
AskResources(order, since) ==
  /\ asks < MaxAsks /\ asks' = asks + 1
  /\ cache' = [Current EXCEPT !.sorted[order] = InOrder(Current, order)]
  /\ emptied' = (CanUseCache /\ emptied)
  /\ listing' = [items |-> NewerThan(InOrder(Current, order), since),
                due |-> NewerThan(Ordered(timings, order), since), emptied |-> emptied']
  /\ UNCHANGED <<timingTime, timings, fetchedCount>>

\* With a dialog open, or where the script cannot be put into the page, the answer is the
\* telemetry's.
AskWithoutScript ==
  /\ asks < MaxAsks /\ asks' = asks + 1
  /\ listing' = [items |-> NoList, due |-> NoList, emptied |-> FALSE]
  /\ UNCHANGED <<timingTime, timings, cache, fetchedCount, emptied>>

TimingNext ==
  \/ ResourceLoads \/ PageClearsTimings \/ NextPage \/ TimingTick \/ AskWithoutScript
  \/ \E order \in SortOrders, since \in 0..MaxTimingTime : AskResources(order, since)

TimingSpec == TimingInit /\ [][TimingNext]_timingVars

-----------------------------------------------------------------------------
TimingTypeOK ==
  /\ timingTime \in 1..MaxTimingTime /\ fetchedCount \in 0..MaxResources /\ asks \in 0..MaxAsks
  /\ \A i \in DOMAIN timings : timings[i].at \in 1..timingTime
  /\ cache.builtAt \in 0..timingTime /\ {cache.made, emptied} \subseteq BOOLEAN
  /\ DOMAIN cache.sorted = SortOrders /\ Len(timings) <= MaxTimings

\* However the calls with different orders and cursors follow one another, and whatever the
\* page loads between them, each is answered with what the page has loaded at that moment,
\* although lists and sorted copies are used again (diagnostics.py, resources).  Of a page
\* that clears its timings the old list may be answered, for a second, if as many are there again.
ListIsCurrent == listing.emptied \/ listing.items = listing.due
=============================================================================
