-------------------------- MODULE MCExtensionWorker --------------------------
(* Small instances of ExtensionWorker for TLC.                             *)
EXTENDS ExtensionWorker, TLC

\* Tabs and slots are interchangeable.
TabSlotSymmetry == Permutations(Tabs) \cup Permutations(Slots)

\* No requests; calls alone and batches that mix guarded and unguarded ones.
NoBatches == {}
SomeBatches ==
  {<<"cdp.send">>, <<"tabs.create">>, <<"cdp.sendMany">>, <<"clipboard", "cdp.send">>,
   <<"tabs.close", "cdp.send">>}
=============================================================================
