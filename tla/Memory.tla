------------------------------- MODULE Memory -------------------------------
(***************************************************************************)
(* The agent's memory: a store of keys in each server process              *)
(* (session_manager.py), the file all of them share                        *)
(* (agent_memory_persist.py), and the calls of browser(memory), run and    *)
(* runbook that use them.  A server may crash at any step of a save.       *)
(*                                                                         *)
(* Times are left out: the keys that leave a full store, the oldest in the *)
(* code, are any keys here.  The copy in agent_memory.json.bak is never    *)
(* read, and is left out too.                                              *)
(***************************************************************************)
EXTENDS Naturals, FiniteSets, FiniteSetsExt

CONSTANTS
  Servers,        \* processes that share the file
  Keys,
  SensitiveKeys,  \* is_sensitive_key
  KeyLimits,      \* values of max_keys in calls
  MaxWrites,      \* bound: values set
  MaxCrashes      \* bound: crashes

ASSUME MemoryAssumption ==
  /\ SensitiveKeys \subseteq Keys /\ IsFiniteSet(Keys) /\ Servers # {}
  /\ KeyLimits \subseteq Nat \ {0} /\ KeyLimits # {}
  /\ MaxWrites \in Nat /\ MaxCrashes \in Nat

VARIABLES
  memory,   \* server -> _agent_memory: key -> value, 0 if it has none
  saving,   \* server -> the entries its save is to write, in a set, or none
  handle,   \* server -> the file it has open for writing: "no", "temp", "file",
            \* "lost", and "written" when it has ended
  file,     \* agent_memory.json
  temp,     \* agent_memory.json.tmp
  writes,   \* number of values set, and the last of them
  crashes,
  \* history
  saved,    \* what the last save to end was to write
  tangled   \* two servers were writing the temporary file at a time

memoryVars ==
  <<memory, saving, handle, file, temp, writes, crashes, saved, tangled>>

Stores == [Keys -> 0..MaxWrites]
Empty == [k \in Keys |-> 0]
Held(m) == {k \in Keys : m[k] # 0}

\* A file: no file, one that is written to, or a snapshot.
Missing == [text |-> "none", items |-> Empty]
Partial == [text |-> "partial", items |-> Empty]
Whole(m) == [text |-> "whole", items |-> m]

MemoryInit ==
  /\ memory = [s \in Servers |-> Empty] /\ saving = [s \in Servers |-> {}]
  /\ handle = [s \in Servers |-> "no"] /\ file = Missing /\ temp = Missing
  /\ writes = 0 /\ crashes = 0 /\ saved = Missing
  /\ tangled = FALSE

-----------------------------------------------------------------------------
(* Entries                                                                 *)

Only(m, keys) == [k \in Keys |-> IF k \in keys THEN m[k] ELSE 0]

\* memory_export_entries: of a prefix, without sensitive keys unless they are allowed.
Exported(m, prefix, allow) == Only(m, IF allow THEN prefix ELSE prefix \ SensitiveKeys)

\* A prefix stands for the keys that have it.
KeyPrefixes == {Keys} \cup {{k} : k \in Keys}

\* Over max_keys, the oldest keys leave.
Evicted(m, limit) ==
  IF Cardinality(Held(m)) <= limit THEN {m}
  ELSE {Only(m, kept) : kept \in kSubset(limit, Held(m))}

\* memory_set, of a key and a value that it takes.
SetKey(m, k, value, limit) == Evicted([m EXCEPT ![k] = value], limit)

\* memory_delete, memory_clear.
Without(m, keys) == Only(m, Keys \ keys)

\* memory_import_entries: the new entries are set one by one, into an empty store with
\* replace.
Imported(m, new, replace, limit) ==
  LET all == [k \in Keys |-> IF new[k] # 0 THEN new[k] ELSE IF replace THEN 0 ELSE m[k]]
  IN  IF Held(new) = {} THEN {all} ELSE Evicted(all, limit)

\* load_items: {} for a file that is missing or cannot be read.
Loaded == file.items

-----------------------------------------------------------------------------
(* save_items                                                              *)

AtRest(s) == saving[s] = {}

BeginSave(s, m, allow) ==
  saving' = [saving EXCEPT ![s] = {Exported(m, Keys, allow)}]
NoSave == UNCHANGED saving
fileVars == <<handle, file, temp, tangled, saved>>

\* Mutant: the file is written in place.
OpenFile(s) ==
  /\ ~AtRest(s) /\ handle[s] = "no"
  /\ file' = Partial /\ temp' = Partial /\ handle' = [handle EXCEPT ![s] = "temp"]
  /\ tangled' = (tangled \/ \E t \in Servers \ {s} : handle[t] # "no")
  /\ UNCHANGED <<memory, saving, writes, crashes, saved>>

\* tmp.write_text opens the file, which empties it,
OpenTemp(s) ==
  /\ ~AtRest(s) /\ handle[s] = "no"
  /\ temp' = Partial /\ handle' = [handle EXCEPT ![s] = "temp"]
  /\ tangled' = (tangled \/ \E t \in Servers \ {s} : handle[t] # "no")
  /\ UNCHANGED <<memory, saving, file, writes, crashes, saved>>

\* and writes the text; over that of another server, of which a rest may be left.
Over(f, m) == IF f = Partial THEN {Whole(m)} ELSE {Whole(m), Partial}

WriteTemp(s) ==
  /\ ~AtRest(s) /\ handle[s] \in {"temp", "file", "lost"}
  /\ \E m \in saving[s] :
       /\ temp' \in IF handle[s] = "temp" THEN Over(temp, m) ELSE {temp}
       /\ file' \in IF handle[s] = "file" THEN Over(file, m) ELSE {file}
  /\ handle' = [handle EXCEPT ![s] = "written"]
  /\ UNCHANGED <<memory, saving, writes, crashes, saved, tangled>>

\* tmp.replace(p); a server that has the file open goes on writing to it.
Replace(s) ==
  /\ handle[s] = "written" /\ temp # Missing
  /\ file' = temp /\ temp' = Missing
  /\ \E m \in saving[s] : saved' = Whole(m)
  /\ saving' = [saving EXCEPT ![s] = {}]
  /\ handle' = [t \in Servers |->
       IF t = s THEN "no"
       ELSE CASE handle[t] = "temp" -> "file"
              [] handle[t] = "file" -> "lost"
              [] OTHER              -> handle[t]]
  /\ UNCHANGED <<memory, writes, crashes, tangled>>

\* Another server has replaced it: the call ends with an error.
ReplaceFails(s) ==
  /\ handle[s] = "written" /\ temp = Missing
  /\ saving' = [saving EXCEPT ![s] = {}] /\ handle' = [handle EXCEPT ![s] = "no"]
  /\ UNCHANGED <<memory, file, temp, writes, crashes, saved, tangled>>

-----------------------------------------------------------------------------
(* Calls                                                                   *)

\* memory(set), a recording of run or flow, runbook(save): the key is set, and oldest
\* ones leave; then persist saves all, or refuses a sensitive key.
MemorySet(s, k, limit, persist, allow) ==
  /\ AtRest(s) /\ writes < MaxWrites /\ writes' = writes + 1
  /\ \E m \in SetKey(memory[s], k, writes + 1, limit) :
       /\ memory' = [memory EXCEPT ![s] = m]
       /\ IF persist /\ (k \in SensitiveKeys => allow) THEN BeginSave(s, m, allow) ELSE NoSave
  /\ UNCHANGED <<fileVars, crashes>>

\* memory(delete), memory(clear): a sensitive key is deleted before persist refuses.
MemoryRemove(s, prefix, persist, allow) ==
  /\ AtRest(s) /\ prefix \cap Held(memory[s]) # {}
  /\ LET m == Without(memory[s], prefix)
         refused == ~allow /\ \E k \in SensitiveKeys : prefix = {k}
     IN  /\ memory' = [memory EXCEPT ![s] = m]
         /\ IF persist /\ ~refused THEN BeginSave(s, m, allow) ELSE NoSave
  /\ UNCHANGED <<fileVars, writes, crashes>>

\* memory(save): the file then holds the keys of the prefix and no others.
MemorySave(s, prefix, allow) ==
  /\ AtRest(s) /\ BeginSave(s, Only(memory[s], prefix), allow)
  /\ UNCHANGED <<memory, fileVars, writes, crashes>>

\* memory(load)
MemoryLoad(s, prefix, allow, replace, limit) ==
  /\ AtRest(s)
  /\ \E m \in Imported(memory[s], Exported(Loaded, prefix, allow), replace, limit) :
       memory' = [memory EXCEPT ![s] = m]
  /\ UNCHANGED <<saving, fileVars, writes, crashes>>

\* A crash leaves the files as they are; the server starts again and loads the file
\* without its sensitive keys.
ServerCrash(s) ==
  /\ crashes < MaxCrashes /\ crashes' = crashes + 1
  /\ memory' = [memory EXCEPT ![s] = Exported(Loaded, Keys, FALSE)]
  /\ saving' = [saving EXCEPT ![s] = {}] /\ handle' = [handle EXCEPT ![s] = "no"]
  /\ UNCHANGED <<file, temp, writes, saved, tangled>>

MemoryNext ==
  \E s \in Servers :
    \/ OpenTemp(s) \/ WriteTemp(s) \/ Replace(s) \/ ReplaceFails(s) \/ ServerCrash(s)
    \/ \E allow, flag \in BOOLEAN :
         \/ \E k \in Keys, limit \in KeyLimits : MemorySet(s, k, limit, flag, allow)
         \/ \E prefix \in KeyPrefixes :
              \/ MemoryRemove(s, prefix, flag, allow)
              \/ \E limit \in KeyLimits : MemoryLoad(s, prefix, allow, flag, limit)
    \/ \E allow \in BOOLEAN, prefix \in KeyPrefixes : MemorySave(s, prefix, allow)

MemorySpec == MemoryInit /\ [][MemoryNext]_memoryVars

-----------------------------------------------------------------------------
File == [text : {"none", "partial", "whole"}, items : Stores]

MemoryTypeOK ==
  /\ memory \in [Servers -> Stores] /\ saving \in [Servers -> SUBSET Stores]
  /\ \A s \in Servers : Cardinality(saving[s]) <= 1
  /\ handle \in [Servers -> {"no", "temp", "file", "lost", "written"}]
  /\ {file, temp, saved} \subseteq File
  /\ writes \in 0..MaxWrites /\ crashes \in 0..MaxCrashes
  /\ tangled \in BOOLEAN

\* "Atomic writes: write temp file then replace" (agent_memory_persist.py:5): wherever
\* a server crashes, the file is what the last save to end was to write, all of it;
\* only two servers that write at the same time can undo that, since they share one
\* temporary file.
FileIsLastSave == tangled \/ file = saved
=============================================================================
