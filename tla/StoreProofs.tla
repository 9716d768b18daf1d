---------------------------- MODULE StoreProofs -----------------------------
(* Proofs about what processes keep in files: the agent memory (Memory) and *)
(* the artifacts (Artifacts) of servers, for all servers, contents, bounds *)
(* and crashes, and the registry entries and sockets by which servers find *)
(* native hosts (BrokerRegistry).                                          *)
EXTENDS Memory, Artifacts, BrokerRegistry, FiniteSetTheorems, TLAPS

-----------------------------------------------------------------------------
(* The agent memory: stores.                                               *)

LEMMA OnlyTyped ==
  ASSUME NEW m \in Stores, NEW keys
  PROVE  Only(m, keys) \in Stores
BY MemoryAssumption DEF Only, Stores

LEMMA EvictedTyped ==
  ASSUME NEW m \in Stores, NEW limit
  PROVE  Evicted(m, limit) \subseteq Stores
BY OnlyTyped DEF Evicted

LEMMA ExportedTyped ==
  ASSUME NEW m \in Stores, NEW prefix, NEW allow
  PROVE  Exported(m, prefix, allow) \in Stores
BY OnlyTyped DEF Exported

LEMMA ImportedTyped ==
  ASSUME NEW m \in Stores, NEW new \in Stores, NEW replace, NEW limit
  PROVE  Imported(m, new, replace, limit) \subseteq Stores
<1> DEFINE all == [k \in Keys |-> IF new[k] # 0 THEN new[k] ELSE IF replace THEN 0 ELSE m[k]]
<1>1. all \in Stores
  BY MemoryAssumption DEF Stores
<1> HIDE DEF all
<1>2. Imported(m, new, replace, limit) = IF Held(new) = {} THEN {all} ELSE Evicted(all, limit)
  BY DEF Imported, all
<1> QED BY <1>1, <1>2, EvictedTyped

LEMMA SetKeyTyped ==
  ASSUME NEW m \in Stores, NEW k \in Keys, NEW value \in 0..MaxWrites, NEW limit
  PROVE  SetKey(m, k, value, limit) \subseteq Stores
<1>1. [m EXCEPT ![k] = value] \in Stores
  BY DEF Stores
<1> QED BY <1>1, EvictedTyped DEF SetKey

LEMMA FilesTyped ==
  /\ Missing \in File /\ Partial \in File
  /\ \A m \in Stores : Whole(m) \in File
  /\ \A f \in File : f.items \in Stores
<1>1. Empty \in Stores
  BY MemoryAssumption DEF Empty, Stores
<1> QED BY <1>1 DEF Missing, Partial, Whole, File

-----------------------------------------------------------------------------
(* The inductive invariant.  As long as no two servers have been at it     *)
(* together, the temporary file is that of the one server that saves, and  *)
(* whole once it has written it.                                           *)

MemoryTyped ==
  /\ memory \in [Servers -> Stores]
  /\ saving \in [Servers -> SUBSET Stores] /\ \A s \in Servers : \A m, n \in saving[s] : m = n
  /\ handle \in [Servers -> {"no", "temp", "file", "lost", "written"}]
  /\ file \in File /\ temp \in File /\ saved \in File
  /\ writes \in 0..MaxWrites /\ crashes \in 0..MaxCrashes /\ tangled \in BOOLEAN

OneWriter ==
  \A s \in Servers : handle[s] # "no" =>
    /\ \A t \in Servers \ {s} : handle[t] = "no"
    /\ handle[s] \in {"temp", "written"}
    /\ handle[s] = "temp" => temp = Partial
    /\ handle[s] = "written" => \A m \in saving[s] : temp = Whole(m)
    /\ ~AtRest(s)

MemoryInv == MemoryTyped /\ (tangled \/ OneWriter) /\ FileIsLastSave

LEMMA MemoryInitInv == MemoryInit => MemoryInv
<1> SUFFICES ASSUME MemoryInit PROVE MemoryInv
  OBVIOUS
<1>1. Empty \in Stores
  BY MemoryAssumption DEF Empty, Stores
<1>2. MemoryTyped
  <2>1. Missing \in File /\ 0 \in 0..MaxWrites /\ 0 \in 0..MaxCrashes
    BY FilesTyped, MemoryAssumption
  <2> QED BY <1>1, <2>1 DEF MemoryInit, MemoryTyped
<1> QED
  BY <1>2 DEF MemoryInit, MemoryInv, OneWriter, FileIsLastSave

\* A call that may begin a save leaves the files alone.
LEMMA CallInv ==
  ASSUME MemoryInv, NEW s \in Servers, AtRest(s), UNCHANGED <<fileVars, crashes>>,
         NoSave \/ \E m \in Stores, allow \in BOOLEAN : BeginSave(s, m, allow),
         UNCHANGED memory \/ \E m \in Stores : memory' = [memory EXCEPT ![s] = m],
         writes' \in 0..MaxWrites
  PROVE  MemoryInv'
<1> USE DEF MemoryInv
<1>1. \/ NoSave
      \/ \E entries \in Stores : saving' = [saving EXCEPT ![s] = {entries}]
  BY ExportedTyped DEF BeginSave
<1>2. MemoryTyped'
  BY <1>1 DEF MemoryTyped, NoSave, fileVars
<1>3. tangled' \/ OneWriter'
  BY <1>1 DEF MemoryTyped, OneWriter, NoSave, fileVars, AtRest
<1>4. FileIsLastSave'
  BY DEF FileIsLastSave, fileVars
<1> QED BY <1>2, <1>3, <1>4

LEMMA OpenTempInv ==
  ASSUME MemoryInv, NEW s \in Servers, OpenTemp(s)
  PROVE  MemoryInv'
<1> USE DEF MemoryInv
<1>1. MemoryTyped'
  BY FilesTyped DEF OpenTemp, MemoryTyped
<1>2. tangled' \/ OneWriter'
  <2>1. CASE \E t \in Servers \ {s} : handle[t] # "no"
    BY <2>1 DEF OpenTemp
  <2>2. CASE \A t \in Servers \ {s} : handle[t] = "no"
    <3>1. handle' = [handle EXCEPT ![s] = "temp"] /\ temp' = Partial
      BY DEF OpenTemp
    <3>2. UNCHANGED <<memory, saving, file, writes, crashes, saved>>
      BY DEF OpenTemp
    <3>3. tangled' => tangled
      BY <2>2 DEF OpenTemp
    <3>4. ~AtRest(s)' /\ handle'[s] = "temp" /\ \A t \in Servers \ {s} : handle'[t] = "no"
      BY <2>2, <3>1, <3>2 DEF OpenTemp, MemoryTyped, AtRest
    <3>5. OneWriter'
      BY <3>1, <3>4, SMTT(60) DEF OneWriter
    <3> QED BY ONLY <3>5
  <2> QED BY <2>1, <2>2
<1>3. FileIsLastSave'
  BY DEF OpenTemp, FileIsLastSave
<1> QED BY <1>1, <1>2, <1>3

LEMMA WriteTempInv ==
  ASSUME MemoryInv, NEW s \in Servers, WriteTemp(s)
  PROVE  MemoryInv'
<1> USE DEF MemoryInv
<1>0. PICK m \in saving[s] :
        /\ temp' \in IF handle[s] = "temp" THEN Over(temp, m) ELSE {temp}
        /\ file' \in IF handle[s] = "file" THEN Over(file, m) ELSE {file}
  BY DEF WriteTemp
<1>1. MemoryTyped'
  <2>1. m \in Stores
    BY <1>0 DEF MemoryTyped
  <2>2. temp' \in File /\ file' \in File
    BY <1>0, <2>1, FilesTyped DEF Over, MemoryTyped
  <2> QED BY <2>2 DEF WriteTemp, MemoryTyped
<1>2. tangled' \/ OneWriter'
  BY <1>0 DEF WriteTemp, MemoryTyped, OneWriter, AtRest, Over
<1>3. FileIsLastSave'
  BY <1>0 DEF WriteTemp, FileIsLastSave, OneWriter, MemoryTyped
<1> QED BY <1>1, <1>2, <1>3

LEMMA ReplaceInv ==
  ASSUME MemoryInv, NEW s \in Servers, Replace(s) \/ ReplaceFails(s)
  PROVE  MemoryInv'
<1> USE DEF MemoryInv
<1>1. MemoryTyped'
  <2>1. CASE Replace(s)
    <3>1. PICK m \in saving[s] : saved' = Whole(m)
      BY <2>1 DEF Replace
    <3>2. file' \in File /\ temp' \in File /\ saved' \in File
      BY <2>1, <3>1, FilesTyped DEF Replace, MemoryTyped
    <3>3. handle' \in [Servers -> {"no", "temp", "file", "lost", "written"}]
      BY <2>1 DEF Replace, MemoryTyped
    <3> QED BY <2>1, <3>2, <3>3 DEF Replace, MemoryTyped
  <2>2. CASE ReplaceFails(s)
    BY <2>2 DEF ReplaceFails, MemoryTyped
  <2> QED BY <2>1, <2>2
<1>2. tangled' \/ OneWriter'
  BY DEF Replace, ReplaceFails, MemoryTyped, OneWriter
<1>3. FileIsLastSave'
  BY DEF Replace, ReplaceFails, FileIsLastSave, OneWriter, MemoryTyped
<1> QED BY <1>1, <1>2, <1>3

LEMMA ServerCrashInv ==
  ASSUME MemoryInv, NEW s \in Servers, ServerCrash(s)
  PROVE  MemoryInv'
<1> USE DEF MemoryInv
<1>1. MemoryTyped'
  <2>1. Exported(Loaded, Keys, FALSE) \in Stores
    BY FilesTyped, ExportedTyped DEF Loaded, MemoryTyped
  <2>2. crashes' \in 0..MaxCrashes
    BY MemoryAssumption DEF ServerCrash, MemoryTyped
  <2>3. /\ saving' \in [Servers -> SUBSET Stores]
        /\ \A t \in Servers : \A m, n \in saving'[t] : m = n
    BY DEF ServerCrash, MemoryTyped
  <2> QED BY <2>1, <2>2, <2>3 DEF ServerCrash, MemoryTyped
<1>2. tangled' \/ OneWriter'
  BY DEF ServerCrash, MemoryTyped, OneWriter, AtRest
<1>3. FileIsLastSave'
  BY DEF ServerCrash, FileIsLastSave
<1> QED BY <1>1, <1>2, <1>3

-----------------------------------------------------------------------------
LEMMA MemoryNextInv ==
  ASSUME MemoryInv, [MemoryNext]_memoryVars
  PROVE  MemoryInv'
<1>0. MemoryTyped
  BY DEF MemoryInv
<1>1. ASSUME NEW s \in Servers, NEW k \in Keys, NEW limit \in KeyLimits, NEW flag \in BOOLEAN,
             NEW allow \in BOOLEAN, MemorySet(s, k, limit, flag, allow)
      PROVE  MemoryInv'
  <2>1. PICK m \in SetKey(memory[s], k, writes + 1, limit) :
          /\ memory' = [memory EXCEPT ![s] = m]
          /\ NoSave \/ BeginSave(s, m, allow)
    BY <1>1 DEF MemorySet
  <2>2. m \in Stores /\ writes' \in 0..MaxWrites
    <3>1. writes + 1 \in 0..MaxWrites /\ memory[s] \in Stores /\ writes' = writes + 1
      BY <1>0, <1>1, MemoryAssumption DEF MemoryTyped, MemorySet
    <3>2. SetKey(memory[s], k, writes + 1, limit) \subseteq Stores
      BY <3>1, SetKeyTyped
    <3> QED BY <2>1, <3>1, <3>2
  <2> QED BY <1>1, <2>1, <2>2, CallInv DEF MemorySet
<1>2. ASSUME NEW s \in Servers, NEW prefix \in KeyPrefixes, NEW flag \in BOOLEAN,
             NEW allow \in BOOLEAN, MemoryRemove(s, prefix, flag, allow)
      PROVE  MemoryInv'
  <2>1. Without(memory[s], prefix) \in Stores /\ writes \in 0..MaxWrites
    BY <1>0, OnlyTyped DEF Without, MemoryTyped
  <2> QED BY <1>2, <2>1, CallInv DEF MemoryRemove
<1>3. ASSUME NEW s \in Servers, NEW prefix \in KeyPrefixes, NEW flag \in BOOLEAN,
             NEW allow \in BOOLEAN, NEW limit \in KeyLimits,
             MemoryLoad(s, prefix, allow, flag, limit)
      PROVE  MemoryInv'
  <2>1. /\ Exported(Loaded, prefix, allow) \in Stores /\ memory[s] \in Stores
        /\ writes \in 0..MaxWrites
    BY <1>0, FilesTyped, ExportedTyped DEF Loaded, MemoryTyped
  <2>2. \E m \in Stores : memory' = [memory EXCEPT ![s] = m]
    BY <1>3, <2>1, ImportedTyped DEF MemoryLoad
  <2> QED BY <1>3, <2>1, <2>2, CallInv DEF MemoryLoad, NoSave
<1>4. ASSUME NEW s \in Servers, NEW prefix \in KeyPrefixes, NEW allow \in BOOLEAN,
             MemorySave(s, prefix, allow)
      PROVE  MemoryInv'
  <2>1. Only(memory[s], prefix) \in Stores /\ writes \in 0..MaxWrites
    BY <1>0, OnlyTyped DEF MemoryTyped
  <2> QED BY <1>4, <2>1, CallInv DEF MemorySave
<1>5. CASE UNCHANGED memoryVars
  BY <1>5
  DEF memoryVars, MemoryInv, MemoryTyped, OneWriter, FileIsLastSave, AtRest
<1> QED
  BY <1>1, <1>2, <1>3, <1>4, <1>5, OpenTempInv, WriteTempInv, ReplaceInv, ServerCrashInv
  DEF MemoryNext

\* The inductive invariant behind FileIsLastSave.
THEOREM MemoryInvariant == MemorySpec => []MemoryInv
BY MemoryInitInv, MemoryNextInv, PTL DEF MemorySpec

\* Stores, saves and files have their types; a server has one save at a time.
THEOREM MemoryTypeCorrect == MemorySpec => []MemoryTypeOK
<1>1. MemoryInv => MemoryTypeOK
  <2> SUFFICES ASSUME MemoryInv PROVE MemoryTypeOK
    OBVIOUS
  <2>1. ASSUME NEW s \in Servers PROVE Cardinality(saving[s]) <= 1
    <3>1. CASE saving[s] = {}
      BY <3>1, FS_EmptySet
    <3>2. ASSUME NEW m \in saving[s] PROVE Cardinality(saving[s]) <= 1
      <4>1. saving[s] = {m}
        BY <3>2 DEF MemoryInv, MemoryTyped
      <4>2. Cardinality({m}) = 1
        BY FS_Singleton
      <4> QED BY <4>1, <4>2
    <3> QED BY <3>1, <3>2
  <2> QED BY <2>1 DEF MemoryInv, MemoryTyped, MemoryTypeOK
<1> QED BY <1>1, MemoryInvariant, PTL

\* Wherever servers crash, the memory file is all of what the last save to end was to
\* write, until two servers have been writing at a time (agent_memory_persist.py).
THEOREM FileIsWhole == MemorySpec => []FileIsLastSave
BY MemoryInvariant, PTL DEF MemoryInv

-----------------------------------------------------------------------------
(* Artifacts: files.                                                       *)

\* The names in f are in S, what they hold is in T.
Maps(f, S, T) == DOMAIN f \subseteq S /\ \A x \in DOMAIN f : f[x] \in T

LEMMA SetTyped ==
  ASSUME NEW S, NEW T, NEW f, Maps(f, S, T), NEW x \in S, NEW v \in T
  PROVE  Maps(Set(f, x, v), S, T)
BY DEF Maps, Set

LEMMA UnlinkedTyped ==
  ASSUME NEW S, NEW T, NEW f, Maps(f, S, T), NEW x
  PROVE  Maps(Unlinked(f, x), S, T)
BY DEF Maps, Unlinked, Restrict

-----------------------------------------------------------------------------
(* Types.                                                                  *)

FileSteps == {"content", "meta", "read", "unlink", "unlinkMeta", "export", "open", "copy"}

\* What a call in progress keeps.
LEMMA FileOpFacts ==
  ASSUME NEW o \in FileOps
  PROVE  /\ o.do \in {"idle"} \cup FileSteps
         /\ o.do # "idle" => o.id \in Ids
         /\ o.do \notin {"idle", "copy"} => o.ext \in Exts
         /\ o.do \in {"content", "meta"} => o.data \in Data
         /\ o.do = "open" => o.name \in OutNames
         /\ o.do = "copy" => o.data \in Data \cup {Unfinished}
BY DEF FileOps, NoOp, FileSteps

LEMMA OpsAreFileOps ==
  ASSUME NEW id \in Ids, NEW ext \in Exts, NEW data \in Data
  PROVE  /\ NoOp \in FileOps
         /\ [do |-> "content", id |-> id, ext |-> ext, data |-> data] \in FileOps
         /\ [do |-> "meta", id |-> id, ext |-> ext, data |-> data] \in FileOps
BY DEF FileOps, NoOp

LEMMA ReadersAreFileOps ==
  ASSUME NEW id \in Ids, NEW ext \in Exts
  PROVE  /\ \A do \in {"read", "unlink", "unlinkMeta", "export"} :
              [do |-> do, id |-> id, ext |-> ext] \in FileOps
         /\ \A name \in OutNames :
              [do |-> "open", id |-> id, ext |-> ext, name |-> name] \in FileOps
         /\ \A data \in Data \cup {Unfinished} :
              [do |-> "copy", id |-> id, data |-> data] \in FileOps
BY DEF FileOps, NoOp

LEMMA StampTyped ==
  ASSUME ArtifactTypeOK, NEW s \in ArtifactServers, NEW k \in ArtifactKinds
  PROVE  Stamp(s, k) \in Ids
BY DEF ArtifactTypeOK, Stamp, Ids

LEMMA PutsTyped ==
  ASSUME ArtifactTypeOK, puts < MaxPuts
  PROVE  puts + 1 \in Data /\ puts + 1 \in 0..MaxPuts
BY ArtifactsAssumption DEF ArtifactTypeOK, Data

LEMMA ArtifactInitTyped == ArtifactInit => ArtifactTypeOK
BY ArtifactsAssumption DEF ArtifactInit, ArtifactTypeOK, FileOps

LEMMA ArtifactNextTyped ==
  ASSUME ArtifactTypeOK, [ArtifactNext]_artifactVars
  PROVE  ArtifactTypeOK'
<1> USE DEF ArtifactTypeOK
<1>h. /\ Maps(contents, Ids \X Exts, Data \cup {Unfinished})
      /\ Maps(metas, Ids, Exts \cup {Unfinished})
  BY DEF Maps
<1>a. ASSUME NEW s \in ArtifactServers PROVE fileOp[s] \in FileOps
  OBVIOUS
<1>b. ASSUME NEW s \in ArtifactServers, NEW o \in FileOps, Goes(s, o)
      PROVE  fileOp' \in [ArtifactServers -> FileOps]
  BY <1>b DEF Goes
<1>c. NoOp \in FileOps
  BY DEF FileOps
<1>1. CASE ArtifactTick
  BY <1>1, ArtifactsAssumption DEF ArtifactTick, disk, putHistory
<1>2. ASSUME NEW s \in ArtifactServers, NEW k \in ArtifactKinds, NEW e \in Exts, PutBegins(s, k, e)
      PROVE  ArtifactTypeOK'
  <2>1. Stamp(s, k) \in Ids /\ MakeId(s, k) = Stamp(s, k)
    BY StampTyped DEF MakeId
  <2>2. puts' \in Data /\ puts' \in 0..MaxPuts
    BY <1>2, PutsTyped DEF PutBegins
  <2>3. fileOp' \in [ArtifactServers -> FileOps]
    BY <1>2, <1>b, <2>1, <2>2, OpsAreFileOps DEF PutBegins
  <2>4. Maps(contents', Ids \X Exts, Data \cup {Unfinished})
    <3> DEFINE x == <<Stamp(s, k), e>>
    <3>1. x \in Ids \X Exts
      BY <2>1
    <3>2. contents' = Set(contents, x, Unfinished)
      BY <1>2, <2>1 DEF PutBegins
    <3> HIDE DEF x
    <3>3. Maps(Set(contents, x, Unfinished), Ids \X Exts, Data \cup {Unfinished})
      BY <3>1, <1>h, SetTyped
    <3> QED BY <3>2, <3>3
  <2> QED BY <1>2, <2>1, <2>2, <2>3, <2>4 DEF PutBegins, Maps
<1>3. ASSUME NEW s \in ArtifactServers, ContentWritten(s) PROVE ArtifactTypeOK'
  <2>0. fileOp[s].id \in Ids /\ fileOp[s].ext \in Exts /\ fileOp[s].data \in Data
    BY <1>a, <1>3, FileOpFacts DEF ContentWritten, Does
  <2>1. fileOp' \in [ArtifactServers -> FileOps]
    BY <1>3, <1>b, <1>c, <2>0, OpsAreFileOps DEF ContentWritten
  <2>2. Maps(contents', Ids \X Exts, Data \cup {Unfinished})
    <3> DEFINE x == <<fileOp[s].id, fileOp[s].ext>>
               o == fileOp[s]
    <3>1. x \in Ids \X Exts /\ o.data \in Data \cup {Unfinished}
      BY <2>0
    <3>2. contents' \in {Set(contents, x, o.data), contents}
      BY <1>3 DEF ContentWritten
    <3> HIDE DEF x, o
    <3>3. Maps(Set(contents, x, o.data), Ids \X Exts, Data \cup {Unfinished})
      BY <3>1, <1>h, SetTyped
    <3> QED BY <3>2, <3>3, <1>h
  <2>3. Maps(metas', Ids, Exts \cup {Unfinished})
    BY <1>3, <2>0, <1>h, SetTyped DEF ContentWritten
  <2> QED BY <1>3, <2>1, <2>2, <2>3 DEF ContentWritten, putHistory, Maps
<1>4. ASSUME NEW s \in ArtifactServers, MetaWritten(s) PROVE ArtifactTypeOK'
  <2>0. fileOp[s].id \in Ids /\ fileOp[s].ext \in Exts /\ fileOp[s].data \in Data
    BY <1>a, <1>4, FileOpFacts DEF MetaWritten, Does
  <2>1. fileOp' \in [ArtifactServers -> FileOps]
    BY <1>4, <1>b, <1>c DEF MetaWritten
  <2>2. Maps(metas', Ids, Exts \cup {Unfinished})
    BY <1>4, <2>0, <1>h, SetTyped DEF MetaWritten
  <2> QED BY <1>4, <2>0, <2>1, <2>2 DEF MetaWritten, Maps
<1>5. ASSUME NEW s \in ArtifactServers, NEW id \in DOMAIN metas,
             NEW step \in {"read", "unlink", "export"}, GetMeta(s, id, step)
      PROVE  ArtifactTypeOK'
  <2>1. id \in Ids /\ metas[id] \in Exts
    BY <1>5 DEF GetMeta, Listed
  <2>2. fileOp' \in [ArtifactServers -> FileOps]
    BY <1>5, <1>b, <2>1, ReadersAreFileOps DEF GetMeta
  <2> QED BY <1>5, <2>2 DEF GetMeta, disk, putHistory
<1>6. ASSUME NEW s \in ArtifactServers, ReadContent(s) PROVE ArtifactTypeOK'
  <2>0. fileOp[s].id \in Ids
    BY <1>a, <1>6, FileOpFacts DEF ReadContent, Does
  <2>1. fileOp' \in [ArtifactServers -> FileOps]
    BY <1>6, <1>b, <1>c DEF ReadContent
  <2>2. shown' \subseteq [id : Ids, data : Data \cup {Unfinished}]
    BY <1>6, <2>0 DEF ReadContent, ShownTo
  <2> QED BY <1>6, <2>1, <2>2 DEF ReadContent, disk, putHistory
<1>7. ASSUME NEW s \in ArtifactServers, UnlinkContent(s) PROVE ArtifactTypeOK'
  <2>0. fileOp[s].id \in Ids /\ fileOp[s].ext \in Exts
    BY <1>a, <1>7, FileOpFacts DEF UnlinkContent, Does
  <2>1. fileOp' \in [ArtifactServers -> FileOps]
    BY <1>7, <1>b, <2>0, ReadersAreFileOps DEF UnlinkContent
  <2>2. Maps(contents', Ids \X Exts, Data \cup {Unfinished})
    BY <1>7, <1>h, UnlinkedTyped DEF UnlinkContent
  <2> QED BY <1>7, <2>1, <2>2 DEF UnlinkContent, putHistory, Maps
<1>8. ASSUME NEW s \in ArtifactServers, UnlinkMeta(s) PROVE ArtifactTypeOK'
  <2>1. fileOp' \in [ArtifactServers -> FileOps]
    BY <1>8, <1>b, <1>c DEF UnlinkMeta
  <2>2. Maps(metas', Ids, Exts \cup {Unfinished})
    BY <1>8, <1>h, UnlinkedTyped DEF UnlinkMeta
  <2> QED BY <1>8, <2>1, <2>2 DEF UnlinkMeta, putHistory, Maps
<1>9. ASSUME NEW s \in ArtifactServers, NEW name \in OutNames, NEW overwrite \in BOOLEAN,
             CheckDestination(s, name, overwrite)
      PROVE  ArtifactTypeOK'
  <2>0. fileOp[s].id \in Ids /\ fileOp[s].ext \in Exts
    BY <1>a, <1>9, FileOpFacts DEF CheckDestination, Does
  <2>1. fileOp' \in [ArtifactServers -> FileOps]
    BY <1>9, <1>b, <1>c, <2>0, ReadersAreFileOps DEF CheckDestination
  <2> QED BY <1>9, <2>1 DEF CheckDestination, disk, putHistory
<1>10. ASSUME NEW s \in ArtifactServers, OpenDestination(s) PROVE ArtifactTypeOK'
  <2>0. fileOp[s].id \in Ids /\ fileOp[s].name \in OutNames
    BY <1>a, <1>10, FileOpFacts DEF OpenDestination, Does
  <2>1. fileOp' \in [ArtifactServers -> FileOps]
    BY <1>10, <1>b, <1>c, <2>0, OpsAreFileOps, FileOpFacts DEF OpenDestination, FileOps
  <2> QED BY <1>10, <2>0, <2>1 DEF OpenDestination, putHistory
<1>11. ASSUME NEW s \in ArtifactServers, CopyEnds(s) PROVE ArtifactTypeOK'
  <2>0. fileOp[s].id \in Ids /\ fileOp[s].data \in Data \cup {Unfinished}
    BY <1>a, <1>11, FileOpFacts DEF CopyEnds, Does
  <2>1. fileOp' \in [ArtifactServers -> FileOps]
    BY <1>11, <1>b, <1>c DEF CopyEnds
  <2>2. shown' \subseteq [id : Ids, data : Data \cup {Unfinished}]
    BY <1>11, <2>0 DEF CopyEnds, ShownTo
  <2> QED BY <1>11, <2>1, <2>2 DEF CopyEnds, disk, putHistory
<1>12. ASSUME NEW s \in ArtifactServers, ArtifactCrash(s) PROVE ArtifactTypeOK'
  <2>1. fileOp' \in [ArtifactServers -> FileOps]
    BY <1>12, <1>b, <1>c DEF ArtifactCrash
  <2>2. life' \in [ArtifactServers -> 0..MaxArtifactCrashes]
    BY <1>12, ArtifactsAssumption DEF ArtifactCrash
  <2> QED BY <1>12, <2>1, <2>2 DEF ArtifactCrash, disk, putHistory
<1>13. CASE UNCHANGED artifactVars
  BY <1>13 DEF artifactVars, disk, putHistory
<1> QED
  BY <1>1, <1>2, <1>3, <1>4, <1>5, <1>6, <1>7, <1>8, <1>9, <1>10, <1>11, <1>12, <1>13
  DEF ArtifactNext

-----------------------------------------------------------------------------
(* The inductive invariant.  An artifact is being put by one call at a     *)
(* time, which nobody else sees; one that can be found is complete.        *)

Writing(s) == fileOp[s].do \in {"content", "meta"}
Reading(s) == fileOp[s].do \in FileSteps \ {"content", "meta"}

\* What has an id was given it.
Stamped ==
  /\ reused \subseteq stamps /\ removed \subseteq stamps
  /\ \A id, e : <<id, e>> \in DOMAIN contents => id \in stamps
  /\ DOMAIN metas \subseteq stamps
  /\ \A r \in refs : r.id \in stamps
  /\ \A x \in shown : x.id \in stamps
  /\ \A s \in ArtifactServers : fileOp[s].do # "idle" => fileOp[s].id \in stamps

\* Nobody else has to do with an id that is being put.
Alone(s) ==
  LET id == fileOp[s].id
  IN  /\ \A t \in ArtifactServers \ {s} : fileOp[t].do # "idle" => fileOp[t].id # id
      /\ \A e : <<id, e>> \in DOMAIN contents => e = fileOp[s].ext
      /\ <<id, fileOp[s].ext>> \in DOMAIN contents
      /\ \A r \in refs : r.id # id
      /\ \A x \in shown : x.id # id
      /\ id \notin removed

WritersAlone ==
  \A s \in ArtifactServers : Writing(s) /\ fileOp[s].id \notin reused => Alone(s)

\* The description is opened when the content is complete.
Half(s) ==
  LET id == fileOp[s].id
  IN  /\ fileOp[s].do = "content" => id \notin DOMAIN metas
      /\ fileOp[s].do = "meta" =>
           /\ id \in DOMAIN metas /\ metas[id] = Unfinished
           /\ contents[<<id, fileOp[s].ext>>] = fileOp[s].data

WritersHalf ==
  \A s \in ArtifactServers : Writing(s) /\ fileOp[s].id \notin reused => Half(s)

\* An artifact that is or was listed has its content, if it has one still.
Known(id) == id \in Listed \cup removed
Complete(id, data) == data # Unfinished /\ \A r \in refs : r.id = id => r.data = data

FoundIsWhole ==
  \A id \in stamps \ reused, e \in Exts :
    Known(id) /\ <<id, e>> \in DOMAIN contents => Complete(id, contents[<<id, e>>])

ReadersFound ==
  \A s \in ArtifactServers :
    /\ Reading(s) /\ fileOp[s].id \notin reused => Known(fileOp[s].id)
    /\ fileOp[s].do \in {"unlink", "unlinkMeta"} => fileOp[s].id \in removed
    /\ fileOp[s].do = "copy" /\ fileOp[s].id \notin reused => Complete(fileOp[s].id, fileOp[s].data)

ArtifactInv ==
  /\ ArtifactTypeOK /\ Stamped /\ WritersAlone /\ WritersHalf /\ FoundIsWhole /\ ReadersFound
  /\ ArtifactsStay

LEMMA ArtifactInitInv == ArtifactInit => ArtifactInv
BY ArtifactInitTyped
DEF ArtifactInit, ArtifactInv, Stamped, WritersAlone, WritersHalf, FoundIsWhole, ReadersFound,
    ArtifactsStay, Writing, Reading, NoOp, FileSteps, Known, Listed

\* One lemma for each action; the first step says what the action changes.
LEMMA PutBeginsInv ==
  ASSUME ArtifactInv, ArtifactTypeOK',
         NEW s \in ArtifactServers, NEW k \in ArtifactKinds, NEW e \in Exts, PutBegins(s, k, e)
  PROVE  ArtifactInv'
<1> DEFINE id == Stamp(s, k)
<1>1. /\ stamps' = stamps \cup {id} /\ (id \in stamps => id \in reused')
      /\ reused \subseteq reused' /\ reused' \subseteq reused \cup {id}
      /\ \A t \in ArtifactServers : t # s => fileOp'[t] = fileOp[t]
      /\ fileOp'[s] = [do |-> "content", id |-> id, ext |-> e, data |-> puts']
      /\ UNCHANGED <<metas, refs, removed, shown>>
  BY DEF PutBegins, MakeId, Goes, ArtifactInv, ArtifactTypeOK
<1>2. /\ DOMAIN contents' = DOMAIN contents \cup {<<id, e>>}
      /\ contents'[<<id, e>>] = Unfinished
      /\ \A y \in DOMAIN contents : y # <<id, e>> => contents'[y] = contents[y]
  <2>1. contents' = Set(contents, <<id, e>>, Unfinished)
    BY DEF PutBegins, MakeId
  <2> QED BY <2>1 DEF Set
<1> HIDE DEF id
<1> USE DEF ArtifactInv
<1>3. Stamped'
  BY <1>1, <1>2 DEF Stamped
<1>4. WritersAlone'
  BY <1>1, <1>2 DEF WritersAlone, Alone, Writing, Stamped
<1>5. WritersHalf'
  BY <1>1, <1>2 DEF WritersHalf, Half, Writing, Stamped, WritersAlone, Alone
<1>6. FoundIsWhole'
  BY <1>1, <1>2 DEF FoundIsWhole, Known, Listed, Complete, Stamped
<1>7. ReadersFound'
  BY <1>1, <1>2 DEF ReadersFound, Reading, Known, Listed, Complete, Stamped, FileSteps
<1>8. ArtifactsStay'
  BY <1>1, <1>2 DEF ArtifactsStay, Stamped
<1> QED BY <1>3, <1>4, <1>5, <1>6, <1>7, <1>8

LEMMA ContentWrittenInv ==
  ASSUME ArtifactInv, ArtifactTypeOK', NEW s \in ArtifactServers, ContentWritten(s)
  PROVE  ArtifactInv'
<1> USE DEF ArtifactInv
<1> DEFINE o == fileOp[s]
           x == <<o.id, o.ext>>
<1>0. /\ o.do = "content" /\ o.data \in Data /\ o.id \in Ids /\ o.ext \in Exts
      /\ Unfinished \notin Data
  BY FileOpFacts, ArtifactsAssumption DEF ContentWritten, Does, ArtifactTypeOK, Data
<1>1. /\ \A t \in ArtifactServers : t # s => fileOp'[t] = fileOp[t]
      /\ UNCHANGED <<stamps, reused, refs, removed, shown>>
  BY DEF ContentWritten, Goes, ArtifactTypeOK, putHistory
<1>2. CASE x \notin DOMAIN contents
  <2>1. fileOp'[s] = NoOp /\ UNCHANGED <<contents, metas>>
    BY <1>2 DEF ContentWritten, Goes, ArtifactTypeOK
  <2> QED
    BY <1>1, <2>1
    DEF Stamped, WritersAlone, Alone, WritersHalf, Half, FoundIsWhole, Known, Listed, Complete,
        ReadersFound, Reading, Writing, ArtifactsStay, NoOp, FileSteps
<1> SUFFICES ASSUME x \in DOMAIN contents PROVE ArtifactInv'
  BY <1>2
<1>9. /\ fileOp'[s] = [do |-> "meta", id |-> o.id, ext |-> o.ext, data |-> o.data]
      /\ contents' = Set(contents, x, o.data)
      /\ metas' = Set(metas, o.id, Unfinished)
  BY DEF ContentWritten, Goes, ArtifactTypeOK
<1>10. /\ DOMAIN contents' = DOMAIN contents \cup {x} /\ contents'[x] = o.data
       /\ \A y \in DOMAIN contents : y # x => contents'[y] = contents[y]
       /\ DOMAIN metas' = DOMAIN metas \cup {o.id} /\ metas'[o.id] = Unfinished
       /\ \A y \in DOMAIN metas : y # o.id => metas'[y] = metas[y]
  BY <1>9 DEF Set
<1>11. o.id \notin reused => Alone(s) /\ Half(s)
  BY <1>0 DEF WritersAlone, WritersHalf, Writing
<1>3. Stamped'
  BY <1>0, <1>1, <1>9, <1>10 DEF Stamped, NoOp
<1>4. WritersAlone'
  BY <1>0, <1>1, <1>9, <1>10 DEF WritersAlone, Alone, Writing, Stamped, NoOp
<1>5. WritersHalf'
  BY <1>0, <1>1, <1>9, <1>10 DEF WritersHalf, Half, Writing, WritersAlone, Alone, Stamped, NoOp
<1>6. FoundIsWhole'
  BY <1>0, <1>1, <1>9, <1>10, <1>11 DEF FoundIsWhole, Known, Listed, Complete, Stamped, Alone, Half
<1>7. ReadersFound'
  BY <1>0, <1>1, <1>9, <1>10, <1>11, SMTT(60)
  DEF ReadersFound, Reading, Known, Listed, Complete, FileSteps, Stamped, Alone, Half, NoOp
<1>8. ArtifactsStay'
  BY <1>0, <1>1, <1>9, <1>10, <1>11, SMTT(60) DEF ArtifactsStay, Stamped, Alone, Half
<1> QED BY <1>3, <1>4, <1>5, <1>6, <1>7, <1>8

LEMMA MetaWrittenInv ==
  ASSUME ArtifactInv, ArtifactTypeOK', NEW s \in ArtifactServers, MetaWritten(s)
  PROVE  ArtifactInv'
<1> USE DEF ArtifactInv
<1> DEFINE o == fileOp[s]
<1>0. /\ o.do = "meta" /\ o.data \in Data /\ o.id \in Ids /\ o.ext \in Exts
      /\ Unfinished \notin Data /\ Unfinished \notin Exts
  BY FileOpFacts, ArtifactsAssumption DEF MetaWritten, Does, ArtifactTypeOK, Data
<1>1. /\ \A t \in ArtifactServers : t # s => fileOp'[t] = fileOp[t]
      /\ fileOp'[s] = NoOp
      /\ refs' = refs \cup {[id |-> o.id, ext |-> o.ext, data |-> o.data]}
      /\ UNCHANGED <<contents, stamps, reused, removed, shown>>
  BY DEF MetaWritten, Goes, ArtifactTypeOK
<1>2. /\ DOMAIN metas' = DOMAIN metas
      /\ o.id \in DOMAIN metas => metas'[o.id] = o.ext
      /\ \A y \in DOMAIN metas : y # o.id => metas'[y] = metas[y]
  <2>1. metas' = IF o.id \in DOMAIN metas THEN Set(metas, o.id, o.ext) ELSE metas
    BY DEF MetaWritten
  <2> QED BY <2>1 DEF Set
<1>9. o.id \notin reused => Alone(s) /\ Half(s)
  BY <1>0 DEF WritersAlone, WritersHalf, Writing
<1>3. Stamped'
  BY <1>0, <1>1, <1>2 DEF Stamped, NoOp
<1>4. WritersAlone'
  BY <1>0, <1>1, <1>2 DEF WritersAlone, Alone, Writing, Stamped, NoOp
<1>5. WritersHalf'
  BY <1>0, <1>1, <1>2 DEF WritersHalf, Half, Writing, WritersAlone, Alone, Stamped, NoOp
<1>6. FoundIsWhole'
  BY <1>0, <1>1, <1>2, <1>9 DEF FoundIsWhole, Known, Listed, Complete, Stamped, Alone, Half
<1>7. ReadersFound'
  BY <1>0, <1>1, <1>2, <1>9
  DEF ReadersFound, Reading, Known, Listed, Complete, FileSteps, Stamped, Alone, Half, NoOp
<1>8. ArtifactsStay'
  BY <1>0, <1>1, <1>2, <1>9 DEF ArtifactsStay, Stamped, Alone, Half
<1> QED BY <1>3, <1>4, <1>5, <1>6, <1>7, <1>8

LEMMA GetMetaInv ==
  ASSUME ArtifactInv, ArtifactTypeOK', NEW s \in ArtifactServers, NEW id \in DOMAIN metas,
         NEW step \in {"read", "unlink", "export"}, GetMeta(s, id, step)
  PROVE  ArtifactInv'
<1> USE DEF ArtifactInv
<1>1. /\ fileOp[s].do = "idle" /\ id \in Listed
      /\ \A t \in ArtifactServers : t # s => fileOp'[t] = fileOp[t]
      /\ fileOp'[s] = [do |-> step, id |-> id, ext |-> metas[id]]
      /\ removed' = IF step = "unlink" THEN removed \cup {id} ELSE removed
      /\ UNCHANGED <<contents, metas, stamps, reused, refs, shown>>
  BY DEF GetMeta, Goes, Does, ArtifactTypeOK, disk, putHistory
<1>3. Stamped'
  BY <1>1 DEF Stamped, NoOp
<1>4. WritersAlone'
  BY <1>1 DEF WritersAlone, Alone, Writing, Stamped, Listed, WritersHalf, Half, NoOp
<1>5. WritersHalf'
  BY <1>1 DEF WritersHalf, Half, Writing, WritersAlone, Alone, Stamped, NoOp
<1>6. FoundIsWhole'
  BY <1>1 DEF FoundIsWhole, Known, Listed, Complete, Stamped
<1>7. ReadersFound'
  BY <1>1 DEF ReadersFound, Reading, Writing, Known, Listed, Complete, FileSteps, Stamped, NoOp
<1>8. ArtifactsStay'
  BY <1>1 DEF ArtifactsStay, Stamped
<1> QED BY <1>3, <1>4, <1>5, <1>6, <1>7, <1>8

LEMMA ReadContentInv ==
  ASSUME ArtifactInv, ArtifactTypeOK', NEW s \in ArtifactServers, ReadContent(s)
  PROVE  ArtifactInv'
<1> USE DEF ArtifactInv
<1>0. fileOp[s].do = "read" /\ fileOp[s].ext \in Exts
  BY FileOpFacts DEF ReadContent, Does, ArtifactTypeOK
<1>1. /\ \A t \in ArtifactServers : t # s => fileOp'[t] = fileOp[t]
      /\ fileOp'[s] = NoOp
      /\ shown' = IF Source(s) \in DOMAIN contents
                  THEN shown \cup {[id |-> fileOp[s].id, data |-> contents[Source(s)]]}
                  ELSE shown
      /\ UNCHANGED <<contents, metas, stamps, reused, refs, removed>>
  BY DEF ReadContent, Goes, ArtifactTypeOK, disk, putHistory, ShownTo
<1>3. Stamped'
  BY <1>0, <1>1 DEF Stamped, NoOp
<1>4. WritersAlone'
  BY <1>0, <1>1 DEF WritersAlone, Alone, Writing, Stamped, NoOp
<1>5. WritersHalf'
  BY <1>0, <1>1 DEF WritersHalf, Half, Writing, WritersAlone, Alone, Stamped, NoOp
<1>6. FoundIsWhole'
  BY <1>0, <1>1 DEF FoundIsWhole, Known, Listed, Complete, Stamped
<1>7. ReadersFound'
  BY <1>0, <1>1
  DEF ReadersFound, Reading, Writing, Known, Listed, Complete, FileSteps, Stamped, NoOp
<1>8. ArtifactsStay'
  BY <1>0, <1>1
  DEF ArtifactsStay, Stamped, ReadersFound, Reading, FileSteps, FoundIsWhole, Complete, Source
<1> QED BY <1>3, <1>4, <1>5, <1>6, <1>7, <1>8

LEMMA UnlinkContentInv ==
  ASSUME ArtifactInv, ArtifactTypeOK', NEW s \in ArtifactServers, UnlinkContent(s)
  PROVE  ArtifactInv'
<1> USE DEF ArtifactInv
<1>0. fileOp[s].do = "unlink"
  BY DEF UnlinkContent, Does
<1>1. /\ \A t \in ArtifactServers : t # s => fileOp'[t] = fileOp[t]
      /\ fileOp'[s] = [do |-> "unlinkMeta", id |-> fileOp[s].id, ext |-> fileOp[s].ext]
      /\ UNCHANGED <<metas, stamps, reused, refs, removed, shown>>
  BY DEF UnlinkContent, Goes, ArtifactTypeOK, putHistory
<1>2. /\ DOMAIN contents' \subseteq DOMAIN contents
      /\ \A y \in DOMAIN contents : y # Source(s) => y \in DOMAIN contents'
      /\ \A y \in DOMAIN contents' : contents'[y] = contents[y]
  <2>1. contents' = contents \/ contents' = Unlinked(contents, Source(s))
    BY DEF UnlinkContent
  <2> QED BY <2>1 DEF Unlinked, Restrict
<1>3. Stamped'
  BY <1>0, <1>1, <1>2 DEF Stamped, NoOp
<1>4. WritersAlone'
  BY <1>0, <1>1, <1>2 DEF WritersAlone, Alone, Writing, Stamped, ReadersFound, Source, NoOp
<1>5. WritersHalf'
  BY <1>0, <1>1, <1>2
  DEF WritersHalf, Half, Writing, WritersAlone, Alone, Stamped, ReadersFound, Source, NoOp
<1>6. FoundIsWhole'
  BY <1>0, <1>1, <1>2 DEF FoundIsWhole, Known, Listed, Complete, Stamped
<1>7. ReadersFound'
  BY <1>0, <1>1, <1>2
  DEF ReadersFound, Reading, Writing, Known, Listed, Complete, FileSteps, Stamped, NoOp
<1>8. ArtifactsStay'
  BY <1>0, <1>1, <1>2 DEF ArtifactsStay, Stamped, ReadersFound, Source
<1> QED BY <1>3, <1>4, <1>5, <1>6, <1>7, <1>8

LEMMA UnlinkMetaInv ==
  ASSUME ArtifactInv, ArtifactTypeOK', NEW s \in ArtifactServers, UnlinkMeta(s)
  PROVE  ArtifactInv'
<1> USE DEF ArtifactInv
<1>0. fileOp[s].do = "unlinkMeta"
  BY DEF UnlinkMeta, Does
<1>1. /\ \A t \in ArtifactServers : t # s => fileOp'[t] = fileOp[t]
      /\ fileOp'[s] = NoOp
      /\ UNCHANGED <<contents, stamps, reused, refs, removed, shown>>
  BY DEF UnlinkMeta, Goes, ArtifactTypeOK, putHistory
<1>2. /\ DOMAIN metas' \subseteq DOMAIN metas
      /\ \A y \in DOMAIN metas : y # fileOp[s].id => y \in DOMAIN metas'
      /\ \A y \in DOMAIN metas' : metas'[y] = metas[y]
  <2>1. metas' = metas \/ metas' = Unlinked(metas, fileOp[s].id)
    BY DEF UnlinkMeta
  <2> QED BY <2>1 DEF Unlinked, Restrict
<1>3. Stamped'
  BY <1>0, <1>1, <1>2 DEF Stamped, NoOp
<1>4. WritersAlone'
  BY <1>0, <1>1, <1>2 DEF WritersAlone, Alone, Writing, Stamped, NoOp
<1>5. WritersHalf'
  BY <1>0, <1>1, <1>2
  DEF WritersHalf, Half, Writing, WritersAlone, Alone, Stamped, ReadersFound, NoOp
<1>6. FoundIsWhole'
  BY <1>0, <1>1, <1>2 DEF FoundIsWhole, Known, Listed, Complete, Stamped, ReadersFound
<1>7. ReadersFound'
  BY <1>0, <1>1, <1>2
  DEF ReadersFound, Reading, Writing, Known, Listed, Complete, FileSteps, Stamped, NoOp
<1>8. ArtifactsStay'
  BY <1>0, <1>1, <1>2 DEF ArtifactsStay, Stamped, ReadersFound
<1> QED BY <1>3, <1>4, <1>5, <1>6, <1>7, <1>8

LEMMA CheckDestinationInv ==
  ASSUME ArtifactInv, ArtifactTypeOK', NEW s \in ArtifactServers, NEW name \in OutNames,
         NEW overwrite \in BOOLEAN, CheckDestination(s, name, overwrite)
  PROVE  ArtifactInv'
<1> USE DEF ArtifactInv
<1>0. fileOp[s].do = "export"
  BY DEF CheckDestination, Does
<1>1. /\ \A t \in ArtifactServers : t # s => fileOp'[t] = fileOp[t]
      /\ fileOp'[s] \in
           {NoOp, [do |-> "open", id |-> fileOp[s].id, ext |-> fileOp[s].ext, name |-> name]}
      /\ UNCHANGED <<contents, metas, stamps, reused, refs, removed, shown>>
  BY DEF CheckDestination, Goes, ArtifactTypeOK, disk, putHistory
<1>3. Stamped'
  BY <1>0, <1>1 DEF Stamped, NoOp
<1>4. WritersAlone'
  BY <1>0, <1>1 DEF WritersAlone, Alone, Writing, Stamped, NoOp
<1>5. WritersHalf'
  BY <1>0, <1>1 DEF WritersHalf, Half, Writing, WritersAlone, Alone, Stamped, NoOp
<1>6. FoundIsWhole'
  BY <1>0, <1>1 DEF FoundIsWhole, Known, Listed, Complete, Stamped
<1>7. ReadersFound'
  BY <1>0, <1>1
  DEF ReadersFound, Reading, Writing, Known, Listed, Complete, FileSteps, Stamped, NoOp
<1>8. ArtifactsStay'
  BY <1>0, <1>1 DEF ArtifactsStay, Stamped
<1> QED BY <1>3, <1>4, <1>5, <1>6, <1>7, <1>8

LEMMA OpenDestinationInv ==
  ASSUME ArtifactInv, ArtifactTypeOK', NEW s \in ArtifactServers, OpenDestination(s)
  PROVE  ArtifactInv'
<1> USE DEF ArtifactInv
<1>0. fileOp[s].do = "open" /\ fileOp[s].ext \in Exts
  BY FileOpFacts DEF OpenDestination, Does, ArtifactTypeOK
<1>1. /\ \A t \in ArtifactServers : t # s => fileOp'[t] = fileOp[t]
      /\ fileOp'[s] = IF Source(s) \in DOMAIN contents
                      THEN [do |-> "copy", id |-> fileOp[s].id, data |-> contents[Source(s)]]
                      ELSE NoOp
      /\ UNCHANGED <<contents, metas, stamps, reused, refs, removed, shown>>
  BY DEF OpenDestination, Goes, ArtifactTypeOK, putHistory
<1>3. Stamped'
  BY <1>0, <1>1 DEF Stamped, NoOp
<1>4. WritersAlone'
  BY <1>0, <1>1 DEF WritersAlone, Alone, Writing, Stamped, NoOp
<1>5. WritersHalf'
  BY <1>0, <1>1 DEF WritersHalf, Half, Writing, WritersAlone, Alone, Stamped, NoOp
<1>6. FoundIsWhole'
  BY <1>0, <1>1 DEF FoundIsWhole, Known, Listed, Complete, Stamped
<1>7. ReadersFound'
  BY <1>0, <1>1
  DEF ReadersFound, Reading, Writing, Known, Listed, Complete, FileSteps, Stamped,
      FoundIsWhole, Source, NoOp
<1>8. ArtifactsStay'
  BY <1>0, <1>1 DEF ArtifactsStay, Stamped
<1> QED BY <1>3, <1>4, <1>5, <1>6, <1>7, <1>8

LEMMA CopyEndsInv ==
  ASSUME ArtifactInv, ArtifactTypeOK', NEW s \in ArtifactServers, CopyEnds(s)
  PROVE  ArtifactInv'
<1> USE DEF ArtifactInv
<1>0. fileOp[s].do = "copy"
  BY DEF CopyEnds, Does
<1>1. /\ \A t \in ArtifactServers : t # s => fileOp'[t] = fileOp[t]
      /\ fileOp'[s] = NoOp
      /\ shown' = shown \cup {[id |-> fileOp[s].id, data |-> fileOp[s].data]}
      /\ UNCHANGED <<contents, metas, stamps, reused, refs, removed>>
  BY DEF CopyEnds, Goes, ArtifactTypeOK, disk, putHistory, ShownTo
<1>3. Stamped'
  BY <1>0, <1>1 DEF Stamped, NoOp
<1>4. WritersAlone'
  BY <1>0, <1>1 DEF WritersAlone, Alone, Writing, Stamped, NoOp
<1>5. WritersHalf'
  BY <1>0, <1>1 DEF WritersHalf, Half, Writing, WritersAlone, Alone, Stamped, NoOp
<1>6. FoundIsWhole'
  BY <1>0, <1>1 DEF FoundIsWhole, Known, Listed, Complete, Stamped
<1>7. ReadersFound'
  BY <1>0, <1>1
  DEF ReadersFound, Reading, Writing, Known, Listed, Complete, FileSteps, Stamped, NoOp
<1>8. ArtifactsStay'
  BY <1>0, <1>1 DEF ArtifactsStay, Stamped, ReadersFound, Complete
<1> QED BY <1>3, <1>4, <1>5, <1>6, <1>7, <1>8

LEMMA ArtifactCrashInv ==
  ASSUME ArtifactInv, ArtifactTypeOK', NEW s \in ArtifactServers, ArtifactCrash(s)
  PROVE  ArtifactInv'
<1> USE DEF ArtifactInv
<1>1. /\ \A t \in ArtifactServers : t # s => fileOp'[t] = fileOp[t]
      /\ fileOp'[s] = NoOp
      /\ UNCHANGED <<contents, metas, stamps, reused, refs, removed, shown>>
  BY DEF ArtifactCrash, Goes, ArtifactTypeOK, disk, putHistory
<1>3. Stamped'
  BY <1>1 DEF Stamped, NoOp
<1>4. WritersAlone'
  BY <1>1 DEF WritersAlone, Alone, Writing, Stamped, NoOp
<1>5. WritersHalf'
  BY <1>1 DEF WritersHalf, Half, Writing, WritersAlone, Alone, Stamped, NoOp
<1>6. FoundIsWhole'
  BY <1>1 DEF FoundIsWhole, Known, Listed, Complete, Stamped
<1>7. ReadersFound'
  BY <1>1 DEF ReadersFound, Reading, Writing, Known, Listed, Complete, FileSteps, Stamped, NoOp
<1>8. ArtifactsStay'
  BY <1>1 DEF ArtifactsStay, Stamped
<1> QED BY <1>3, <1>4, <1>5, <1>6, <1>7, <1>8

\* The inductive invariant behind ArtifactsStay.
THEOREM ArtifactInvariant == ArtifactSpec => []ArtifactInv
<1>1. ASSUME ArtifactInv, [ArtifactNext]_artifactVars PROVE ArtifactInv'
  <2>0. ArtifactTypeOK'
    BY <1>1, ArtifactNextTyped DEF ArtifactInv
  <2>1. CASE ArtifactTick \/ UNCHANGED artifactVars
    BY <1>1, <2>0, <2>1
    DEF ArtifactTick, artifactVars, disk, putHistory, ArtifactInv, Stamped, WritersAlone, Alone,
        WritersHalf, Half, FoundIsWhole, Known, Listed, Complete, ReadersFound, Reading, Writing,
        ArtifactsStay
  <2>2. CASE \E s \in ArtifactServers, k \in ArtifactKinds, e \in Exts : PutBegins(s, k, e)
    BY <1>1, <2>0, <2>2, PutBeginsInv
  <2>3. CASE \E s \in ArtifactServers : ContentWritten(s) \/ MetaWritten(s)
    BY <1>1, <2>0, <2>3, ContentWrittenInv, MetaWrittenInv
  <2>4. CASE \E s \in ArtifactServers, id \in DOMAIN metas, step \in {"read", "unlink", "export"} :
               GetMeta(s, id, step)
    BY <1>1, <2>0, <2>4, GetMetaInv
  <2>5. CASE \E s \in ArtifactServers : ReadContent(s) \/ UnlinkContent(s) \/ UnlinkMeta(s)
    BY <1>1, <2>0, <2>5, ReadContentInv, UnlinkContentInv, UnlinkMetaInv
  <2>6. CASE \E s \in ArtifactServers, name \in OutNames, overwrite \in BOOLEAN :
               CheckDestination(s, name, overwrite)
    BY <1>1, <2>0, <2>6, CheckDestinationInv
  <2>7. CASE \E s \in ArtifactServers : OpenDestination(s) \/ CopyEnds(s) \/ ArtifactCrash(s)
    BY <1>1, <2>0, <2>7, OpenDestinationInv, CopyEndsInv, ArtifactCrashInv
  <2> QED BY <1>1, <2>1, <2>2, <2>3, <2>4, <2>5, <2>6, <2>7 DEF ArtifactNext
<1> QED BY <1>1, ArtifactInitInv, PTL DEF ArtifactSpec

\* The files of artifacts, and the calls on them, have their types.
THEOREM ArtifactTypeCorrect == ArtifactSpec => []ArtifactTypeOK
BY ArtifactInvariant, PTL DEF ArtifactInv

\* What put has returned a reference to stays as it was put until it is deleted, and no
\* server is shown anything else under its id (server/artifacts.py), for every number of
\* servers, puts, deletions and crashes.
THEOREM ArtifactsAreKept == ArtifactSpec => []ArtifactsStay
BY ArtifactInvariant, PTL DEF ArtifactInv

-----------------------------------------------------------------------------
(* BrokerRegistry: how native hosts are found, for any profiles, processes  *)
(* and hosts.                                                              *)

\* The types that the other proofs use.
HostTypes ==
  /\ stage \in [Host -> Stages] /\ profileOf \in [Host -> Profiles]
  /\ sock \in [Profiles -> {0} \cup Host] /\ info \in [Profiles -> {0} \cup Host]
  /\ extPort \in [Profiles -> {0} \cup Host] /\ overlaps \subseteq Host

PeerTypes ==
  /\ peerAt \in [Peers -> {"idle", "scan", "dial", "up"}]
  /\ toScan \in [Peers -> SUBSET Profiles]
  /\ best \in [Peers -> [profile : Profiles, started : Host] \cup {NoBroker}]
  /\ hostOf \in [Peers -> {0} \cup Host]
  /\ \A p \in Peers : /\ peerAt[p] = "up" => hostOf[p] # 0
                      /\ peerAt[p] = "dial" => best[p] # NoBroker
  /\ steady \subseteq Peers

LEMMA TypeParts == (TypeOK <=> HostTypes /\ PeerTypes) /\ (TypeOK' <=> HostTypes' /\ PeerTypes')
BY DEF TypeOK, HostTypes, PeerTypes

LEMMA HostsAreNumbers == Host \subseteq Nat /\ 0 \notin Host
BY MaxHostsAssumption DEF Host

\* The steps of a host leave the processes, and of a process the hosts.
LEMMA HostStepTypes ==
  ASSUME HostTypes, PeerTypes, HostNext
  PROVE  HostTypes' /\ PeerTypes'
<1> USE DEF HostTypes, HostBecomes, hostVars, hostFileVars
<1>1. PeerTypes'
  BY DEF HostNext, HostStart, HostBinds, HostRegisters, HostAcks, HostCloses,
     HostUnregisters, HostUnlinks, HostKilled, PortDropped, PeerTypes, peerVars
<1>2. ASSUME NEW f \in Profiles, PortDropped(f) PROVE HostTypes'
  BY <1>2 DEF PortDropped
<1>3. ASSUME NEW h \in Host,
             HostStart(h) \/ HostBinds(h) \/ HostRegisters(h) \/ HostAcks(h)
      PROVE  HostTypes'
  BY <1>3 DEF HostStart, HostBinds, HostRegisters, HostAcks, Stages
<1>4. ASSUME NEW h \in Host,
             HostCloses(h) \/ HostUnregisters(h) \/ HostUnlinks(h) \/ HostKilled(h)
      PROVE  HostTypes'
  BY <1>4 DEF HostCloses, HostUnregisters, HostUnlinks, HostKilled, Stages
<1> QED
  BY <1>1, <1>2, <1>3, <1>4 DEF HostNext

LEMMA PeerStepTypes ==
  ASSUME HostTypes, PeerTypes, PeerNext
  PROVE  HostTypes' /\ PeerTypes'
<1>1. HostTypes'
  BY DEF PeerNext, ScanStart, ScanEntry, ScanDone, Dial, PeerSeesEof, HostTypes, hostVars,
     hostFileVars
<1> SUFFICES PeerTypes'
  BY <1>1
<1> PICK p \in Peers :
      \/ ScanStart(p) \/ ScanDone(p) \/ Dial(p) \/ PeerSeesEof(p)
      \/ \E f \in Profiles : ScanEntry(p, f)
  BY DEF PeerNext
<1> USE DEF PeerTypes
<1>2. CASE ScanStart(p)
  BY <1>2 DEF ScanStart
<1>3. CASE ScanDone(p)
  BY <1>3 DEF ScanDone
<1>4. CASE Dial(p)
  <2>1. best[p].profile \in Profiles
    BY <1>4 DEF Dial
  <2>2. Connectable(best[p].profile) => sock[best[p].profile] \in Host
    BY <2>1 DEF Connectable, HostTypes
  <2>3. Connectable(best[p].profile) => sock[best[p].profile] # 0
    BY DEF Connectable
  <2> QED
    BY <1>4, <2>2, <2>3 DEF Dial
<1>5. CASE PeerSeesEof(p)
  BY <1>5 DEF PeerSeesEof
<1>6. ASSUME NEW f \in Profiles, ScanEntry(p, f) PROVE PeerTypes'
  <2>1. info[f] # 0 => info[f] \in Host
    BY DEF HostTypes
  <2>2. best' \in [Peers -> [profile : Profiles, started : Host] \cup {NoBroker}]
    BY <1>6, <2>1 DEF ScanEntry
  <2> QED
    BY <1>6, <2>2 DEF ScanEntry
<1> QED
  BY <1>2, <1>3, <1>4, <1>5, <1>6

\* The variables keep their types (TypeOK).
THEOREM TypeCorrect == Spec => []TypeOK
<1>1. Init => TypeOK
  BY OwnersAssumption, TypeParts DEF Init, HostTypes, PeerTypes, Stages, NoBroker
<1>2. TypeOK /\ [Next]_vars => TypeOK'
  <2>1. UNCHANGED vars => HostTypes' = HostTypes /\ PeerTypes' = PeerTypes
    BY DEF vars, hostVars, hostFileVars, peerVars, HostTypes, PeerTypes
  <2> QED
    BY <2>1, TypeParts, HostStepTypes, PeerStepTypes DEF Next
<1> QED
  BY <1>1, <1>2, PTL DEF Spec

-----------------------------------------------------------------------------
(* A host in use can be found.                                             *)

\* The extension's port goes to the last host it started, so that no later
\* host of the profile exists; one that bound the socket alone is then alone
\* until it ends, and its files are as it left them.
OneHostInv ==
  \A h \in Host : extPort[profileOf[h]] = h =>
    /\ stage[h] # "none"
    /\ Listening(h) /\ h \notin overlaps =>
         /\ \A g \in Host \ {h} : profileOf[g] = profileOf[h] => stage[g] \in {"none", "done"}
         /\ sock[profileOf[h]] = h
         /\ stage[h] # "bound" => info[profileOf[h]] = h

LEMMA AloneStep ==
  ASSUME HostTypes, OneHostInv, HostNext
  PROVE  OneHostInv'
<1> SUFFICES ASSUME NEW h \in Host, extPort'[profileOf'[h]] = h
             PROVE  /\ stage'[h] # "none"
                    /\ Listening(h)' /\ h \notin overlaps' =>
                         /\ \A g \in Host \ {h} :
                              profileOf'[g] = profileOf'[h] => stage'[g] \in {"none", "done"}
                         /\ sock'[profileOf'[h]] = h
                         /\ stage'[h] # "bound" => info'[profileOf'[h]] = h
  BY DEF OneHostInv
<1> USE HostsAreNumbers DEF HostTypes, HostBecomes, hostFileVars, Listening
<1>1. ASSUME NEW f \in Profiles, PortDropped(f) PROVE OneHostInv'
  BY <1>1 DEF PortDropped, OneHostInv
<1>2. ASSUME NEW g \in Host, HostStart(g) PROVE OneHostInv'
  BY <1>2 DEF HostStart, OneHostInv
<1>3. ASSUME NEW g \in Host, HostBinds(g) PROVE OneHostInv'
  BY <1>3 DEF HostBinds, OneHostInv, HostRuns, Stages
<1>4. ASSUME NEW g \in Host, HostRegisters(g) PROVE OneHostInv'
  BY <1>4 DEF HostRegisters, OneHostInv
<1>5. ASSUME NEW g \in Host, HostAcks(g) PROVE OneHostInv'
  BY <1>5 DEF HostAcks, OneHostInv
<1>6. ASSUME NEW g \in Host, HostCloses(g) \/ HostKilled(g) PROVE OneHostInv'
  BY <1>6 DEF HostCloses, HostKilled, HostRuns, OneHostInv
<1>7. ASSUME NEW g \in Host, HostUnregisters(g) \/ HostUnlinks(g) PROVE OneHostInv'
  BY <1>7 DEF HostUnregisters, HostUnlinks, OneHostInv
<1> QED
  BY <1>1, <1>2, <1>3, <1>4, <1>5, <1>6, <1>7 DEF HostNext, OneHostInv

\* A host that is the extension's bridge can be found unless it bound the
\* socket while another host of the profile was running
\* (FoundUnlessOverlapped).
THEOREM InUseIsFound == Spec => []FoundUnlessOverlapped
<1>1. Init => OneHostInv
  BY HostsAreNumbers, OwnersAssumption DEF Init, OneHostInv
<1>2. TypeOK /\ OneHostInv /\ [Next]_vars => OneHostInv'
  <2>1. ASSUME OneHostInv, PeerNext \/ UNCHANGED vars PROVE OneHostInv'
    <3>1. UNCHANGED hostVars
      BY <2>1 DEF PeerNext, ScanStart, ScanEntry, ScanDone, Dial, PeerSeesEof, vars
    <3> QED
      BY <2>1, <3>1 DEF OneHostInv, Listening, hostVars, hostFileVars
  <2> QED
    BY <2>1, TypeParts, AloneStep DEF Next
<1>3. OneHostInv => FoundUnlessOverlapped
  BY DEF OneHostInv, FoundUnlessOverlapped, InUse, Reachable, Listening
<1> QED
  BY <1>1, <1>2, <1>3, TypeCorrect, PTL DEF Spec

-----------------------------------------------------------------------------
(* Discovery.                                                              *)

FoundLive == {f \in Profiles : info[f] # 0 /\ Connectable(f)}

\* In a scan during which nothing has changed, the best so far is one of the
\* entries looked at, and none of these is newer.
ScanInv ==
  \A p \in steady :
    /\ peerAt[p] = "scan"
    /\ best[p] = NoBroker \/ best[p].profile \in FoundLive
    /\ \A f \in FoundLive \ toScan[p] : info[f] <= best[p].started

LEMMA ScanStep ==
  ASSUME TypeOK, ScanInv, PeerNext
  PROVE  ScanInv'
<1> PICK p \in Peers :
      \/ ScanStart(p) \/ ScanDone(p) \/ Dial(p) \/ PeerSeesEof(p)
      \/ \E f \in Profiles : ScanEntry(p, f)
  BY DEF PeerNext
<1>1. UNCHANGED <<stage, sock, info>> /\ FoundLive' = FoundLive
  BY DEF ScanStart, ScanEntry, ScanDone, Dial, PeerSeesEof, hostVars, hostFileVars, FoundLive,
     Connectable, Listening
<1>2. HostTypes /\ PeerTypes
  BY TypeParts
<1>3. \A f \in FoundLive : info[f] \in Nat /\ info[f] # 0
  BY <1>2, HostsAreNumbers DEF FoundLive, HostTypes
<1> USE DEF PeerTypes
<1>4. CASE ScanStart(p)
  <2>1. FoundLive \subseteq toScan'[p] /\ best'[p] = NoBroker /\ peerAt'[p] = "scan"
    BY <1>2, <1>4 DEF ScanStart, FoundLive
  <2> QED
    BY <1>1, <1>2, <1>4, <2>1 DEF ScanInv, ScanStart
<1>5. CASE ScanDone(p)
  BY <1>1, <1>2, <1>5 DEF ScanInv, ScanDone
<1>6. CASE Dial(p) \/ PeerSeesEof(p)
  BY <1>1, <1>2, <1>6 DEF ScanInv, Dial, PeerSeesEof
<1>7. ASSUME NEW f \in Profiles, ScanEntry(p, f) PROVE ScanInv'
  <2> SUFFICES ASSUME NEW q \in steady'
               PROVE  /\ peerAt'[q] = "scan"
                      /\ best'[q] = NoBroker \/ best'[q].profile \in FoundLive'
                      /\ \A g \in (FoundLive' \ toScan'[q]) : info'[g] <= best'[q].started
    BY DEF ScanInv
  <2>1. q \in steady /\ q \in Peers /\ peerAt' = peerAt
    BY <1>2, <1>7 DEF ScanEntry
  <2>2. CASE q # p
    BY <1>1, <1>2, <1>7, <2>1, <2>2 DEF ScanInv, ScanEntry
  <2>3. CASE q = p
    <3>1. toScan'[p] = toScan[p] \ {f}
      BY <1>2, <1>7 DEF ScanEntry
    <3>2. best[p].started \in Nat
      <4>1. best[p] \in [profile : Profiles, started : Host] \/ best[p] = NoBroker
        BY <1>2
      <4>2. NoBroker.started \in Nat
        BY DEF NoBroker
      <4>3. \A b \in [profile : Profiles, started : Host] : b.started \in Nat
        BY HostsAreNumbers
      <4> QED
        BY <4>1, <4>2, <4>3
    <3>3. CASE f \in FoundLive /\ info[f] >= best[p].started
      <4>1. best'[p] = [profile |-> f, started |-> info[f]]
        BY <1>2, <1>7, <3>3 DEF ScanEntry, FoundLive
      <4>2. ASSUME NEW g \in FoundLive \ toScan'[p] PROVE info[g] <= info[f]
        <5>1. g = f \/ info[g] <= best[p].started
          BY <2>1, <2>3, <3>1, <4>2 DEF ScanInv
        <5> QED
          BY <1>3, <3>2, <3>3, <4>2, <5>1
      <4> QED
        BY <1>1, <2>1, <2>3, <3>3, <4>1, <4>2 DEF ScanInv
    <3>4. CASE ~ (f \in FoundLive /\ info[f] >= best[p].started)
      <4>1. best' = best
        BY <1>7, <3>4 DEF ScanEntry, FoundLive
      <4>2. ASSUME NEW g \in FoundLive \ toScan'[p] PROVE info[g] <= best[p].started
        <5>1. g = f \/ info[g] <= best[p].started
          BY <2>1, <2>3, <3>1, <4>2 DEF ScanInv
        <5> QED
          BY <1>3, <3>2, <3>4, <4>2, <5>1
      <4> QED
        BY <1>1, <2>1, <2>3, <4>1, <4>2 DEF ScanInv
    <3> QED
      BY <3>3, <3>4
  <2> QED
    BY <2>2, <2>3
<1> QED
  BY <1>4, <1>5, <1>6, <1>7

\* A scan during which nothing changes ends with the newest broker that can
\* be connected to, and with none only if there is none (NewestIsChosen).
THEOREM DiscoveryIsRight == Spec => []NewestIsChosen
<1>1. Init => ScanInv
  BY DEF Init, ScanInv
<1>2. TypeOK /\ ScanInv /\ [Next]_vars => ScanInv'
  <2>1. ASSUME ScanInv, HostNext PROVE ScanInv'
    <3>1. steady' = {} \/ UNCHANGED <<stage, sock, info, peerVars, steady>>
      BY <2>1 DEF HostNext, HostStart, HostBinds, HostRegisters, HostAcks, HostCloses,
         HostUnregisters, HostUnlinks, HostKilled, PortDropped, HostBecomes, hostFileVars
    <3> QED
      BY <2>1, <3>1 DEF ScanInv, FoundLive, Connectable, Listening, peerVars
  <2>2. ASSUME ScanInv, UNCHANGED vars PROVE ScanInv'
    BY <2>2 DEF vars, hostVars, hostFileVars, peerVars, ScanInv, FoundLive, Connectable, Listening
  <2> QED
    BY <2>1, <2>2, ScanStep DEF Next
<1>3. TypeOK /\ ScanInv => NewestIsChosen
  <2> SUFFICES ASSUME TypeOK, ScanInv, NEW p \in steady, toScan[p] = {}
               PROVE  \/ FoundLive = {} /\ best[p] = NoBroker
                      \/ /\ best[p].profile \in FoundLive
                         /\ \A f \in FoundLive : info[f] <= best[p].started
    BY DEF NewestIsChosen, FoundLive
  <2>1. \A f \in FoundLive : info[f] \in Nat /\ info[f] # 0
    BY TypeParts, HostsAreNumbers DEF FoundLive, HostTypes
  <2>2. NoBroker.started = 0
    BY DEF NoBroker
  <2> QED
    BY <2>1, <2>2 DEF ScanInv
<1> QED
  BY <1>1, <1>2, <1>3, TypeCorrect, PTL DEF Spec
=============================================================================
