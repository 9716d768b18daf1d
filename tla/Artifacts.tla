----------------------------- MODULE Artifacts -----------------------------
(***************************************************************************)
(* The artifact store (server/artifacts.py): a directory that all server   *)
(* processes share, with a content file and a description for each         *)
(* artifact, and the outbox into which contents are exported.  Calls are   *)
(* taken apart at the steps on files; a server does one call at a time and *)
(* may crash in the middle of it.  A call that ends in an error before it  *)
(* has changed anything is no step.                                        *)
(***************************************************************************)
EXTENDS Naturals, Functions

CONSTANTS
  ArtifactServers, ArtifactKinds,
  Exts,         \* extensions of content files
  OutNames,     \* names in the outbox
  Unfinished,   \* what a file is said to hold that is open for writing
  MaxPuts, MaxArtifactTime, MaxArtifactCrashes   \* bounds

ASSUME ArtifactsAssumption ==
  /\ {MaxPuts, MaxArtifactTime, MaxArtifactCrashes} \subseteq Nat
  /\ Unfinished \notin Exts \cup Nat

VARIABLES
  artifactTime,  \* time.time() in milliseconds
  life,          \* server -> the number of its process, for its pid
  contents,      \* <<id, ext>> -> what the file holds
  metas,         \* id -> "ext" in the description
  outbox,        \* names of the files there
  fileOp,        \* server -> the call in progress
  \* history
  puts,          \* number of artifacts put
  stamps,        \* kind, time and process of each
  reused,        \* stamps of two
  refs,          \* ArtifactRefs that puts have returned
  removed,       \* ids of which a deletion has begun
  shown          \* contents read, or copied to the outbox, with the id

disk == <<contents, metas, outbox>>
putHistory == <<puts, stamps, reused, refs>>
artifactVars == <<artifactTime, life, disk, fileOp, putHistory, removed, shown>>

NoOp == [do |-> "idle"]
Set(f, x, v) == [y \in DOMAIN f \cup {x} |-> IF y = x THEN v ELSE f[y]]
Unlinked(f, x) == Restrict(f, DOMAIN f \ {x})
Does(s, step) == fileOp[s].do = step
Goes(s, op) == fileOp' = [fileOp EXCEPT ![s] = op]

ArtifactInit ==
  /\ artifactTime = 0 /\ life = [s \in ArtifactServers |-> 0]
  /\ contents = [x \in {} |-> Unfinished] /\ metas = [x \in {} |-> Unfinished] /\ outbox = {}
  /\ fileOp = [s \in ArtifactServers |-> NoOp]
  /\ puts = 0 /\ stamps = {} /\ reused = {} /\ refs = {} /\ removed = {} /\ shown = {}

-----------------------------------------------------------------------------
Stamp(s, k) == <<k, artifactTime, s, life[s]>>

\* Mutant: an id without the pid.
IdOfTime(s, k) == <<k, artifactTime, CHOOSE t \in ArtifactServers : TRUE, 0>>

\* _make_id: kind, milliseconds and pid.
MakeId(s, k) == Stamp(s, k)

\* put_text, put_json, put_image_b64, put_file: the content file is opened, and emptied,
PutBegins(s, k, e) ==
  /\ Does(s, "idle") /\ puts < MaxPuts /\ puts' = puts + 1
  /\ contents' = Set(contents, <<MakeId(s, k), e>>, Unfinished)
  /\ Goes(s, [do |-> "content", id |-> MakeId(s, k), ext |-> e, data |-> puts'])
  /\ stamps' = stamps \cup {Stamp(s, k)} /\ reused' = reused \cup (stamps \cap {Stamp(s, k)})
  /\ UNCHANGED <<artifactTime, life, metas, outbox, refs, removed, shown>>

\* and written; then the description is opened,
ContentWritten(s) ==
  /\ Does(s, "content")
  /\ LET o == fileOp[s]
     IN  IF <<o.id, o.ext>> \in DOMAIN contents
         THEN /\ contents' = Set(contents, <<o.id, o.ext>>, o.data)
              /\ metas' = Set(metas, o.id, Unfinished)
              /\ Goes(s, [do |-> "meta", id |-> o.id, ext |-> o.ext, data |-> o.data])
         \* Deleted under the same id: its size cannot be read, and the call fails.
         ELSE UNCHANGED <<contents, metas>> /\ Goes(s, NoOp)
  /\ UNCHANGED <<artifactTime, life, outbox, putHistory, removed, shown>>

\* and written.
MetaWritten(s) ==
  /\ Does(s, "meta") /\ Goes(s, NoOp)
  /\ LET o == fileOp[s]
     IN  /\ metas' = IF o.id \in DOMAIN metas THEN Set(metas, o.id, o.ext) ELSE metas
         /\ refs' = refs \cup {[id |-> o.id, ext |-> o.ext, data |-> o.data]}
  /\ UNCHANGED <<artifactTime, life, contents, outbox, puts, stamps, reused, removed, shown>>

-----------------------------------------------------------------------------
(* Calls with an id.  list, too, leaves out a description that cannot be   *)
(* read.                                                                   *)

Listed == {id \in DOMAIN metas : metas[id] # Unfinished}

\* get_meta
GetMeta(s, id, step) ==
  /\ Does(s, "idle") /\ id \in Listed
  /\ Goes(s, [do |-> step, id |-> id, ext |-> metas[id]])
  /\ removed' = IF step = "unlink" THEN removed \cup {id} ELSE removed
  /\ UNCHANGED <<artifactTime, life, disk, putHistory, shown>>

Source(s) == <<fileOp[s].id, fileOp[s].ext>>
ShownTo(s, data) == shown' = shown \cup {[id |-> fileOp[s].id, data |-> data]}

\* get_text_slice, get_image_b64
ReadContent(s) ==
  /\ Does(s, "read") /\ Goes(s, NoOp)
  /\ IF Source(s) \in DOMAIN contents THEN ShownTo(s, contents[Source(s)]) ELSE UNCHANGED shown
  /\ UNCHANGED <<artifactTime, life, disk, putHistory, removed>>

\* delete: the content goes first.  An unlink that fails is passed over.
UnlinkContent(s) ==
  /\ Does(s, "unlink") /\ Goes(s, [do |-> "unlinkMeta", id |-> fileOp[s].id, ext |-> fileOp[s].ext])
  /\ contents' \in {contents, Unlinked(contents, Source(s))}
  /\ UNCHANGED <<artifactTime, life, metas, outbox, putHistory, removed, shown>>

UnlinkMeta(s) ==
  /\ Does(s, "unlinkMeta") /\ Goes(s, NoOp)
  /\ metas' \in {metas, Unlinked(metas, fileOp[s].id)}
  /\ UNCHANGED <<artifactTime, life, contents, outbox, putHistory, removed, shown>>

\* export: the destination is looked at before it is opened.
CheckDestination(s, name, overwrite) ==
  /\ Does(s, "export")
  /\ IF Source(s) \in DOMAIN contents /\ (name \in outbox => overwrite)
     THEN Goes(s, [do |-> "open", id |-> fileOp[s].id, ext |-> fileOp[s].ext, name |-> name])
     ELSE Goes(s, NoOp)
  /\ UNCHANGED <<artifactTime, life, disk, putHistory, removed, shown>>

OpenDestination(s) ==
  /\ Does(s, "open")
  /\ IF Source(s) \in DOMAIN contents
     THEN /\ outbox' = outbox \cup {fileOp[s].name}
          /\ Goes(s, [do |-> "copy", id |-> fileOp[s].id, data |-> contents[Source(s)]])
     ELSE UNCHANGED outbox /\ Goes(s, NoOp)
  /\ UNCHANGED <<artifactTime, life, contents, metas, putHistory, removed, shown>>

CopyEnds(s) ==
  /\ Does(s, "copy") /\ Goes(s, NoOp) /\ ShownTo(s, fileOp[s].data)
  /\ UNCHANGED <<artifactTime, life, disk, putHistory, removed>>

-----------------------------------------------------------------------------
ArtifactCrash(s) ==
  /\ \A t \in ArtifactServers : life[t] < MaxArtifactCrashes
  /\ life' = [life EXCEPT ![s] = @ + 1] /\ Goes(s, NoOp)
  /\ UNCHANGED <<artifactTime, disk, putHistory, removed, shown>>

ArtifactTick ==
  /\ artifactTime < MaxArtifactTime /\ artifactTime' = artifactTime + 1
  /\ UNCHANGED <<life, disk, fileOp, putHistory, removed, shown>>

ArtifactNext ==
  \/ ArtifactTick
  \/ \E s \in ArtifactServers :
       \/ \E k \in ArtifactKinds, e \in Exts : PutBegins(s, k, e)
       \/ ContentWritten(s) \/ MetaWritten(s)
       \/ \E id \in DOMAIN metas, step \in {"read", "unlink", "export"} : GetMeta(s, id, step)
       \/ ReadContent(s) \/ UnlinkContent(s) \/ UnlinkMeta(s)
       \/ \E name \in OutNames, overwrite \in BOOLEAN : CheckDestination(s, name, overwrite)
       \/ OpenDestination(s) \/ CopyEnds(s) \/ ArtifactCrash(s)

ArtifactSpec == ArtifactInit /\ [][ArtifactNext]_artifactVars

-----------------------------------------------------------------------------
Ids == ArtifactKinds \X (0..MaxArtifactTime) \X ArtifactServers \X (0..MaxArtifactCrashes)
Data == 1..MaxPuts

FileOps ==
  {NoOp} \cup [do : {"content", "meta"}, id : Ids, ext : Exts, data : Data]
         \cup [do : {"read", "unlink", "unlinkMeta", "export"}, id : Ids, ext : Exts]
         \cup [do : {"open"}, id : Ids, ext : Exts, name : OutNames]
         \cup [do : {"copy"}, id : Ids, data : Data \cup {Unfinished}]

ArtifactTypeOK ==
  /\ artifactTime \in 0..MaxArtifactTime /\ life \in [ArtifactServers -> 0..MaxArtifactCrashes]
  /\ DOMAIN contents \subseteq Ids \X Exts
  /\ \A x \in DOMAIN contents : contents[x] \in Data \cup {Unfinished}
  /\ DOMAIN metas \subseteq Ids /\ \A id \in DOMAIN metas : metas[id] \in Exts \cup {Unfinished}
  /\ outbox \subseteq OutNames /\ fileOp \in [ArtifactServers -> FileOps]
  /\ puts \in 0..MaxPuts /\ stamps \subseteq Ids
  /\ refs \subseteq [id : Ids, ext : Exts, data : Data]
  /\ shown \subseteq [id : Ids, data : Data \cup {Unfinished}]

\* An artifact whose reference a put has returned stays as it was put until somebody
\* deletes it; and what a server reads or exports under an id is all of what was put under
\* it, whatever other servers put, delete or leave half done in a crash.  Only a process
\* that puts two of a kind in one millisecond gives them one id (_make_id).
ArtifactsStay ==
  /\ \A r \in refs :
       r.id \notin reused \cup removed =>
         /\ r.id \in DOMAIN metas /\ metas[r.id] = r.ext
         /\ <<r.id, r.ext>> \in DOMAIN contents /\ contents[<<r.id, r.ext>>] = r.data
  /\ \A x \in shown :
       x.id \notin reused =>
         x.data # Unfinished /\ \A r \in refs : r.id = x.id => r.data = x.data
=============================================================================
