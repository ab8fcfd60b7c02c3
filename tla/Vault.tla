------------------------------- MODULE Vault --------------------------------
(***************************************************************************)
(* The snapshot vault of gobstopper-adapters (vault.rs, with the file      *)
(* operations of transaction.rs): content-addressed chunks and manifests,  *)
(* the index of snapshots, recovery pins, and prune.  Several processes    *)
(* use one vault directory.  They may get an I/O error or be killed at any *)
(* step, and the machine may lose power.                                   *)
(*                                                                         *)
(* A file has its name in one of the directories "chunks", "manifests" and *)
(* "pins".  seen is what a process that looks finds there.  durable is     *)
(* what is on the disk for sure as far as names are concerned: a name that *)
(* is in one of the two sets only may or may not be there after a power    *)
(* loss.  Files are synced before they get their name, and a name is only  *)
(* ever given to the content it is the digest of.                          *)
(*                                                                         *)
(* The index is a file of rows, possibly with a torn line at its end; a    *)
(* row's id is its rank among all that were ever appended.  images are the *)
(* contents a power loss may leave the index with.                         *)
(*                                                                         *)
(* Left out: legacy records and objects, which prune never collects;       *)
(* operation receipts, which are roots like pins; what private_dir syncs,  *)
(* which only makes more durable; readers' and writers' byte limits.       *)
(***************************************************************************)
EXTENDS Integers, FiniteSets

CONSTANTS
  Processes,
  Docs,          \* transcripts: the byte strings that are snapshotted
  Chunks,        \* digests of their pieces
  ChunksOf,      \* Docs -> the pieces of each
  Streams,       \* provider, path and session of a snapshot
  Keep,          \* snapshots per stream that prune keeps
  MaxRows,       \* bound: snapshots that reach the index
  MaxCrashes,    \* bound: calls that are killed or end in an I/O error
  MaxOutages     \* bound: power losses

ASSUME VaultAssumption ==
  /\ ChunksOf \in [Docs -> SUBSET Chunks]
  /\ {Keep, MaxRows, MaxCrashes, MaxOutages} \subseteq Nat
\* Temporary files have names of their own.
ASSUME NamesAssumption ==
  /\ Processes \cap (Docs \cup Chunks) = {}
  /\ "litter" \notin Processes \cup Docs \cup Chunks

VARIABLES
  seen, durable,   \* names of files
  index, images,   \* the index, and what a power loss may make of it
  proc,            \* Processes -> what each is doing
  acked,           \* rows of snapshots that were reported as taken
  taken, crashes, outages   \* counters

vars == <<seen, durable, index, images, proc, acked, taken, crashes, outages>>

-----------------------------------------------------------------------------
(* Names and what a document needs                                         *)

Chunk(c) == [dir |-> "chunks", of |-> c]
Manifest(d) == [dir |-> "manifests", of |-> d]
Pin(d) == [dir |-> "pins", of |-> d]
Temporary(dir, p) == [dir |-> dir, of |-> p]
Litter(dir) == [dir |-> dir, of |-> "litter"]   \* a temporary whose process is gone

ChunkFiles(d) == {Chunk(c) : c \in ChunksOf[d]}
Objects(d) == ChunkFiles(d) \cup {Manifest(d)}
Pieces == {Chunk(c) : c \in Chunks}
Manifests == {Manifest(d) : d \in Docs}
Pins == {Pin(d) : d \in Docs}
Temporaries == {Temporary(n, p) : n \in {"chunks", "manifests", "pins"}, p \in Processes}
Litters == {Litter(n) : n \in {"chunks", "manifests", "pins"}}

\* read_object_locked and reconstruct_manifest: every piece is there.
Readable(d) == Objects(d) \subseteq seen
Pinned == {d \in Docs : Pin(d) \in seen}

\* The names on disk once a directory is synced.
Synced(dir) == {n \in durable : n.dir # dir} \cup {n \in seen : n.dir = dir}

-----------------------------------------------------------------------------
(* Processes and their custody of the vault directory                      *)

DocsIn(rows) == {r.doc : r \in rows}

\* left are files a call has still to publish or to remove, file is the one it
\* is publishing, rows are those it is putting into the index.
Idle == [job |-> "none", step |-> "idle", doc |-> "none", stream |-> "none",
         left |-> {}, file |-> {}, rows |-> {}]
Busy(p) == proc[p].step # "idle"

Exclusive(job) == job \in {"pin", "prune"}
MayShare(p) == \A q \in Processes : ~Exclusive(proc[q].job)
MayExclude(p) == \A q \in Processes : ~Busy(q)

\* append_index holds the index lock from reading the old rows to the sync.
Unlocked == \A q \in Processes : proc[q].step # "sync"

Becomes(p, r) == proc' = [proc EXCEPT ![p] = r]
GoesTo(p, step) == proc' = [proc EXCEPT ![p].step = step]
Done(p, n) == proc' = [proc EXCEPT ![p].step = "publish", ![p].left = @ \ {n}]

-----------------------------------------------------------------------------
(* Publishing files: chunks before the manifest that names them            *)

NextFiles(p) ==
  IF proc[p].left \cap Pieces # {} THEN proc[p].left \cap Pieces ELSE proc[p].left

\* snapshot_data begins.
Snapshot(p, d, s) ==
  /\ ~Busy(p) /\ MayShare(p) /\ Unlocked /\ ~index.torn
  /\ Becomes(p, [Idle EXCEPT !.job = "snapshot", !.step = "publish", !.doc = d, !.stream = s,
                             !.left = Objects(d)])
  /\ UNCHANGED <<seen, durable, index, images, acked, taken, crashes, outages>>

\* retain_operation_snapshot begins, for a transcript its caller has snapshotted
\* under an earlier custody.
Retain(p, d) ==
  /\ ~Busy(p) /\ MayExclude(p) /\ Readable(d) /\ d \in DocsIn(acked)
  /\ Becomes(p, [Idle EXCEPT !.job = "pin", !.step = "publish", !.doc = d, !.left = {Pin(d)}])
  /\ UNCHANGED <<seen, durable, index, images, acked, taken, crashes, outages>>

\* publish_new: write and sync a temporary file, if the name is not taken.
Write(p, n) ==
  /\ proc[p].step = "publish" /\ n \in NextFiles(p) /\ n \notin seen
  /\ seen' = seen \cup {Temporary(n.dir, p)}
  /\ proc' = [proc EXCEPT ![p].step = "link", ![p].file = {n}]
  /\ UNCHANGED <<durable, index, images, acked, taken, crashes, outages>>

\* Link it to its name, unless a peer was faster.
Link(p, n) ==
  /\ proc[p].step = "link" /\ n \in proc[p].file
  /\ IF n \in seen
     THEN /\ seen' = seen \ {Temporary(n.dir, p)}
          /\ proc' = [proc EXCEPT ![p].step = "publish", ![p].file = {}]
     ELSE /\ seen' = seen \cup {n}
          /\ GoesTo(p, "settle")
  /\ UNCHANGED <<durable, index, images, acked, taken, crashes, outages>>

\* Sync the directory; the temporary file is dropped after that.
Settle(p, n) ==
  /\ proc[p].step = "settle" /\ n \in proc[p].file
  /\ durable' = Synced(n.dir)
  /\ seen' = seen \ {Temporary(n.dir, p)}
  /\ proc' = [proc EXCEPT ![p].step = "publish", ![p].left = @ \ {n}, ![p].file = {}]
  /\ UNCHANGED <<index, images, acked, taken, crashes, outages>>

\* As if equal bytes were enough.
Trust(p, n) ==
  /\ proc[p].step = "publish" /\ n \in NextFiles(p) /\ n \in seen
  /\ Done(p, n)
  /\ UNCHANGED <<seen, durable, index, images, acked, taken, crashes, outages>>
\* confirm_publication of a file that was there: its peer may not have synced it.
Confirm(p, n) ==
  /\ proc[p].step = "publish" /\ n \in NextFiles(p) /\ n \in seen
  /\ durable' = Synced(n.dir)
  /\ Done(p, n)
  /\ UNCHANGED <<seen, index, images, acked, taken, crashes, outages>>

Retained(p) ==
  /\ proc[p].job = "pin" /\ proc[p].step = "publish" /\ proc[p].left = {}
  /\ Becomes(p, Idle)
  /\ UNCHANGED <<seen, durable, index, images, acked, taken, crashes, outages>>

-----------------------------------------------------------------------------
(* The index                                                               *)

Image(rows, torn) == [rows |-> rows, torn |-> torn]

\* append_index: write a row behind the others, then sync the file and its
\* directory.  All of them must parse, and no torn line may be among them.
MayAppend(p) ==
  /\ proc[p].job = "snapshot" /\ proc[p].step = "publish" /\ proc[p].left = {}
  /\ Readable(proc[p].doc)
  /\ Unlocked /\ ~index.torn /\ taken < MaxRows
NewRow(p) == [doc |-> proc[p].doc, stream |-> proc[p].stream, id |-> taken + 1]
AppendRow(p) ==
  /\ MayAppend(p)
  /\ taken' = taken + 1
  /\ index' = Image(index.rows \cup {NewRow(p)}, FALSE)
  /\ images' = images \cup {Image(index.rows, TRUE), index'}
  /\ proc' = [proc EXCEPT ![p].step = "sync", ![p].rows = {NewRow(p)}]
  /\ UNCHANGED <<seen, durable, acked, crashes, outages>>

SyncRow(p) ==
  /\ proc[p].step = "sync"
  /\ images' = {index}
  /\ acked' = acked \cup proc[p].rows
  /\ Becomes(p, Idle)
  /\ UNCHANGED <<seen, durable, index, taken, crashes, outages>>

\* Reader: select a row and read its object under one custody.
Select(p, r) ==
  /\ ~Busy(p) /\ MayShare(p) /\ Unlocked /\ ~index.torn
  /\ r \in index.rows
  /\ Becomes(p, [Idle EXCEPT !.job = "read", !.step = "read", !.doc = r.doc])
  /\ UNCHANGED <<seen, durable, index, images, acked, taken, crashes, outages>>
Read(p) ==
  /\ proc[p].step = "read"
  /\ Becomes(p, Idle)
  /\ UNCHANGED <<seen, durable, index, images, acked, taken, crashes, outages>>

-----------------------------------------------------------------------------
(* Prune                                                                   *)

Newer(rows, r) == {q \in rows : q.stream = r.stream /\ q.id > r.id}
\* As if the oldest of a stream were kept.
OldestKept(rows) ==
  {r \in rows : Cardinality({q \in rows : q.stream = r.stream /\ q.id < r.id}) < Keep}
NewestKept(rows) == {r \in rows : Cardinality(Newer(rows, r)) < Keep}

Roots == DocsIn(NewestKept(index.rows)) \cup Pinned

\* Manifests of dropped rows go; a manifest no row names is not touched.
DeadDocs == {d \in DocsIn(index.rows) \ Roots : Manifest(d) \in seen}
\* What manifests name; as if prune went by all of them, the dead ones included.
ChunksNamed == UNION {ChunkFiles(d) : d \in {e \in Docs : Manifest(e) \in seen}}
\* Chunks go that no remaining manifest names.
LiveChunks == UNION {ChunkFiles(d) : d \in {e \in Docs \ DeadDocs : Manifest(e) \in seen}}
DeadFiles == {Manifest(d) : d \in DeadDocs} \cup ((seen \cap Pieces) \ LiveChunks)

\* What stops prune: a torn index, a temporary file somebody left, a root or a
\* manifest that cannot be read back.
PruneRefused ==
  \/ index.torn
  \/ seen \cap Litters # {}
  \/ \E d \in Roots : ~Readable(d)
  \/ \E d \in Docs : Manifest(d) \in seen /\ ~Readable(d)

Prune(p) ==
  /\ ~Busy(p) /\ MayExclude(p) /\ ~PruneRefused
  /\ Becomes(p, [Idle EXCEPT !.job = "prune", !.step = "replace", !.left = DeadFiles,
                             !.rows = NewestKept(index.rows)])
  /\ UNCHANGED <<seen, durable, index, images, acked, taken, crashes, outages>>

\* replace: rename a synced file over the index, unless nothing would change.
\* The rename of the temporary file leaves none behind in the scanned directories.
ReplaceIndex(p) ==
  /\ proc[p].step = "replace"
  /\ index' = Image(proc[p].rows, FALSE)
  /\ images' = images \cup {index'}
  /\ GoesTo(p, IF index' = index THEN "manifests" ELSE "replaced")
  /\ UNCHANGED <<seen, durable, acked, taken, crashes, outages>>
SyncIndex(p) ==
  /\ proc[p].step = "replaced"
  /\ images' = {index}
  /\ GoesTo(p, "manifests")
  /\ UNCHANGED <<seen, durable, index, acked, taken, crashes, outages>>

\* As if chunks and manifests were removed in any order.
RemovableAny(p) == proc[p].left
Removable(p) ==
  IF proc[p].step = "manifests" THEN proc[p].left \cap Manifests
  ELSE IF proc[p].step = "chunks" THEN proc[p].left ELSE {}
Unlink(p, n) ==
  /\ proc[p].step \in {"manifests", "chunks"} /\ n \in Removable(p)
  /\ seen' = seen \ {n}
  /\ proc' = [proc EXCEPT ![p].left = @ \ {n}]
  /\ UNCHANGED <<durable, index, images, acked, taken, crashes, outages>>
SyncManifests(p) ==
  /\ proc[p].step = "manifests" /\ Removable(p) = {}
  /\ durable' = Synced("manifests")
  /\ GoesTo(p, "chunks")
  /\ UNCHANGED <<seen, index, images, acked, taken, crashes, outages>>
SyncChunks(p) ==
  /\ proc[p].step = "chunks" /\ Removable(p) = {}
  /\ durable' = Synced("chunks")
  /\ Becomes(p, Idle)
  /\ UNCHANGED <<seen, index, images, acked, taken, crashes, outages>>

-----------------------------------------------------------------------------
(* Errors, kills, power losses                                             *)

Crash == crashes < MaxCrashes /\ crashes' = crashes + 1
Own(p) == {n \in seen : n.of = p}

\* An I/O error ends the call; its temporary file is dropped on the way out.
Fail(p) ==
  /\ Busy(p) /\ Crash
  /\ seen' = seen \ Own(p)
  /\ Becomes(p, Idle)
  /\ UNCHANGED <<durable, index, images, acked, taken, outages>>

\* The process is killed: its locks are free, its temporary file stays.
Kill(p) ==
  /\ Busy(p) /\ Crash
  /\ seen' = (seen \ Own(p)) \cup {Litter(n.dir) : n \in Own(p)}
  /\ durable' = (durable \ Own(p)) \cup {Litter(n.dir) : n \in Own(p) \cap durable}
  /\ Becomes(p, Idle)
  /\ UNCHANGED <<index, images, acked, taken, outages>>

\* Either may happen in the middle of writing a row.
TearRow(p) ==
  /\ MayAppend(p) /\ Crash
  /\ index' = Image(index.rows, TRUE)
  /\ images' = images \cup {index'}
  /\ Becomes(p, Idle)
  /\ UNCHANGED <<seen, durable, acked, taken, outages>>

\* Every process is gone, and each name that was not synced is there or not.
Settled(n) == IF n \in Temporaries THEN Litter(n.dir) ELSE n
PowerLoss ==
  /\ outages < MaxOutages /\ outages' = outages + 1
  /\ \E lost \in SUBSET ((seen \ durable) \cup (durable \ seen)) :
       seen' = {Settled(n) : n \in (seen \cup durable) \ lost}
  /\ durable' = seen'
  /\ index' \in images
  /\ images' = {index'}
  /\ proc' = [p \in Processes |-> Idle]
  /\ UNCHANGED <<acked, taken, crashes>>

-----------------------------------------------------------------------------
Init ==
  /\ seen = {} /\ durable = {}
  /\ index = Image({}, FALSE) /\ images = {index}
  /\ proc = [p \in Processes |-> Idle]
  /\ acked = {} /\ taken = 0 /\ crashes = 0 /\ outages = 0

Step(p) ==
  \/ \E d \in Docs, s \in Streams : Snapshot(p, d, s)
  \/ \E d \in Docs : Retain(p, d)
  \/ \E n \in NextFiles(p) : Write(p, n) \/ Confirm(p, n)
  \/ \E n \in proc[p].file : Link(p, n) \/ Settle(p, n)
  \/ Retained(p) \/ AppendRow(p) \/ SyncRow(p)
  \/ \E r \in index.rows : Select(p, r)
  \/ Read(p)
  \/ Prune(p) \/ ReplaceIndex(p) \/ SyncIndex(p) \/ SyncManifests(p) \/ SyncChunks(p)
  \/ \E n \in proc[p].left : Unlink(p, n)
  \/ Fail(p) \/ Kill(p) \/ TearRow(p)
Next == PowerLoss \/ \E p \in Processes : Step(p)

Spec == Init /\ [][Next]_vars

-----------------------------------------------------------------------------
(* Properties                                                              *)

Rows == [doc: Docs, stream: Streams, id: 1..MaxRows]
Names == Pieces \cup Manifests \cup Pins \cup Temporaries \cup Litters

\* Files are where they belong, and at most one process holds the index lock.
TypeOK ==
  /\ seen \subseteq Names /\ durable \subseteq Names
  /\ index \in images
  /\ \A i \in images : DOMAIN i = {"rows", "torn"} /\ i.rows \subseteq Rows /\ i.torn \in BOOLEAN
  /\ acked \subseteq Rows /\ taken \in 0..MaxRows
  /\ crashes \in 0..MaxCrashes /\ outages \in 0..MaxOutages
  /\ \A p, q \in Processes : proc[p].step = "sync" /\ proc[q].step = "sync" => p = q

\* Whatever crashed before, every row of the index names a snapshot that can be
\* read back; and so does every pin as long as only processes died.
RootsReadable ==
  /\ \A r \in index.rows : Readable(r.doc)
  /\ outages = 0 => \A d \in Pinned : Readable(d)

\* "Retain a verified recovery object for a provider operation indefinitely": a
\* pin names a snapshot that can be read back, whatever crashed before.
PinsReadable == \A d \in Pinned : Readable(d)

\* No manifest outlives a chunk it names, not even one no root needs any more:
\* prune reads every manifest back before it touches anything, so a dangling
\* one would stop it for good.
ManifestsWhole == \A d \in Docs : Manifest(d) \in seen => Readable(d)

\* Whatever crashed before, rows, pins and manifests can be read back.
HistoryReadable == RootsReadable /\ ManifestsWhole

\* A snapshot that was reported as taken stays in the index until as many newer
\* ones of its stream are in there as prune keeps.
NewestSurvive ==
  \A r \in acked :
    \/ r \in index.rows
    \/ Cardinality(Newer(index.rows, r)) >= Keep

\* Under its custody a call's object stays what it saw: what a snapshot published
\* or found is there and durable, what a reader selected can be read.
CustodyHolds ==
  \A p \in Processes :
    /\ proc[p].job = "snapshot" => Objects(proc[p].doc) \ proc[p].left \subseteq seen \cap durable
    /\ proc[p].job \in {"read", "pin"} => Readable(proc[p].doc)

\* A prune that ends leaves no chunk behind that no manifest names.
NothingLeft ==
  [][\A p \in Processes :
       /\ proc[p].step = "chunks" /\ proc'[p].step = "idle"
       /\ crashes' = crashes /\ outages' = outages
       => seen' \cap Pieces \subseteq ChunksNamed]_vars
=============================================================================
