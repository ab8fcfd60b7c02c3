---------------------------- MODULE VaultProofs ----------------------------
(***************************************************************************)
(* Theorems about what is written to disk: Vault, for any processes,       *)
(* transcripts, chunks and streams, and Copies, for any operations, paths  *)
(* and calls; and any number of kills, errors, edits and power losses.     *)
(*                                                                         *)
(* Vault. A power loss may restore any image of the index, and any mixture *)
(* of the names that are seen and those that are on disk. So the invariant *)
(* speaks of every image and of both sets of names: what a row of any      *)
(* image needs is in both (Rooted), and so are the chunks of a manifest    *)
(* that is in either (Whole). The rest says what each call knows while it  *)
(* is under way (JobOK), and that it is alone where it has to be (Alone,   *)
(* Locked).                                                                *)
(*                                                                         *)
(* Copies. The three properties are made inductive by what a call relies   *)
(* on at each of its steps (CallOK), by the locks that keep other calls    *)
(* off its receipt (OneEach), and by the fact that a receipt never goes    *)
(* away, or back, once it has been seen (Stays).  The lock is taken after  *)
(* the directory was synced: until then a call knows only that a receipt   *)
(* that has not changed since is on the disk (OpenedOK), and a copy whose  *)
(* call took up one that had is set apart (unsure, SureOK).                *)
(***************************************************************************)
EXTENDS Vault, Copies, FiniteSetTheorems, WellFoundedInduction, TLAPS

Content == Pieces \cup Manifests \cup Pins

Call == [job: {"none", "snapshot", "pin", "read", "prune"},
         step: {"idle", "publish", "link", "settle", "sync", "read",
                "replace", "replaced", "manifests", "chunks"},
         doc: Docs \cup {"none"}, stream: Streams \cup {"none"},
         left: SUBSET Content, file: SUBSET Content, rows: SUBSET Rows]

\* What a call writes next: a manifest only when all its chunks are settled.
FileOK(p) ==
  /\ proc[p].file \subseteq proc[p].left /\ \A m, n \in proc[p].file : m = n
  /\ proc[p].left \cap Pieces = {} \/ proc[p].file \subseteq Pieces
  /\ proc[p].step \in {"publish", "sync"} => proc[p].file = {}
  /\ proc[p].step = "settle" => proc[p].file \subseteq seen

SnapshotOK(p) ==
  /\ proc[p].step \in {"publish", "link", "settle", "sync"}
  /\ proc[p].doc \in Docs /\ proc[p].stream \in Streams
  /\ proc[p].left \subseteq Objects(proc[p].doc)
  /\ Objects(proc[p].doc) \ proc[p].left \subseteq seen \cap durable
  /\ FileOK(p)
  /\ proc[p].step = "sync" => proc[p].rows \subseteq index.rows

PinOK(p) ==
  /\ proc[p].step \in {"publish", "link", "settle"}
  /\ proc[p].doc \in Docs
  /\ proc[p].left \subseteq {Pin(proc[p].doc)}
  /\ FileOK(p)
  /\ Readable(proc[p].doc)

ReadOK(p) == proc[p].step = "read" /\ proc[p].doc \in Docs /\ Readable(proc[p].doc)

\* What will be there when prune is through; manifests it leaves lose no chunk,
\* and no chunk stays without one.
Staying(p) == seen \ proc[p].left
PruneOK(p) ==
  /\ proc[p].step \in {"replace", "replaced", "manifests", "chunks"}
  /\ proc[p].left \subseteq Manifests \cup Pieces
  /\ \A d \in Docs : Manifest(d) \in Staying(p) => ChunkFiles(d) \cap proc[p].left = {}
  /\ \A c \in Chunks : Chunk(c) \in Staying(p) =>
       \E d \in Docs : Manifest(d) \in Staying(p) /\ c \in ChunksOf[d]
  /\ \A d \in Pinned : Manifest(d) \notin proc[p].left
  /\ proc[p].step = "replace" =>
       /\ proc[p].rows = NewestKept(index.rows) /\ ~index.torn
       /\ \A r \in proc[p].rows : Manifest(r.doc) \notin proc[p].left
       /\ proc[p].rows = index.rows => proc[p].left \cap Manifests = {}
  /\ proc[p].step = "replaced" => \A r \in index.rows : Manifest(r.doc) \notin proc[p].left
  /\ proc[p].step \in {"manifests", "chunks"} =>
       \A i \in images : \A r \in i.rows : Manifest(r.doc) \notin proc[p].left
  /\ proc[p].step = "chunks" =>
       proc[p].left \subseteq Pieces /\ durable \cap Manifests \subseteq seen

JobOK(p) ==
  /\ proc[p].job = "none" => proc[p].step = "idle"
  /\ proc[p].job = "snapshot" => SnapshotOK(p)
  /\ proc[p].job = "pin" => PinOK(p)
  /\ proc[p].job = "read" => ReadOK(p)
  /\ proc[p].job = "prune" => PruneOK(p)

Alone == \A p, q \in Processes : Exclusive(proc[p].job) /\ Busy(q) => p = q
Locked == \A p, q \in Processes : proc[p].step = "sync" /\ proc[q].step = "sync" => p = q

Whole == \A d \in Docs :
  Manifest(d) \in seen \cup durable => ChunkFiles(d) \subseteq seen \cap durable
Rooted == \A i \in images : \A r \in i.rows : Objects(r.doc) \subseteq seen \cap durable
PinsRooted == outages = 0 => \A d \in Pinned : Readable(d)
Newest == \A i \in images : \A r \in acked :
  r \in i.rows \/ Cardinality(Newer(i.rows, r)) >= Keep

Typed ==
  /\ seen \subseteq Names /\ durable \subseteq Names
  /\ proc \in [Processes -> Call]
  /\ index \in images
  /\ images \subseteq [rows: SUBSET Rows, torn: BOOLEAN]
  /\ \A i \in images : IsFiniteSet(i.rows)
  /\ acked \subseteq Rows
  /\ taken \in 0..MaxRows /\ crashes \in 0..MaxCrashes /\ outages \in 0..MaxOutages

Files == Whole /\ Rooted /\ PinsRooted
CallsFit == (\A p \in Processes : JobOK(p)) /\ Alone /\ Locked
IInv == Typed /\ Files /\ CallsFit /\ Newest

-----------------------------------------------------------------------------
(* Names, and what is newest                                               *)

\* Temporary files and what is left of them never hide content.
LEMMA Apart ==
  /\ Content \cap Temporaries = {} /\ Content \cap Litters = {}
  /\ \A n \in Content : n.of \notin Processes /\ n.dir \in {"chunks", "manifests", "pins"}
<1>1. \A n \in Content : n.of \in Docs \cup Chunks /\ n.dir \in {"chunks", "manifests", "pins"}
  BY DEF Content, Pieces, Manifests, Pins, Chunk, Manifest, Pin
<1>2. \A n \in Temporaries \cup Litters : n.of \in Processes \cup {"litter"}
  BY DEF Temporaries, Litters, Temporary, Litter
<1> QED BY <1>1, <1>2, NamesAssumption

\* A row with Keep newer ones in its stream has Keep of them among those prune keeps:
\* the newest that prune drops has Keep newer ones itself, and all of them are kept.
LEMMA KeptAreNewest ==
  ASSUME NEW R \in SUBSET Rows, IsFiniteSet(R), NEW r \in Rows, Cardinality(Newer(R, r)) >= Keep
  PROVE  Cardinality(Newer(NewestKept(R), r)) >= Keep
<1> DEFINE K == NewestKept(R)
           T == Newer(R, r) \ K
<1>1. K \subseteq R /\ Newer(K, r) \subseteq R /\ Newer(R, r) \subseteq R /\ Keep \in Nat
  BY VaultAssumption DEF NewestKept, Newer
<1>2. IsFiniteSet(Newer(K, r)) /\ IsFiniteSet(Newer(R, r)) /\ Cardinality(Newer(K, r)) \in Nat
  BY <1>1, FS_Subset, FS_CardinalityType
<1>3. ASSUME NEW S \in SUBSET Newer(K, r), Cardinality(S) >= Keep
      PROVE  Cardinality(Newer(K, r)) >= Keep
  <2>1. Cardinality(S) <= Cardinality(Newer(K, r)) /\ IsFiniteSet(S)
    BY <1>2, FS_Subset
  <2>2. Cardinality(S) \in Nat
    BY <2>1, FS_CardinalityType
  <2> QED BY <1>1, <1>2, <1>3, <2>1, <2>2
<1>4. CASE T = {}
  <2>1. Newer(R, r) \subseteq Newer(K, r)
    BY <1>4 DEF Newer
  <2> QED BY <1>3, <2>1
<1>5. CASE T # {}
  <2> DEFINE Ages == {MaxRows - q.id : q \in T}
  <2>1. \A q \in T : q \in R /\ q.id \in 1..MaxRows /\ q.stream = r.stream /\ q.id > r.id
    BY <1>1 DEF Newer, Rows
  <2>2. Ages \subseteq Nat /\ Ages # {}
    BY <1>5, <2>1, VaultAssumption
  <2>3. PICK a \in Ages : \A b \in Ages : ~(<<b, a>> \in OpToRel(<, Nat))
    BY <2>2, NatLessThanWellFounded, WFMin
  <2>4. PICK q \in T : a = MaxRows - q.id
    OBVIOUS
  <2>5. \A t \in T : t.id <= q.id
    <3> TAKE t \in T
    <3>1. MaxRows - t.id \in Ages /\ MaxRows - t.id \in Nat /\ MaxRows - q.id \in Nat
      BY <2>2
    <3>2. ~(MaxRows - t.id < MaxRows - q.id)
      BY <2>3, <2>4, <3>1 DEF OpToRel
    <3> QED BY <2>1, <3>2, VaultAssumption
  <2>6. Cardinality(Newer(R, q)) >= Keep
    <3>1. ~(Cardinality(Newer(R, q)) < Keep)
      BY <2>1 DEF NewestKept
    <3>2. Newer(R, q) \in SUBSET R
      BY DEF Newer
    <3>3. Cardinality(Newer(R, q)) \in Nat
      BY <3>2, FS_Subset, FS_CardinalityType
    <3> QED BY <1>1, <3>1, <3>3
  <2>7. Newer(R, q) \subseteq Newer(K, r)
    <3> SUFFICES ASSUME NEW t \in Newer(R, q) PROVE t \in Newer(K, r)
      OBVIOUS
    <3>1. t \in R /\ t.stream = r.stream /\ t.id > q.id /\ t.id \in 1..MaxRows /\ r.id \in 1..MaxRows
      BY <2>1 DEF Newer, Rows
    <3>2. t.id > r.id /\ t \in Newer(R, r)
      BY <2>1, <3>1, VaultAssumption DEF Newer
    <3>3. t \notin T
      BY <2>1, <2>5, <3>1, VaultAssumption
    <3> QED BY <3>1, <3>2, <3>3 DEF Newer
  <2> QED BY <1>3, <2>6, <2>7
<1> QED BY <1>4, <1>5

LEMMA NamesApart ==
  /\ \A d \in Docs : Manifest(d) \in Content /\ Pin(d) \in Content
                     /\ Objects(d) \subseteq Content /\ ChunkFiles(d) \subseteq Pieces
                     /\ ChunkFiles(d) \subseteq Objects(d)
  /\ Pieces \cap Manifests = {} /\ Pieces \cap Pins = {} /\ Manifests \cap Pins = {}
  /\ \A p \in Processes, n \in Content : Temporary(n.dir, p) \notin Content
                                         /\ Temporary(n.dir, p) \in Temporaries
  /\ \A p \in Processes : Own(p) \cap Content = {}
<1>1. Pieces \cap Manifests = {} /\ Pieces \cap Pins = {} /\ Manifests \cap Pins = {}
  BY DEF Pieces, Manifests, Pins, Chunk, Manifest, Pin
<1>2. \A d \in Docs : Manifest(d) \in Content /\ Pin(d) \in Content
                      /\ Objects(d) \subseteq Content /\ ChunkFiles(d) \subseteq Pieces
                      /\ ChunkFiles(d) \subseteq Objects(d)
  BY VaultAssumption DEF Content, Objects, ChunkFiles, Pieces, Manifests, Pins
<1>3. \A p \in Processes, n \in Content : Temporary(n.dir, p) \in Temporaries
  BY Apart DEF Temporaries
<1>4. \A p \in Processes : Own(p) \cap Content = {}
  BY Apart DEF Own
<1> QED BY <1>1, <1>2, <1>3, <1>4, Apart

-----------------------------------------------------------------------------
(* What a step leaves alone                                                *)

\* No content is taken away, neither from sight nor from the disk.
Keeps ==
  /\ seen \cap Content \subseteq seen'
  /\ seen \cap durable \cap Content \subseteq durable'

\* No manifest and no pin is new.
NoneNew ==
  /\ \A d \in Docs : Manifest(d) \in seen' \cup durable' => Manifest(d) \in seen \cup durable
  /\ Pinned' \subseteq Pinned

\* A row that comes up is one of an old image, or its object is settled.
RowsSettled ==
  \A i \in images' : \A r \in i.rows :
    \/ \E j \in images : r \in j.rows
    \/ r.doc \in Docs /\ Objects(r.doc) \subseteq seen \cap durable

LEMMA ReadableKept ==
  ASSUME Keeps, NEW d \in Docs, Readable(d)
  PROVE  Readable(d)'
BY NamesApart DEF Readable, Keeps

LEMMA RootedKept ==
  ASSUME Typed, Files, Keeps, RowsSettled
  PROVE  Rooted'
<1> SUFFICES ASSUME NEW i \in images', NEW r \in i.rows
             PROVE  Objects(r.doc) \subseteq seen' \cap durable'
  BY DEF Rooted
<1>1. Objects(r.doc) \subseteq seen \cap durable /\ r.doc \in Docs
  BY DEF Files, Rooted, Typed, Rows, RowsSettled
<1> QED BY <1>1, NamesApart DEF Keeps

LEMMA FilesKept ==
  ASSUME Typed, Files, Keeps, NoneNew, RowsSettled, outages' = outages
  PROVE  Files'
<1>1. Whole'
  BY NamesApart DEF Files, Whole, Keeps, NoneNew
<1>2. PinsRooted'
  BY ReadableKept DEF Files, PinsRooted, NoneNew, Pinned
<1> QED BY <1>1, <1>2, RootedKept DEF Files

-----------------------------------------------------------------------------
(* Who may act beside whom                                                 *)

LEMMA Resting ==
  ASSUME Typed, CallsFit, NEW q \in Processes, ~Busy(q)
  PROVE  proc[q].job = "none" /\ ~Exclusive(proc[q].job)
<1>1. proc[q] \in Call /\ JobOK(q)
  BY DEF Typed, CallsFit
<1> QED BY <1>1 DEF Busy, Call, JobOK, SnapshotOK, PinOK, ReadOK, PruneOK, Exclusive

\* While one call is on its way no other is exclusive, and beside one that becomes
\* exclusive all others rest; none but one is in the index.
Beside(p) ==
  \A q \in Processes \ {p} :
    /\ proc'[q] = proc[q]
    /\ ~Exclusive(proc[q].job)
    /\ Exclusive(proc'[p].job) => ~Busy(q)
    /\ proc'[p].step = "sync" => proc[q].step # "sync"

LEMMA StepBeside ==
  ASSUME Typed, CallsFit, NEW p \in Processes, Step(p)
  PROVE  Beside(p)
<1>a. proc \in [Processes -> Call]
  BY DEF Typed
<1> DEFINE OthersStay == \A q \in Processes \ {p} : proc'[q] = proc[q]
<1>b. ASSUME Busy(p), OthersStay,
             proc'[p].job = proc[p].job \/ ~Exclusive(proc'[p].job),
             proc'[p].step = "sync" => Unlocked
      PROVE  Beside(p)
  <2> SUFFICES ASSUME NEW q \in Processes \ {p}
               PROVE  /\ proc'[q] = proc[q]
                      /\ ~Exclusive(proc[q].job)
                      /\ Exclusive(proc'[p].job) => ~Busy(q)
                      /\ proc'[p].step = "sync" => proc[q].step # "sync"
    BY DEF Beside
  <2>1. proc'[q] = proc[q]
    BY <1>b
  <2>2. ~Exclusive(proc[q].job) /\ (Exclusive(proc[p].job) => ~Busy(q))
    BY <1>b DEF CallsFit, Alone
  <2>3. Unlocked => proc[q].step # "sync"
    BY DEF Unlocked
  <2> QED BY <1>b, <2>1, <2>2, <2>3
<1>c. ASSUME ~Busy(p), OthersStay, proc'[p].step # "sync",
             MayExclude(p) \/ (MayShare(p) /\ ~Exclusive(proc'[p].job))
      PROVE  Beside(p)
  <2> SUFFICES ASSUME NEW q \in Processes \ {p}
               PROVE  /\ proc'[q] = proc[q]
                      /\ ~Exclusive(proc[q].job)
                      /\ Exclusive(proc'[p].job) => ~Busy(q)
                      /\ proc'[p].step = "sync" => proc[q].step # "sync"
    BY DEF Beside
  <2>1. proc'[q] = proc[q]
    BY <1>c
  <2> QED BY <1>c, <2>1, Resting DEF MayExclude, MayShare
<1>1. ASSUME NEW d \in Docs, NEW s \in Streams, Snapshot(p, d, s) PROVE Beside(p)
  BY <1>1, <1>a, <1>c DEF Snapshot, Becomes, Idle, Exclusive
<1>2. ASSUME NEW d \in Docs, Retain(p, d) PROVE Beside(p)
  BY <1>2, <1>a, <1>c DEF Retain, Becomes, Idle
<1>3. ASSUME NEW r \in index.rows, Select(p, r) PROVE Beside(p)
  BY <1>3, <1>a, <1>c DEF Select, Becomes, Idle, Exclusive
<1>4. CASE Prune(p)
  BY <1>4, <1>a, <1>c DEF Prune, Becomes, Idle
<1>5. CASE Retained(p) \/ SyncRow(p) \/ Read(p) \/ SyncChunks(p) \/ TearRow(p) \/ Fail(p) \/ Kill(p)
  <2>1. Busy(p) /\ proc' = [proc EXCEPT ![p] = Idle]
    BY <1>5 DEF Retained, SyncRow, Read, SyncChunks, TearRow, MayAppend, Fail, Kill, Becomes, Busy
  <2> QED BY <2>1, <1>a, <1>b DEF Idle, Exclusive
<1>6. ASSUME NEW n, Write(p, n) \/ Confirm(p, n) \/ Link(p, n) \/ Settle(p, n) \/ Unlink(p, n)
      PROVE Beside(p)
  <2>1. Busy(p) /\ OthersStay /\ proc'[p].job = proc[p].job /\ proc'[p].step # "sync"
    BY <1>6, <1>a DEF Write, Confirm, Link, Settle, Unlink, Done, GoesTo, Busy, Call
  <2> QED BY <2>1, <1>b
<1>7. CASE AppendRow(p) \/ ReplaceIndex(p) \/ SyncIndex(p) \/ SyncManifests(p)
  <2>1. Busy(p) /\ OthersStay /\ proc'[p].job = proc[p].job /\ (proc'[p].step = "sync" => Unlocked)
    BY <1>7, <1>a, ZenonT(60) DEF AppendRow, MayAppend, ReplaceIndex, SyncIndex, SyncManifests, GoesTo, Busy, Call
  <2> QED BY <2>1, <1>b
<1> QED BY <1>1, <1>2, <1>3, <1>4, <1>5, <1>6, <1>7 DEF Step

LEMMA OneHolder ==
  ASSUME Typed, CallsFit, NEW p \in Processes, Beside(p)
  PROVE  Alone' /\ Locked'
<1>1. ASSUME NEW q \in Processes \ {p}
      PROVE  /\ Exclusive(proc[q].job)' = FALSE
             /\ Busy(q)' = Busy(q) /\ proc'[q].step = proc[q].step
             /\ Exclusive(proc[p].job)' => ~Busy(q)
             /\ proc'[p].step = "sync" => proc[q].step # "sync"
  BY DEF Beside, Busy, Exclusive
<1>2. Alone'
  <2> SUFFICES ASSUME NEW a \in Processes, NEW b \in Processes,
                      Exclusive(proc[a].job)', Busy(b)', a # b
               PROVE  FALSE
    BY DEF Alone
  <2> QED BY <1>1
<1>3. Locked'
  <2> SUFFICES ASSUME NEW a \in Processes, NEW b \in Processes,
                      proc'[a].step = "sync", proc'[b].step = "sync", a # b
               PROVE  FALSE
    BY DEF Locked
  <2>1. CASE a # p /\ b # p
    BY <1>1, <2>1 DEF CallsFit, Locked
  <2>2. CASE a = p \/ b = p
    BY <1>1, <2>2
  <2> QED BY <2>1, <2>2
<1> QED BY <1>2, <1>3

\* What a call is at tells what it is.
LEMMA JobAt ==
  ASSUME Typed, CallsFit, NEW p \in Processes
  PROVE  /\ proc[p] \in Call
         /\ proc[p].job = "snapshot" => SnapshotOK(p)
         /\ proc[p].job = "pin" => PinOK(p)
         /\ proc[p].step = "sync" => proc[p].job = "snapshot"
         /\ proc[p].step = "read" => proc[p].job = "read" /\ ReadOK(p)
         /\ proc[p].step \in {"publish", "link", "settle"} => proc[p].job \in {"snapshot", "pin"} /\ FileOK(p)
         /\ proc[p].step \in {"replace", "replaced", "manifests", "chunks"} =>
              proc[p].job = "prune" /\ PruneOK(p)
<1>1. proc[p] \in Call /\ JobOK(p)
  BY DEF Typed, CallsFit
<1> QED BY <1>1 DEF Call, JobOK, SnapshotOK, PinOK, ReadOK, PruneOK

-----------------------------------------------------------------------------
(* Types                                                                   *)

LEMMA SyncedNames ==
  ASSUME NEW dir
  PROVE  seen \cap durable \subseteq Synced(dir) /\ Synced(dir) \subseteq seen \cup durable
BY DEF Synced

\* What a step leaves of names, calls and images is of their kind.
LEMMA TypedAgain ==
  ASSUME Typed, seen' \subseteq Names, durable' \subseteq Names,
         proc' \in [Processes -> Call],
         index' \in images', images' \subseteq images \cup [rows: SUBSET Rows, torn: BOOLEAN],
         \A i \in images' : i \in images \/ IsFiniteSet(i.rows),
         acked' \subseteq Rows, taken' \in 0..MaxRows, crashes' \in 0..MaxCrashes, outages' \in 0..MaxOutages
  PROVE  Typed'
BY DEF Typed, Call, Rows, Names, Content

LEMMA FileTypes ==
  /\ Content \subseteq Names
  /\ \A n \in Content, p \in Processes : Temporary(n.dir, p) \in Names
  /\ \A n \in Names : Litter(n.dir) \in Names
<1>1. \A n \in Content, p \in Processes : Temporary(n.dir, p) \in Names
  BY NamesApart DEF Names
<1>2. \A n \in Names : n.dir \in {"chunks", "manifests", "pins"}
  BY Apart DEF Names, Content, Temporaries, Litters, Temporary, Litter
<1>3. \A n \in Names : Litter(n.dir) \in Names
  BY <1>2 DEF Names, Litters
<1> QED BY <1>1, <1>3 DEF Content, Names

LEMMA TypedStep ==
  ASSUME IInv, NEW p \in Processes, Step(p)
  PROVE  Typed'
<1> USE DEF IInv
<1>a. /\ proc \in [Processes -> Call] /\ proc[p] \in Call
      /\ seen \subseteq Names /\ durable \subseteq Names
      /\ index \in images /\ index.rows \subseteq Rows /\ IsFiniteSet(index.rows)
      /\ acked \subseteq Rows /\ taken \in 0..MaxRows /\ crashes \in 0..MaxCrashes /\ outages \in 0..MaxOutages
  BY DEF Typed
<1>b. Idle \in Call
  BY DEF Idle, Call
<1>c. ASSUME proc' \in [Processes -> Call], seen' = seen, durable' \subseteq seen \cup durable,
             UNCHANGED <<index, images, acked, taken, crashes, outages>>
      PROVE  Typed'
  BY <1>a, <1>c, TypedAgain
<1>1. ASSUME NEW d \in Docs, NEW s \in Streams, Snapshot(p, d, s) PROVE Typed'
  <2>1. [Idle EXCEPT !.job = "snapshot", !.step = "publish", !.doc = d, !.stream = s,
                     !.left = Objects(d)] \in Call
    BY NamesApart DEF Idle, Call
  <2> QED BY <1>1, <1>a, <1>c, <2>1 DEF Snapshot, Becomes
<1>2. ASSUME NEW d \in Docs, Retain(p, d) PROVE Typed'
  <2>1. [Idle EXCEPT !.job = "pin", !.step = "publish", !.doc = d, !.left = {Pin(d)}] \in Call
    BY NamesApart DEF Idle, Call
  <2> QED BY <1>2, <1>a, <1>c, <2>1 DEF Retain, Becomes
<1>3. ASSUME NEW r \in index.rows, Select(p, r) PROVE Typed'
  <2>1. [Idle EXCEPT !.job = "read", !.step = "read", !.doc = r.doc] \in Call
    BY <1>a DEF Idle, Call, Rows
  <2> QED BY <1>3, <1>a, <1>c, <2>1 DEF Select, Becomes
<1>4. CASE Prune(p)
  <2>0. DeadDocs \subseteq Docs
    BY <1>a DEF DeadDocs, DocsIn, Rows
  <2>1. DeadFiles \subseteq Content /\ NewestKept(index.rows) \subseteq Rows
    BY <1>a, <2>0 DEF DeadFiles, Content, NewestKept, Manifests
  <2>2. [Idle EXCEPT !.job = "prune", !.step = "replace", !.left = DeadFiles,
                     !.rows = NewestKept(index.rows)] \in Call
    BY <2>1 DEF Idle, Call
  <2> QED BY <1>4, <1>a, <1>c, <2>2 DEF Prune, Becomes
<1>5. CASE Retained(p) \/ Read(p) \/ SyncChunks(p) \/ SyncManifests(p)
  <2>1. proc' \in [Processes -> Call]
    BY <1>5, <1>a, <1>b DEF Retained, Read, SyncChunks, SyncManifests, Becomes, GoesTo, Call
  <2> QED BY <1>5, <1>c, <2>1, SyncedNames DEF Retained, Read, SyncChunks, SyncManifests
<1>6. ASSUME NEW n \in NextFiles(p), Confirm(p, n) PROVE Typed'
  <2>1. proc' \in [Processes -> Call]
    BY <1>6, <1>a DEF Confirm, Done, Call
  <2> QED BY <1>6, <1>c, <2>1, SyncedNames DEF Confirm
<1>7. ASSUME NEW n, Write(p, n) \/ Link(p, n) \/ Settle(p, n) \/ Unlink(p, n) PROVE Typed'
  <2>1. n \in Content
    BY <1>7, <1>a DEF Write, Link, Settle, Unlink, NextFiles, Removable, Call
  <2>2. proc' \in [Processes -> Call]
    BY <1>7, <1>a, <2>1 DEF Write, Link, Settle, Unlink, GoesTo, Call
  <2>3. seen' \subseteq Names /\ durable' \subseteq Names
    <3>1. n \in Names /\ Temporary(n.dir, p) \in Names
      BY <2>1, FileTypes
    <3> QED BY <1>7, <1>a, <3>1, SyncedNames DEF Write, Link, Settle, Unlink
  <2>4. UNCHANGED <<index, images, acked, taken, crashes, outages>>
    BY <1>7 DEF Write, Link, Settle, Unlink
  <2> QED BY <1>a, <2>2, <2>3, <2>4, TypedAgain
<1>8. CASE AppendRow(p)
  <2>1. NewRow(p) \in Rows
    BY <1>8, <1>a, JobAt, VaultAssumption DEF AppendRow, MayAppend, NewRow, Rows, SnapshotOK
  <2>2. index' \in [rows: SUBSET Rows, torn: BOOLEAN] /\ IsFiniteSet(index'.rows)
    BY <1>8, <1>a, <2>1, FS_AddElement DEF AppendRow, Image
  <2>3. Image(index.rows, TRUE) \in [rows: SUBSET Rows, torn: BOOLEAN]
        /\ IsFiniteSet(Image(index.rows, TRUE).rows)
    BY <1>a DEF Image
  <2>4. proc' \in [Processes -> Call]
    BY <1>8, <1>a, <2>1 DEF AppendRow, Call
  <2>5. /\ index' \in images' /\ images' = images \cup {Image(index.rows, TRUE), index'}
        /\ seen' = seen /\ durable' = durable /\ acked' = acked /\ taken' \in 0..MaxRows
        /\ crashes' = crashes /\ outages' = outages
    BY <1>8, <1>a, VaultAssumption DEF AppendRow, MayAppend
  <2> QED BY <1>a, <2>2, <2>3, <2>4, <2>5, TypedAgain
<1>9. CASE SyncRow(p)
  <2>1. proc' \in [Processes -> Call] /\ acked' \subseteq Rows
    BY <1>9, <1>a, <1>b DEF SyncRow, Becomes, Call
  <2>2. /\ index' = index /\ images' = {index} /\ seen' = seen /\ durable' = durable
        /\ taken' = taken /\ crashes' = crashes /\ outages' = outages
    BY <1>9 DEF SyncRow
  <2> QED BY <1>a, <2>1, <2>2, TypedAgain
<1>10. CASE ReplaceIndex(p)
  <2>1. proc' \in [Processes -> Call]
    <3>1. PICK step \in {"manifests", "replaced"} : proc' = [proc EXCEPT ![p].step = step]
      BY <1>10 DEF ReplaceIndex, GoesTo
    <3> QED BY <1>a, <3>1 DEF Call
  <2>2. proc[p].rows \subseteq Rows /\ IsFiniteSet(proc[p].rows)
    <3>1. proc[p].rows = NewestKept(index.rows)
      BY <1>10, JobAt DEF ReplaceIndex, PruneOK
    <3> QED BY <1>a, <3>1, FS_Subset DEF NewestKept
  <2>3. /\ index' \in [rows: SUBSET Rows, torn: BOOLEAN] /\ IsFiniteSet(index'.rows)
        /\ images' = images \cup {index'}
        /\ UNCHANGED <<seen, durable, acked, taken, crashes, outages>>
    BY <1>10, <2>2 DEF ReplaceIndex, Image
  <2> QED BY <1>a, <2>1, <2>3, TypedAgain
<1>13. CASE SyncIndex(p)
  <2>1. proc' \in [Processes -> Call]
    BY <1>13, <1>a DEF SyncIndex, GoesTo, Call
  <2>2. images' = {index} /\ UNCHANGED <<seen, durable, index, acked, taken, crashes, outages>>
    BY <1>13 DEF SyncIndex
  <2> QED BY <1>a, <2>1, <2>2, TypedAgain
<1>11. CASE Fail(p) \/ Kill(p)
  <2>1. proc' \in [Processes -> Call]
    BY <1>11, <1>a, <1>b DEF Fail, Kill, Becomes
  <2>2. seen' \subseteq Names /\ durable' \subseteq Names
    BY <1>11, <1>a, FileTypes DEF Fail, Kill, Own
  <2>3. /\ UNCHANGED <<index, images, acked, taken, outages>> /\ crashes' \in 0..MaxCrashes
    BY <1>11, <1>a, VaultAssumption DEF Fail, Kill, Crash
  <2> QED BY <1>a, <2>1, <2>2, <2>3, TypedAgain
<1>12. CASE TearRow(p)
  <2>1. proc' \in [Processes -> Call]
    BY <1>12, <1>a, <1>b DEF TearRow, Becomes
  <2>2. /\ index' \in [rows: SUBSET Rows, torn: BOOLEAN] /\ IsFiniteSet(index'.rows)
        /\ images' = images \cup {index'} /\ crashes' \in 0..MaxCrashes
        /\ UNCHANGED <<seen, durable, acked, taken, outages>>
    BY <1>12, <1>a, VaultAssumption DEF TearRow, Image, Crash
  <2> QED BY <1>a, <2>1, <2>2, TypedAgain
<1> QED BY <1>1, <1>2, <1>3, <1>4, <1>5, <1>6, <1>7, <1>8, <1>9, <1>10, <1>11, <1>12, <1>13
    DEF Step

-----------------------------------------------------------------------------
(* Files: only Unlink takes a name away, only Link and PowerLoss make one  *)

LEMMA StepKeeps ==
  ASSUME IInv, NEW p \in Processes, Step(p), \A n \in proc[p].left : ~Unlink(p, n)
  PROVE  Keeps
<1>a. proc[p] \in Call
  BY DEF IInv, Typed
<1>1. CASE seen \subseteq seen' /\ seen \cap durable \subseteq durable'
  BY <1>1 DEF Keeps
<1>2. ASSUME NEW n \in proc[p].file, Link(p, n) \/ Settle(p, n) PROVE Keeps
  <2>1. n \in Content
    BY <1>a DEF Call
  <2> QED BY <1>2, <2>1, NamesApart, SyncedNames DEF Link, Settle, Keeps
<1>3. CASE Fail(p) \/ Kill(p)
  BY <1>3, NamesApart DEF Fail, Kill, Keeps
<1>4. ASSUME NEW n \in NextFiles(p), Write(p, n) \/ Confirm(p, n) PROVE Keeps
  BY <1>4, <1>1, SyncedNames DEF Write, Confirm
<1>5. CASE SyncManifests(p) \/ SyncChunks(p)
  BY <1>5, <1>1, SyncedNames DEF SyncManifests, SyncChunks
<1>6. CASE seen' = seen /\ durable' = durable
  BY <1>6, <1>1
<1>7. \/ seen' = seen /\ durable' = durable
      \/ SyncManifests(p) \/ SyncChunks(p) \/ Fail(p) \/ Kill(p)
      \/ \E n \in NextFiles(p) : Write(p, n) \/ Confirm(p, n)
      \/ \E n \in proc[p].file : Link(p, n) \/ Settle(p, n)
  BY DEF Step, Snapshot, Retain, Retained, AppendRow, SyncRow, Select, Read, Prune,
         ReplaceIndex, SyncIndex, TearRow
<1> QED BY <1>2, <1>3, <1>4, <1>5, <1>6, <1>7

LEMMA StepNoneNew ==
  ASSUME IInv, NEW p \in Processes, Step(p), \A n \in proc[p].file : ~Link(p, n)
  PROVE  NoneNew
<1>a. proc[p] \in Call
  BY DEF IInv, Typed
<1>1. CASE seen' \subseteq seen /\ durable' \subseteq seen \cup durable
  BY <1>1 DEF NoneNew, Pinned
<1>2. ASSUME NEW n, Settle(p, n) \/ Confirm(p, n) \/ Unlink(p, n) PROVE NoneNew
  BY <1>2, <1>1, SyncedNames DEF Settle, Confirm, Unlink
<1>3. ASSUME NEW n \in NextFiles(p), Write(p, n) PROVE NoneNew
  <2>1. Temporary(n.dir, p) \notin Content
    BY <1>a, NamesApart DEF NextFiles, Call
  <2> QED BY <1>3, <2>1, NamesApart DEF Write, NoneNew, Pinned
<1>4. CASE Kill(p)
  <2>1. \A n \in Own(p) : Litter(n.dir) \notin Content
    <3>1. \A n \in Own(p) : n \in Names
      BY DEF Own, IInv, Typed
    <3>2. \A n \in Names : n.dir \in {"chunks", "manifests", "pins"}
      BY Apart DEF Names, Content, Temporaries, Litters, Temporary, Litter
    <3> QED BY <3>1, <3>2, Apart DEF Litters
  <2> QED BY <1>4, <2>1, NamesApart DEF Kill, NoneNew, Pinned
<1>5. CASE SyncManifests(p) \/ SyncChunks(p) \/ Fail(p)
  BY <1>5, <1>1, SyncedNames DEF SyncManifests, SyncChunks, Fail
<1>6. CASE seen' = seen /\ durable' = durable
  BY <1>6, <1>1
<1>7. \/ seen' = seen /\ durable' = durable
      \/ SyncManifests(p) \/ SyncChunks(p) \/ Fail(p) \/ Kill(p)
      \/ \E n \in NextFiles(p) : Write(p, n) \/ Confirm(p, n)
      \/ \E n \in proc[p].file : Settle(p, n)
      \/ \E n \in proc[p].left : Unlink(p, n)
  BY DEF Step, Snapshot, Retain, Retained, AppendRow, SyncRow, Select, Read, Prune,
         ReplaceIndex, SyncIndex, TearRow
<1> QED BY <1>2, <1>3, <1>4, <1>5, <1>6, <1>7

\* A row of an image of the index is old, or its object is settled.
LEMMA StepRows ==
  ASSUME IInv, NEW p \in Processes, Step(p)
  PROVE  RowsSettled /\ outages' = outages
<1>a. index \in images
  BY DEF IInv, Typed
<1>1. CASE images' \subseteq images /\ outages' = outages
  BY <1>1 DEF RowsSettled
<1>2. CASE AppendRow(p)
  <2>1. Objects(proc[p].doc) \subseteq seen \cap durable /\ proc[p].doc \in Docs
    BY <1>2, JobAt DEF AppendRow, MayAppend, SnapshotOK, IInv
  <2>2. NewRow(p).doc = proc[p].doc
    BY DEF NewRow
  <2>3. /\ images' = images \cup {Image(index.rows, TRUE), Image(index.rows \cup {NewRow(p)}, FALSE)}
        /\ outages' = outages
    BY <1>2 DEF AppendRow
  <2> QED BY <1>a, <2>1, <2>2, <2>3 DEF RowsSettled, Image
<1>3. CASE TearRow(p)
  BY <1>3, <1>a DEF TearRow, RowsSettled, Image
<1>4. CASE ReplaceIndex(p)
  <2>1. proc[p].rows \subseteq index.rows
    BY <1>4, JobAt DEF ReplaceIndex, PruneOK, NewestKept, IInv
  <2> QED BY <1>4, <1>a, <2>1 DEF ReplaceIndex, RowsSettled, Image
<1>5. CASE SyncRow(p) \/ SyncIndex(p)
  BY <1>5, <1>a, <1>1 DEF SyncRow, SyncIndex
<1>6. CASE UNCHANGED <<images, outages>>
  BY <1>6, <1>1
<1>7. \/ UNCHANGED <<images, outages>>
      \/ AppendRow(p) \/ TearRow(p) \/ ReplaceIndex(p) \/ SyncRow(p) \/ SyncIndex(p)
  BY DEF Step, Snapshot, Retain, Write, Confirm, Link, Settle, Retained, Select, Read,
         Prune, SyncManifests, SyncChunks, Unlink, Fail, Kill
<1> QED BY <1>2, <1>3, <1>4, <1>5, <1>6, <1>7

LEMMA LinkFiles ==
  ASSUME IInv, NEW p \in Processes, NEW n \in proc[p].file, Link(p, n), Keeps, RowsSettled
  PROVE  Files'
<1> USE DEF IInv
<1>a. Rooted'
  BY RootedKept
<1>b. proc[p].job \in {"snapshot", "pin"} /\ FileOK(p) /\ outages' = outages /\ durable' = durable
  BY JobAt DEF Link
<1>1. CASE n \in seen
  <2>1. NoneNew
    BY <1>1 DEF Link, NoneNew, Pinned
  <2> QED BY <1>b, <2>1, FilesKept
<1>2. CASE n \notin seen
  <2>a. seen' = seen \cup {n} /\ n \in proc[p].left
    BY <1>2, <1>b DEF Link, FileOK
  <2>b. ASSUME NEW d \in Docs, Manifest(d) = n PROVE ChunkFiles(d) \subseteq seen \cap durable
    <3>1. proc[p].job = "snapshot" /\ SnapshotOK(p)
      <4>1. proc[p].job = "pin" => n \in Pins
        BY <2>a, JobAt DEF PinOK, Pins
      <4> QED BY <1>b, <2>b, <4>1, JobAt, NamesApart DEF Manifests
    <3>2. d = proc[p].doc /\ proc[p].left \cap Pieces = {}
      <4>1. n \in Objects(proc[p].doc) /\ n \notin Pieces
        BY <2>a, <2>b, <3>1, NamesApart DEF SnapshotOK, Manifests
      <4>2. n = Manifest(proc[p].doc)
        BY <3>1, <4>1, NamesApart DEF Objects, SnapshotOK
      <4> QED BY <1>b, <2>b, <4>1, <4>2 DEF Manifest, FileOK
    <3> QED BY <3>1, <3>2, NamesApart DEF SnapshotOK
  <2>c. ASSUME NEW d \in Docs, Pin(d) = n PROVE Readable(d)
    <3>1. proc[p].job = "pin" /\ PinOK(p)
      <4>1. proc[p].job = "snapshot" => n \in Objects(proc[p].doc) /\ proc[p].doc \in Docs
        BY <2>a, JobAt DEF SnapshotOK
      <4>2. Pin(d) \in Pins /\ \A e \in Docs : Objects(e) \cap Pins = {}
        BY NamesApart DEF Pins, Objects, Manifests
      <4> QED BY <1>b, <2>c, <4>1, <4>2, JobAt
    <3>2. d = proc[p].doc
      BY <2>a, <2>c, <3>1 DEF PinOK, Pin
    <3> QED BY <3>1, <3>2 DEF PinOK
  <2>1. Whole'
    BY <1>b, <2>a, <2>b, NamesApart DEF Files, Whole, Keeps
  <2>2. PinsRooted'
    BY <1>b, <2>a, <2>c, ReadableKept DEF Files, PinsRooted, Pinned
  <2> QED BY <1>a, <2>1, <2>2 DEF Files
<1> QED BY <1>1, <1>2

\* Prune takes away what no image of the index, no pin and no manifest needs.
LEMMA UnlinkFiles ==
  ASSUME IInv, NEW p \in Processes, NEW n \in proc[p].left, Unlink(p, n)
  PROVE  Files'
<1> USE DEF IInv
<1>a. /\ PruneOK(p) /\ proc[p].left \subseteq Manifests \cup Pieces
      /\ seen' = seen \ {n} /\ durable' = durable /\ images' = images /\ outages' = outages
  BY JobAt DEF Unlink, PruneOK
<1>b. ASSUME NEW d \in Docs, Objects(d) \subseteq seen, Manifest(d) \notin proc[p].left
      PROVE  Objects(d) \subseteq seen'
  <2>1. Manifest(d) \in Staying(p)
    BY <1>b DEF Staying, Objects
  <2>2. ChunkFiles(d) \cap proc[p].left = {}
    BY <1>a, <2>1 DEF PruneOK
  <2> QED BY <1>a, <1>b, <2>2 DEF Objects
<1>1. Whole'
  <2> SUFFICES ASSUME NEW d \in Docs, Manifest(d) \in seen' \cup durable'
               PROVE  ChunkFiles(d) \subseteq seen' \cap durable'
    BY DEF Whole
  <2>1. ChunkFiles(d) \subseteq seen \cap durable
    BY <1>a DEF Files, Whole
  <2>2. CASE n \in Manifests
    BY <1>a, <2>1, <2>2, NamesApart
  <2>3. CASE n \notin Manifests
    <3>1. proc[p].step = "chunks" /\ proc[p].left \subseteq Pieces /\ durable \cap Manifests \subseteq seen
      BY <1>a, <2>3 DEF Unlink, Removable, PruneOK
    <3>2. Manifest(d) \in Staying(p)
      BY <1>a, <3>1, NamesApart DEF Staying, Manifests
    <3> QED BY <1>a, <2>1, <3>2 DEF PruneOK
  <2> QED BY <2>2, <2>3
<1>2. Rooted'
  <2> SUFFICES ASSUME NEW i \in images, NEW r \in i.rows
               PROVE  Objects(r.doc) \subseteq seen' \cap durable'
    BY <1>a DEF Rooted
  <2>1. r.doc \in Docs /\ Objects(r.doc) \subseteq seen \cap durable
    BY DEF Files, Rooted, Typed, Rows
  <2>2. Manifest(r.doc) \notin proc[p].left
    BY <1>a DEF Unlink, PruneOK
  <2> QED BY <1>a, <1>b, <2>1, <2>2
<1>3. PinsRooted'
  <2>1. ASSUME NEW d \in Docs, Pin(d) \in seen', outages = 0
        PROVE  Objects(d) \subseteq seen'
    <3>1. d \in Pinned /\ Objects(d) \subseteq seen
      BY <1>a, <2>1 DEF Files, PinsRooted, Pinned, Readable
    <3> QED BY <1>a, <1>b, <3>1 DEF PruneOK
  <2> QED BY <1>a, <2>1 DEF PinsRooted, Pinned, Readable
<1> QED BY <1>1, <1>2, <1>3 DEF Files

LEMMA FilesStep ==
  ASSUME IInv, NEW p \in Processes, Step(p)
  PROVE  Files'
<1>1. ASSUME NEW n \in proc[p].left, Unlink(p, n) PROVE Files'
  BY <1>1, UnlinkFiles
<1>2. ASSUME NEW n \in proc[p].file, Link(p, n) PROVE Files'
  <2>1. Keeps
    <3>1. proc[p].step = "link"
      BY <1>2 DEF Link
    <3> QED BY <3>1, StepKeeps DEF Unlink
  <2> QED BY <1>2, <2>1, StepRows, LinkFiles
<1>3. CASE (\A n \in proc[p].left : ~Unlink(p, n)) /\ (\A n \in proc[p].file : ~Link(p, n))
  BY <1>3, StepKeeps, StepNoneNew, StepRows, FilesKept DEF IInv
<1> QED BY <1>1, <1>2, <1>3

-----------------------------------------------------------------------------
(* CallsFit                                                                   *)

\* A call that is not prune or pin keeps what it knows if no content goes.
LEMMA JobKept ==
  ASSUME Typed, NEW q \in Processes, JobOK(q), ~Exclusive(proc[q].job), proc'[q] = proc[q], Keeps,
         proc[q].step = "sync" => index.rows \subseteq index'.rows
  PROVE  JobOK(q)'
<1>a. proc[q] \in Call
  BY DEF Typed
<1>1. CASE proc[q].job = "none"
  BY <1>1 DEF JobOK
<1>2. CASE proc[q].job = "snapshot"
  <2>1. SnapshotOK(q)
    BY <1>2 DEF JobOK
  <2>2. Objects(proc[q].doc) \ proc[q].left \subseteq seen' \cap durable'
    BY <2>1, NamesApart DEF SnapshotOK, Keeps
  <2>3. FileOK(q)'
    BY <1>a, <2>1 DEF SnapshotOK, FileOK, Keeps, Call
  <2>4. SnapshotOK(q)'
    BY <2>1, <2>2, <2>3 DEF SnapshotOK
  <2> QED BY <1>2, <2>4 DEF JobOK
<1>3. CASE proc[q].job = "read"
  <2>1. ReadOK(q)
    BY <1>3 DEF JobOK
  <2>2. ReadOK(q)'
    BY <2>1, ReadableKept DEF ReadOK
  <2> QED BY <1>3, <2>2 DEF JobOK
<1> QED BY <1>a, <1>1, <1>2, <1>3 DEF Call, Exclusive

LEMMA OthersKeep ==
  ASSUME IInv, NEW p \in Processes, Step(p), NEW q \in Processes \ {p}
  PROVE  JobOK(q)'
<1> USE DEF IInv
<1>a. proc'[q] = proc[q] /\ ~Exclusive(proc[q].job) /\ JobOK(q)
  BY StepBeside DEF Beside, CallsFit
<1>1. CASE proc[p].job = "prune"
  <2>1. ~Busy(q)
    BY <1>1 DEF CallsFit, Alone, Exclusive
  <2>2. proc[q].job = "none" /\ ~(proc[q].job \in {"snapshot", "pin", "read", "prune"})
    BY <2>1, Resting
  <2> QED BY <1>a, <2>1, <2>2 DEF JobOK, Busy
<1>2. CASE proc[p].job # "prune"
  <2>1. Keeps
    <3>1. \A n \in proc[p].left : ~Unlink(p, n)
      BY <1>2, JobAt DEF Unlink
    <3> QED BY <3>1, StepKeeps
  <2>2. index.rows \subseteq index'.rows
    <3>1. CASE AppendRow(p) \/ TearRow(p)
      BY <3>1 DEF AppendRow, TearRow, Image
    <3>2. ~ReplaceIndex(p)
      BY <1>2, JobAt DEF ReplaceIndex
    <3>3. CASE index' = index
      BY <3>3
    <3>4. index' = index \/ AppendRow(p) \/ TearRow(p)
      BY <3>2 DEF Step, Snapshot, Retain, Write, Confirm, Link, Settle, Retained, SyncRow, Select, Read,
         Prune, SyncIndex, SyncManifests, SyncChunks, Unlink, Fail, Kill
    <3> QED BY <3>1, <3>3, <3>4
  <2> QED BY <1>a, <2>1, <2>2, JobKept
<1> QED BY <1>1, <1>2

\* A publishing call settles one file after the other.
LEMMA PublishingKeeps ==
  ASSUME IInv, NEW p \in Processes, NEW n,
         \/ n \in NextFiles(p) /\ (Write(p, n) \/ Confirm(p, n))
         \/ n \in proc[p].file /\ (Link(p, n) \/ Settle(p, n))
  PROVE  JobOK(p)'
<1> USE DEF IInv
<1>a. /\ proc[p] \in Call /\ proc \in [Processes -> Call]
      /\ proc[p].job \in {"snapshot", "pin"} /\ FileOK(p) /\ n \in proc[p].left
  BY JobAt DEF Typed, Write, Confirm, Link, Settle, NextFiles, FileOK
<1>b. n \in Content
  BY <1>a DEF Call
<1>c. Keeps
  BY <1>b, NamesApart, SyncedNames DEF Write, Confirm, Link, Settle, Keeps
<1>d. /\ proc'[p].job = proc[p].job /\ proc'[p].doc = proc[p].doc
      /\ proc'[p].stream = proc[p].stream
      /\ proc'[p].step \in {"publish", "link", "settle"}
  BY <1>a DEF Write, Confirm, Link, Settle, GoesTo, Done, Call
<1>e. \/ proc'[p].left = proc[p].left
      \/ proc'[p].left = proc[p].left \ {n} /\ n \in seen' \cap durable'
  <2>1. CASE Write(p, n) \/ Link(p, n)
    BY <1>a, <2>1 DEF Write, Link, GoesTo, Call
  <2>2. CASE Confirm(p, n)
    BY <1>a, <2>2 DEF Confirm, Done, Synced, Call
  <2>3. CASE Settle(p, n)
    <3>1. n \in seen
      BY <1>a, <2>3 DEF Settle, FileOK
    <3> QED BY <1>a, <1>b, <2>3, <3>1, NamesApart DEF Settle, Synced, Call
  <2> QED BY <2>1, <2>2, <2>3
<1>f. FileOK(p)'
  <2>1. CASE Write(p, n)
    <3>1. proc'[p].file = {n} /\ proc'[p].left = proc[p].left /\ proc'[p].step = "link"
      BY <1>a, <2>1 DEF Write, Call
    <3>2. proc[p].left \cap Pieces = {} \/ n \in Pieces
      BY <2>1 DEF Write, NextFiles
    <3> QED BY <1>a, <3>1, <3>2 DEF FileOK
  <2>2. CASE Confirm(p, n)
    <3>1. proc'[p].file = proc[p].file /\ proc[p].file = {} /\ proc'[p].step = "publish"
      BY <1>a, <2>2 DEF Confirm, Done, Call, FileOK
    <3> QED BY <3>1 DEF FileOK
  <2>3. CASE Settle(p, n) \/ (Link(p, n) /\ n \in seen)
    <3>1. proc'[p].file = {} /\ proc'[p].step = "publish"
      BY <1>a, <2>3 DEF Settle, Link, Call
    <3> QED BY <3>1 DEF FileOK
  <2>4. CASE Link(p, n) /\ n \notin seen
    <3>1. /\ proc'[p].file = proc[p].file /\ proc'[p].left = proc[p].left
          /\ proc'[p].step = "settle" /\ seen' = seen \cup {n} /\ n \in proc[p].file
      BY <1>a, <2>4, JobAt DEF Link, GoesTo, Call, FileOK
    <3> QED BY <1>a, <3>1 DEF FileOK
  <2> QED BY <1>a, <2>1, <2>2, <2>3, <2>4 DEF Write, Confirm, Settle, Link
<1>1. CASE proc[p].job = "snapshot"
  <2>1. SnapshotOK(p)
    BY <1>1, JobAt
  <2>2. Objects(proc[p].doc) \ proc[p].left \subseteq seen' \cap durable'
    BY <1>c, <2>1, NamesApart DEF SnapshotOK, Keeps
  <2>3. proc'[p].left \subseteq Objects(proc[p].doc)
        /\ Objects(proc[p].doc) \ proc'[p].left \subseteq seen' \cap durable'
    BY <1>e, <2>1, <2>2 DEF SnapshotOK
  <2>4. SnapshotOK(p)'
    BY <1>d, <1>f, <2>1, <2>3 DEF SnapshotOK
  <2> QED BY <1>1, <1>d, <2>4 DEF JobOK
<1>2. CASE proc[p].job = "pin"
  <2>1. PinOK(p)
    BY <1>2, JobAt
  <2>2. Objects(proc[p].doc) \subseteq seen'
    BY <1>c, <2>1, ReadableKept DEF PinOK, Readable
  <2>3. PinOK(p)'
    BY <1>d, <1>e, <1>f, <2>1, <2>2 DEF PinOK, Readable
  <2> QED BY <1>2, <1>d, <2>3 DEF JobOK
<1> QED BY <1>a, <1>1, <1>2

\* A call that publishes nothing: it begins, writes the index, prunes, or ends.
LEMMA IdleOK ==
  ASSUME NEW p \in Processes, proc'[p] = Idle
  PROVE  JobOK(p)'
BY DEF JobOK, Idle

LEMMA BeginOK ==
  ASSUME IInv, NEW p \in Processes,
         \/ \E d \in Docs, s \in Streams : Snapshot(p, d, s)
         \/ \E d \in Docs : Retain(p, d)
         \/ \E r \in index.rows : Select(p, r)
  PROVE  JobOK(p)'
<1> USE DEF IInv
<1>a. proc \in [Processes -> Call]
  BY DEF Typed
<1>1. ASSUME NEW d \in Docs, NEW s \in Streams, Snapshot(p, d, s) PROVE JobOK(p)'
  <2>1. /\ proc'[p].job = "snapshot" /\ proc'[p].step = "publish" /\ proc'[p].doc = d
        /\ proc'[p].stream = s /\ proc'[p].left = Objects(d) /\ proc'[p].file = {}
    BY <1>1, <1>a DEF Snapshot, Becomes, Idle
  <2>2. SnapshotOK(p)'
    BY <2>1 DEF SnapshotOK, FileOK
  <2> QED BY <2>1, <2>2 DEF JobOK
<1>2. ASSUME NEW d \in Docs, Retain(p, d) PROVE JobOK(p)'
  <2>1. /\ proc'[p].job = "pin" /\ proc'[p].step = "publish" /\ proc'[p].doc = d
        /\ proc'[p].left = {Pin(d)} /\ proc'[p].file = {}
        /\ Objects(d) \subseteq seen'
    BY <1>2, <1>a DEF Retain, Becomes, Idle, Readable
  <2>2. PinOK(p)'
    BY <2>1 DEF PinOK, FileOK, Readable
  <2> QED BY <2>1, <2>2 DEF JobOK
<1>3. ASSUME NEW r \in index.rows, Select(p, r) PROVE JobOK(p)'
  <2>1. r.doc \in Docs /\ Objects(r.doc) \subseteq seen
    BY DEF Typed, Files, Rooted, Rows
  <2>2. proc'[p].job = "read" /\ proc'[p].step = "read" /\ proc'[p].doc = r.doc /\ seen' = seen
    BY <1>3, <1>a DEF Select, Becomes, Idle
  <2>3. ReadOK(p)'
    BY <2>1, <2>2 DEF ReadOK, Readable
  <2> QED BY <2>2, <2>3 DEF JobOK
<1> QED BY <1>1, <1>2, <1>3

LEMMA AppendOK ==
  ASSUME IInv, NEW p \in Processes, AppendRow(p)
  PROVE  JobOK(p)'
<1>1. /\ proc \in [Processes -> Call] /\ proc[p].job = "snapshot" /\ SnapshotOK(p)
      /\ proc[p].left = {} /\ proc[p].file = {}
  BY JobAt DEF IInv, Typed, AppendRow, MayAppend, SnapshotOK, FileOK
<1>2. /\ proc'[p].job = proc[p].job /\ proc'[p].doc = proc[p].doc
      /\ proc'[p].stream = proc[p].stream /\ proc'[p].step = "sync"
      /\ proc'[p].left = {} /\ proc'[p].file = {} /\ proc'[p].rows = {NewRow(p)}
      /\ seen' = seen /\ durable' = durable /\ index'.rows = index.rows \cup {NewRow(p)}
  BY <1>1 DEF AppendRow, Call, Image
<1>3. SnapshotOK(p)'
  BY <1>1, <1>2 DEF SnapshotOK, FileOK
<1> QED BY <1>1, <1>2, <1>3 DEF JobOK

\* What prune marks is garbage: the manifests of dropped rows and the chunks that no
\* other manifest names.
LEMMA MarkOK ==
  ASSUME IInv, NEW p \in Processes, Prune(p)
  PROVE  JobOK(p)'
<1> USE DEF IInv
<1>a. /\ proc'[p].job = "prune" /\ proc'[p].step = "replace" /\ proc'[p].left = DeadFiles
      /\ proc'[p].rows = NewestKept(index.rows) /\ ~index.torn
      /\ UNCHANGED <<seen, durable, index, images>>
  BY DEF Prune, Becomes, Idle, Typed, PruneRefused
<1>b. DeadDocs \subseteq Docs
  BY DEF DeadDocs, DocsIn, Rows, Typed
<1>c. \A d \in Docs : Manifest(d) \in DeadFiles <=> d \in DeadDocs
  <2> TAKE d \in Docs
  <2>1. Manifest(d) \notin Pieces /\ \A e \in DeadDocs : Manifest(d) = Manifest(e) => d = e
    BY NamesApart DEF Manifest, Manifests
  <2> QED BY <2>1 DEF DeadFiles
<1>d. \A c \in Chunks : Chunk(c) \in seen => (Chunk(c) \in DeadFiles <=> Chunk(c) \notin LiveChunks)
  <2> TAKE c \in Chunks
  <2>1. Chunk(c) \in Pieces /\ \A e \in DeadDocs : Chunk(c) # Manifest(e)
    BY <1>b DEF Chunk, Manifest, Pieces
  <2> QED BY <2>1 DEF DeadFiles
<1>1. DeadFiles \subseteq Manifests \cup Pieces
  BY <1>b DEF DeadFiles, Manifests
<1>2. ASSUME NEW d \in Docs, Manifest(d) \in seen \ DeadFiles
      PROVE  ChunkFiles(d) \cap DeadFiles = {}
  <2>1. ChunkFiles(d) \subseteq LiveChunks
    BY <1>2, <1>c DEF LiveChunks
  <2>2. \A n \in ChunkFiles(d) : n \notin DeadFiles
    BY <2>1, <1>b, NamesApart DEF DeadFiles, Manifests
  <2> QED BY <2>2
<1>3. ASSUME NEW c \in Chunks, Chunk(c) \in seen \ DeadFiles
      PROVE  \E d \in Docs : Manifest(d) \in seen \ DeadFiles /\ c \in ChunksOf[d]
  <2>1. PICK d \in Docs \ DeadDocs : Manifest(d) \in seen /\ Chunk(c) \in ChunkFiles(d)
    BY <1>3, <1>d DEF LiveChunks
  <2>2. c \in ChunksOf[d]
    BY <2>1 DEF ChunkFiles, Chunk
  <2> QED BY <2>1, <2>2, <1>c
<1>4. \A d \in Pinned : Manifest(d) \notin DeadFiles
  BY <1>c DEF DeadDocs, Roots, Pinned
<1>5. \A r \in NewestKept(index.rows) : Manifest(r.doc) \notin DeadFiles
  <2>1. \A r \in NewestKept(index.rows) : r.doc \in Docs /\ r.doc \in Roots
    BY DEF Roots, DocsIn, NewestKept, Typed, Rows
  <2> QED BY <2>1, <1>c DEF DeadDocs
<1>6. NewestKept(index.rows) = index.rows => DeadFiles \cap Manifests = {}
  <2>1. NewestKept(index.rows) = index.rows => DeadDocs = {}
    BY DEF DeadDocs, Roots
  <2> QED BY <2>1, <1>c DEF Manifests
<1>7. PruneOK(p)'
  BY <1>a, <1>1, <1>2, <1>3, <1>4, <1>5, <1>6 DEF PruneOK, Staying, Pinned
<1> QED BY <1>a, <1>7 DEF JobOK

LEMMA SweepOK ==
  ASSUME IInv, NEW p \in Processes,
         \/ ReplaceIndex(p) \/ SyncIndex(p) \/ SyncManifests(p)
         \/ \E n \in proc[p].left : Unlink(p, n)
  PROVE  JobOK(p)'
<1> USE DEF IInv
<1>a. proc \in [Processes -> Call] /\ proc[p] \in Call /\ proc[p].job = "prune" /\ PruneOK(p)
  BY JobAt DEF Typed, ReplaceIndex, SyncIndex, SyncManifests, Unlink
<1>b. index \in images
  BY DEF Typed
<1>1. CASE ReplaceIndex(p)
  <2>1. /\ proc'[p].job = "prune" /\ proc'[p].left = proc[p].left /\ seen' = seen
        /\ durable' = durable
    BY <1>1, <1>a DEF ReplaceIndex, GoesTo, Call
  <2>2. /\ proc[p].step = "replace" /\ index' = Image(proc[p].rows, FALSE)
        /\ images' = images \cup {index'}
    BY <1>1 DEF ReplaceIndex
  <2>3. CASE index' = index
    <3>1. proc'[p].step = "manifests"
      BY <1>1, <1>a, <2>3 DEF ReplaceIndex, GoesTo, Call
    <3>2. proc[p].left \cap Manifests = {}
      BY <1>a, <2>2, <2>3 DEF PruneOK, Image
    <3>3. \A i \in images' : \A r \in i.rows : Manifest(r.doc) \notin proc'[p].left
      <4>1. images' = images
        BY <1>b, <2>2, <2>3
      <4>2. \A i \in images : \A r \in i.rows : r.doc \in Docs
        BY DEF Typed, Rows
      <4> QED BY <2>1, <3>2, <4>1, <4>2 DEF Manifests
    <3>4. PruneOK(p)'
      BY <1>a, <2>1, <3>1, <3>3 DEF PruneOK, Staying, Pinned
    <3> QED BY <2>1, <3>4 DEF JobOK
  <2>4. CASE index' # index
    <3>1. proc'[p].step = "replaced"
      BY <1>1, <1>a, <2>4 DEF ReplaceIndex, GoesTo, Call
    <3>2. \A r \in index'.rows : Manifest(r.doc) \notin proc'[p].left
      BY <1>a, <2>1, <2>2 DEF PruneOK, Image
    <3>3. PruneOK(p)'
      BY <1>a, <2>1, <3>1, <3>2 DEF PruneOK, Staying, Pinned
    <3> QED BY <2>1, <3>3 DEF JobOK
  <2> QED BY <2>3, <2>4
<1>2. CASE SyncIndex(p)
  <2>1. /\ proc'[p].job = "prune" /\ proc'[p].left = proc[p].left /\ proc'[p].step = "manifests"
        /\ UNCHANGED <<seen, durable, index>> /\ images' = {index} /\ proc[p].step = "replaced"
    BY <1>2, <1>a DEF SyncIndex, GoesTo, Call
  <2>2. PruneOK(p)'
    BY <1>a, <2>1 DEF PruneOK, Staying, Pinned
  <2> QED BY <2>1, <2>2 DEF JobOK
<1>3. CASE SyncManifests(p)
  <2>1. /\ proc'[p].job = "prune" /\ proc'[p].left = proc[p].left /\ proc'[p].step = "chunks"
        /\ UNCHANGED <<seen, index, images>> /\ proc[p].step = "manifests"
    BY <1>3, <1>a DEF SyncManifests, GoesTo, Call
  <2>2. proc[p].left \subseteq Pieces
    BY <1>3, <1>a, <2>1 DEF SyncManifests, Removable, PruneOK
  <2>3. durable' \cap Manifests \subseteq seen
    BY <1>3 DEF SyncManifests, Synced, Manifests, Manifest
  <2>4. PruneOK(p)'
    BY <1>a, <2>1, <2>2, <2>3 DEF PruneOK, Staying, Pinned
  <2> QED BY <2>1, <2>4 DEF JobOK
<1>4. ASSUME NEW n \in proc[p].left, Unlink(p, n) PROVE JobOK(p)'
  <2>1. /\ proc'[p].job = "prune" /\ proc'[p].left = proc[p].left \ {n}
        /\ proc'[p].step = proc[p].step /\ proc[p].step \in {"manifests", "chunks"}
        /\ seen' = seen \ {n} /\ UNCHANGED <<durable, index, images>>
    BY <1>4, <1>a DEF Unlink, Call
  <2>2. Staying(p)' = Staying(p)
    BY <1>4, <2>1 DEF Staying
  <2>3. Pinned' \subseteq Pinned
    BY <2>1 DEF Pinned
  <2>4. proc[p].step = "chunks" => durable \cap Manifests \subseteq seen'
    BY <1>4, <1>a, <2>1, NamesApart DEF PruneOK
  <2>5. PruneOK(p)'
    <3>1. /\ proc'[p].step \in {"manifests", "chunks"}
          /\ proc'[p].left \subseteq Manifests \cup Pieces
          /\ proc'[p].step = "chunks" =>
               proc'[p].left \subseteq Pieces /\ durable' \cap Manifests \subseteq seen'
      BY <1>a, <2>1, <2>4 DEF PruneOK
    <3>2. /\ \A d \in Docs : Manifest(d) \in Staying(p) => ChunkFiles(d) \cap proc'[p].left = {}
          /\ \A c \in Chunks : Chunk(c) \in Staying(p) =>
               \E d \in Docs : Manifest(d) \in Staying(p) /\ c \in ChunksOf[d]
          /\ \A d \in Pinned' : Manifest(d) \notin proc'[p].left
          /\ \A i \in images' : \A r \in i.rows : Manifest(r.doc) \notin proc'[p].left
      BY <1>a, <2>1, <2>3 DEF PruneOK
    <3> QED BY <2>2, <3>1, <3>2 DEF PruneOK
  <2> QED BY <2>1, <2>5 DEF JobOK
<1> QED BY <1>1, <1>2, <1>3, <1>4

LEMMA CallsStep ==
  ASSUME IInv, NEW p \in Processes, Step(p)
  PROVE  CallsFit'
<1>1. JobOK(p)'
  <2>a. proc \in [Processes -> Call]
    BY DEF IInv, Typed
  <2>1. CASE Retained(p) \/ SyncRow(p) \/ Read(p) \/ SyncChunks(p) \/ Fail(p) \/ Kill(p) \/ TearRow(p)
    <3>1. proc'[p] = Idle
      BY <2>1, <2>a DEF Retained, SyncRow, Read, SyncChunks, Fail, Kill, TearRow, Becomes
    <3> QED BY <3>1, IdleOK
  <2> QED BY <2>1, PublishingKeeps, BeginOK, AppendOK, MarkOK, SweepOK DEF Step
<1>2. Alone' /\ Locked'
  BY StepBeside, OneHolder DEF IInv
<1> QED BY <1>1, <1>2, OthersKeep DEF CallsFit

-----------------------------------------------------------------------------
(* The newest snapshots                                                    *)

\* Rows R hold up for row r.
HoldsUp(R, r) == r \in R \/ Cardinality(Newer(R, r)) >= Keep

\* More rows hold up for what fewer do.
LEMMA MoreRows ==
  ASSUME NEW R, NEW S, R \subseteq S, IsFiniteSet(S), NEW r, HoldsUp(R, r)
  PROVE  HoldsUp(S, r)
<1>1. Newer(S, r) \in SUBSET S /\ Newer(R, r) \in SUBSET Newer(S, r) /\ Keep \in Nat
  BY VaultAssumption DEF Newer
<1>2. IsFiniteSet(Newer(S, r))
  BY <1>1, FS_Subset
<1>3. IsFiniteSet(Newer(R, r)) /\ Cardinality(Newer(R, r)) <= Cardinality(Newer(S, r))
  BY <1>1, <1>2, FS_Subset
<1>4. Cardinality(Newer(R, r)) \in Nat /\ Cardinality(Newer(S, r)) \in Nat
  BY <1>2, <1>3, FS_CardinalityType
<1> QED BY <1>1, <1>3, <1>4 DEF HoldsUp

LEMMA KeptHoldUp ==
  ASSUME NEW R \in SUBSET Rows, IsFiniteSet(R), NEW r \in Rows, HoldsUp(R, r)
  PROVE  HoldsUp(NewestKept(R), r)
<1>1. CASE r \in R
  <2>1. CASE Cardinality(Newer(R, r)) < Keep
    BY <1>1, <2>1 DEF HoldsUp, NewestKept
  <2>2. CASE ~(Cardinality(Newer(R, r)) < Keep)
    <3>1. Newer(R, r) \in SUBSET R /\ Keep \in Nat
      BY VaultAssumption DEF Newer
    <3>2. Cardinality(Newer(R, r)) \in Nat
      BY <3>1, FS_Subset, FS_CardinalityType
    <3>3. Cardinality(Newer(R, r)) >= Keep
      BY <2>2, <3>1, <3>2
    <3> QED BY <3>3, KeptAreNewest DEF HoldsUp
  <2> QED BY <2>1, <2>2
<1>2. CASE r \notin R
  BY <1>2, KeptAreNewest DEF HoldsUp
<1> QED BY <1>1, <1>2

LEMMA NewestStep ==
  ASSUME IInv, NEW p \in Processes, Step(p)
  PROVE  Newest'
<1> USE DEF IInv
<1>a. /\ index \in images /\ acked \subseteq Rows
      /\ \A i \in images : i.rows \subseteq Rows /\ IsFiniteSet(i.rows)
      /\ \A i \in images : \A r \in acked : HoldsUp(i.rows, r)
  BY DEF Typed, Newest, HoldsUp
<1>b. Typed'
  BY TypedStep
<1>1. CASE images' \subseteq images /\ acked' = acked
  BY <1>1 DEF Newest
<1>2. CASE AppendRow(p)
  <2> SUFFICES ASSUME NEW i \in images', NEW r \in acked PROVE HoldsUp(i.rows, r)
    BY <1>2 DEF AppendRow, Newest, HoldsUp
  <2>1. i \in images \/ i.rows = index.rows \/ i = index'
    BY <1>2 DEF AppendRow, Image
  <2>2. CASE i = index'
    <3>1. index.rows \subseteq i.rows /\ IsFiniteSet(i.rows)
      BY <1>2, <1>b, <2>2 DEF AppendRow, Image, Typed
    <3> QED BY <1>a, <3>1, MoreRows
  <2> QED BY <1>a, <2>1, <2>2
<1>3. CASE SyncRow(p)
  <2> SUFFICES ASSUME NEW r \in acked' PROVE HoldsUp(index.rows, r)
    BY <1>3 DEF SyncRow, Newest, HoldsUp
  <2>1. proc[p].rows \subseteq index.rows
    BY <1>3, JobAt DEF SyncRow, SnapshotOK
  <2> QED BY <1>3, <1>a, <2>1 DEF SyncRow, HoldsUp
<1>4. CASE ReplaceIndex(p)
  <2> SUFFICES ASSUME NEW i \in images', NEW r \in acked PROVE HoldsUp(i.rows, r)
    BY <1>4 DEF ReplaceIndex, Newest, HoldsUp
  <2>1. i \in images \/ i.rows = NewestKept(index.rows)
    BY <1>4, JobAt DEF ReplaceIndex, PruneOK, Image
  <2> QED BY <1>a, <2>1, KeptHoldUp
<1>5. CASE TearRow(p)
  <2> SUFFICES ASSUME NEW i \in images', NEW r \in acked PROVE HoldsUp(i.rows, r)
    BY <1>5 DEF TearRow, Newest, HoldsUp
  <2>1. i \in images \/ i.rows = index.rows
    BY <1>5 DEF TearRow, Image
  <2> QED BY <1>a, <2>1
<1>6. CASE SyncIndex(p)
  BY <1>6, <1>a, <1>1 DEF SyncIndex
<1>7. CASE UNCHANGED <<images, acked>>
  BY <1>7, <1>1
<1>8. \/ UNCHANGED <<images, acked>>
      \/ AppendRow(p) \/ SyncRow(p) \/ ReplaceIndex(p) \/ TearRow(p) \/ SyncIndex(p)
  BY DEF Step, Snapshot, Retain, Write, Confirm, Link, Settle, Retained, Select, Read,
         Prune, SyncManifests, SyncChunks, Unlink, Fail, Kill
<1> QED BY <1>2, <1>3, <1>4, <1>5, <1>6, <1>7, <1>8

-----------------------------------------------------------------------------
(* Power losses                                                            *)

LEMMA OutageFiles ==
  ASSUME Typed, PowerLoss
  PROVE  /\ seen' \subseteq Names /\ durable' = seen'
         /\ seen \cap durable \cap Content \subseteq seen'
         /\ seen' \cap Content \subseteq seen \cup durable
<1>1. PICK lost \in SUBSET ((seen \ durable) \cup (durable \ seen)) :
        seen' = {Settled(n) : n \in (seen \cup durable) \ lost}
  BY DEF PowerLoss
<1>2. \A n \in Names : n \in Temporaries \/ Settled(n) = n
  BY DEF Settled
<1>3. \A n \in Temporaries : Settled(n) \in Litters
  BY DEF Settled, Temporaries, Temporary, Litters
<1>4. seen \cup durable \subseteq Names
  BY DEF Typed
<1>5. Litters \subseteq Names
  BY DEF Names
<1>6. seen' \subseteq Names
  BY <1>1, <1>2, <1>3, <1>4, <1>5
<1>7. seen \cap durable \cap Content \subseteq seen'
  BY <1>1, <1>2, <1>4, Apart
<1>8. seen' \cap Content \subseteq seen \cup durable
  BY <1>1, <1>2, <1>3, <1>4, Apart
<1> QED BY <1>6, <1>7, <1>8 DEF PowerLoss

LEMMA OutageStep ==
  ASSUME IInv, PowerLoss
  PROVE  IInv'
<1> USE DEF IInv
<1>a. /\ index' \in images /\ images' = {index'} /\ proc' = [p \in Processes |-> Idle]
      /\ acked' = acked /\ taken' = taken /\ crashes' = crashes /\ outages' = outages + 1
  BY DEF PowerLoss
<1>1. Typed'
  <2>1. Idle \in Call
    BY DEF Idle, Call
  <2>2. proc' \in [Processes -> Call]
    BY <1>a, <2>1
  <2>3. seen' \subseteq Names /\ durable' \subseteq Names
    BY OutageFiles
  <2>4. acked' \subseteq Rows /\ taken' \in 0..MaxRows /\ crashes' \in 0..MaxCrashes /\ outages' \in 0..MaxOutages
    BY <1>a, VaultAssumption DEF Typed, PowerLoss
  <2>5. \A i \in images' : i \in images
    BY <1>a
  <2> QED BY <1>a, <2>2, <2>3, <2>4, <2>5, TypedAgain DEF Typed
<1>2. Files'
  <2>1. Whole'
    BY OutageFiles, NamesApart DEF Whole, Files
  <2>2. Rooted'
    <3> SUFFICES ASSUME NEW r \in index'.rows PROVE Objects(r.doc) \subseteq seen' \cap durable'
      BY <1>a DEF Rooted
    <3>1. r.doc \in Docs /\ Objects(r.doc) \subseteq seen \cap durable
      BY <1>a DEF Typed, Rows, Files, Rooted
    <3> QED BY <3>1, OutageFiles, NamesApart
  <2>3. PinsRooted'
    BY <1>a DEF PinsRooted, Typed
  <2> QED BY <2>1, <2>2, <2>3 DEF Files
<1>3. CallsFit'
  <2>1. \A p \in Processes : proc'[p] = Idle
    BY <1>a
  <2>2. \A p \in Processes : JobOK(p)'
    BY <2>1, IdleOK
  <2>3. Alone' /\ Locked'
    BY <2>1 DEF Alone, Locked, Exclusive, Idle
  <2> QED BY <2>2, <2>3 DEF CallsFit
<1>4. Newest'
  BY <1>a DEF Newest
<1> QED BY <1>1, <1>2, <1>3, <1>4

-----------------------------------------------------------------------------
(* Theorems                                                                *)

\* Whatever calls, errors, kills and power losses do, what every image of the index
\* needs is there and on the disk, and each call knows what it has to.
THEOREM VaultHolds == Spec => []IInv
<1>1. Init => IInv
  <2> SUFFICES ASSUME Init PROVE IInv
    OBVIOUS
  <2>a. /\ seen = {} /\ durable = {} /\ index = Image({}, FALSE) /\ images = {index}
        /\ proc = [p \in Processes |-> Idle] /\ acked = {} /\ taken = 0 /\ crashes = 0 /\ outages = 0
    BY DEF Init
  <2>1. Typed
    <3>1. Idle \in Call
      BY DEF Idle, Call
    <3>2. index \in [rows: SUBSET Rows, torn: BOOLEAN] /\ IsFiniteSet(index.rows)
      BY <2>a, FS_EmptySet DEF Image
    <3>3. 0 \in 0..MaxRows /\ 0 \in 0..MaxCrashes /\ 0 \in 0..MaxOutages
      BY VaultAssumption
    <3> QED BY <2>a, <3>1, <3>2, <3>3 DEF Typed
  <2>2. Files
    BY <2>a DEF Files, Whole, Rooted, PinsRooted, Pinned, Image
  <2>3. CallsFit
    BY <2>a DEF CallsFit, JobOK, Alone, Locked, Exclusive, Idle
  <2>4. Newest
    BY <2>a DEF Newest
  <2> QED BY <2>1, <2>2, <2>3, <2>4 DEF IInv
<1>2. IInv /\ [Next]_vars => IInv'
  <2> SUFFICES ASSUME IInv, [Next]_vars PROVE IInv'
    OBVIOUS
  <2>1. ASSUME NEW p \in Processes, Step(p) PROVE IInv'
    BY <2>1, TypedStep, FilesStep, CallsStep, NewestStep DEF IInv
  <2>2. CASE PowerLoss
    BY <2>2, OutageStep
  <2>3. CASE UNCHANGED vars
    BY <2>3 DEF vars, IInv, Typed, Files, Whole, Rooted, PinsRooted, Pinned, Readable, CallsFit, JobOK,
                SnapshotOK, PinOK, ReadOK, PruneOK, FileOK, Staying, Alone, Locked, Busy, Newest
  <2> QED BY <2>1, <2>2, <2>3 DEF Next
<1> QED BY <1>1, <1>2, PTL DEF Spec

\* Names, rows and images are of their kind, and one call at most is in the index.
THEOREM Types == Spec => []TypeOK
<1>1. IInv => TypeOK
  BY DEF IInv, Typed, CallsFit, Locked, TypeOK
<1> QED BY <1>1, VaultHolds, PTL

\* Every row of the index names a snapshot that can be read back, whatever crashed
\* before; and so does every pin while no power was lost.
THEOREM RowsReadable == Spec => []RootsReadable
<1>1. IInv => RootsReadable
  BY DEF IInv, Typed, Files, Rooted, PinsRooted, RootsReadable, Readable
<1> QED BY <1>1, VaultHolds, PTL

\* A manifest that is there can be read back: prune, which reads them all, never
\* refuses because of one.
THEOREM NoDanglingManifest == Spec => []ManifestsWhole
<1>1. IInv => ManifestsWhole
  BY DEF IInv, Files, Whole, ManifestsWhole, Readable, Objects
<1> QED BY <1>1, VaultHolds, PTL

\* Rows and manifests together: nothing that is named is gone.
THEOREM HistoryStays == Spec => []HistoryReadable
BY RowsReadable, NoDanglingManifest, PTL DEF HistoryReadable

\* A reported snapshot stays in the index until prune has Keep newer ones of its
\* stream, whatever is pruned, torn or lost meanwhile.
THEOREM ReportedStay == Spec => []NewestSurvive
<1>1. IInv => NewestSurvive
  BY DEF IInv, Typed, Newest, NewestSurvive
<1> QED BY <1>1, VaultHolds, PTL

\* What a call has published, found or selected stays while it is under way.
THEOREM CustodyProtects == Spec => []CustodyHolds
<1>1. IInv => CustodyHolds
  BY DEF IInv, CallsFit, JobOK, SnapshotOK, ReadOK, PinOK, CustodyHolds
<1> QED BY <1>1, VaultHolds, PTL

\* A prune that ends has left no chunk that no manifest names.
THEOREM PruneIsComplete == Spec => NothingLeft
<1> DEFINE Ends(p) == /\ proc[p].step = "chunks" /\ proc'[p].step = "idle"
                      /\ crashes' = crashes /\ outages' = outages
<1>1. ASSUME IInv, Next, NEW p \in Processes, Ends(p)
      PROVE  seen' \cap Pieces \subseteq ChunksNamed
  <2>a. PruneOK(p) /\ proc \in [Processes -> Call]
    BY <1>1, JobAt DEF IInv, Typed
  <2>1. PICK q \in Processes : Step(q)
    BY <1>1 DEF Next, PowerLoss, IInv, Typed
  <2>2. q = p
    BY <1>1, <2>1, StepBeside DEF IInv, Beside
  <2>3. SyncChunks(p)
    <3>1. ~Fail(p) /\ ~Kill(p) /\ ~TearRow(p)
      <4>1. crashes \in 0..MaxCrashes /\ crashes' = crashes
        BY <1>1 DEF IInv, Typed
      <4>2. crashes' # crashes + 1
        BY <4>1
      <4> QED BY <4>2 DEF Fail, Kill, TearRow, Crash
    <3>2. \A n : ~Unlink(p, n)
      BY <1>1, <2>a DEF Unlink, Call
    <3> QED BY <1>1, <2>1, <2>2, <3>1, <3>2
            DEF Step, Snapshot, Retain, Write, Confirm, Link, Settle, Retained, AppendRow, MayAppend, SyncRow,
                Select, Read, Prune, ReplaceIndex, SyncIndex, SyncManifests, Busy
  <2>4. proc[p].left = {} /\ seen' = seen
    BY <2>3 DEF SyncChunks, Removable
  <2>5. \A c \in Chunks : Chunk(c) \in seen =>
          \E d \in Docs : Manifest(d) \in seen /\ c \in ChunksOf[d]
    BY <2>a, <2>4 DEF PruneOK, Staying
  <2> QED BY <2>4, <2>5 DEF Pieces, ChunksNamed, ChunkFiles
<1>2. ASSUME IInv, [Next]_vars, NEW p \in Processes, Ends(p)
      PROVE  seen' \cap Pieces \subseteq ChunksNamed
  BY <1>1, <1>2 DEF vars
<1>3. IInv /\ [Next]_vars =>
        [\A p \in Processes : Ends(p) => seen' \cap Pieces \subseteq ChunksNamed]_vars
  BY <1>2
<1> QED BY <1>3, VaultHolds, PTL DEF Spec, NothingLeft

-----------------------------------------------------------------------------
(* Copies                                                                   *)

Contents(files) == \A i \in DOMAIN files : files[i].seen \in files[i].kept
SeenIsPossible == Contents(prepared) /\ Contents(receipt) /\ Contents(target)

OneEach == \A p, q \in Commands :
  /\ At(p, "idle") <=> Of(p) = Absent
  /\ Of(p) = Of(q) /\ HasLock(p) /\ HasLock(q) => p = q

Stays == \A o \in Copies :
  /\ receipt[o].seen = Absent => receipt[o].kept = {Absent}
  /\ receipt[o].seen = "pending" => "done" \notin receipt[o].kept

Starting == {"store", "stored", "intend"}
Publishing == {"deliver", "delivered", "confirm", "sync", "confirmed", "complete"}

\* What a call knows between the sync of the directory and the lock: a receipt that is
\* still as it was then is on the disk.
OpenedOK(p) ==
  /\ call[p].found # Absent => receipt[Of(p)].seen # Absent
  /\ call[p].found = "done" => receipt[Of(p)].seen = "done"
  /\ call[p].found = receipt[Of(p)].seen => receipt[Of(p)].kept = {receipt[Of(p)].seen}

\* What a call that was not overtaken knows more than what it reads.
SureOK(p) ==
  /\ At(p, "look") \/ At(p, "check") => receipt[Of(p)].kept = {receipt[Of(p)].seen}
  /\ call[p].at \in Publishing => receipt[Of(p)].kept = {"pending"}

\* What a call knows of its receipt, of what it stored, and of its target.
CallOK(p) ==
  /\ At(p, "opened") => OpenedOK(p)
  /\ Of(p) \notin unsure => SureOK(p)
  /\ At(p, "check") => receipt[Of(p)].seen # Absent
  /\ call[p].at \in Starting => receipt[Of(p)].seen = Absent
  /\ At(p, "stored") => prepared[Of(p)].seen = "there"
  /\ At(p, "intend") => prepared[Of(p)].kept = {"there"}
  /\ At(p, "intended") => receipt[Of(p)].seen = "pending"
  /\ call[p].at \in Publishing => receipt[Of(p)].seen = "pending"
  /\ At(p, "completed") => receipt[Of(p)].seen = "done"
  /\ At(p, "sync") /\ PathOf[Of(p)] \notin edited => TargetOf(p).seen = Of(p)
  /\ call[p].at \in {"confirmed", "complete"} /\ PathOf[Of(p)] \notin edited => TargetOf(p).kept
     = {Of(p)}

CopyInv ==
  /\ CopiesTypeOK
  /\ SeenIsPossible /\ OneEach /\ Stays
  /\ \A p \in Commands : CallOK(p)
  /\ Explained /\ Recoverable /\ DeliveryIsFinal

-----------------------------------------------------------------------------
(* What all steps of a call have in common                                 *)

\* A call at work has a copy, and no other call has the lock of the same one.
LEMMA AtWork ==
  ASSUME CopyInv, NEW p \in Commands, ~At(p, "idle")
  PROVE  /\ Of(p) \in Copies /\ PathOf[Of(p)] \in Paths
         /\ HasLock(p) => \A q \in Commands : HasLock(q) /\ q # p => Of(q) # Of(p)
BY CopiesAssumption DEF CopyInv, CopiesTypeOK, Calls, OneEach, At, Of

\* Going on to another step of the same call.
LEMMA Proceeds ==
  ASSUME CopyInv, NEW p \in Commands, HasLock(p),
         NEW step \in CopySteps \ {"idle", "opened"}, Proceed(p, step)
  PROVE  /\ call' \in [Commands -> Calls] /\ OneEach'
         /\ call'[p].at = step /\ call'[p].of = Of(p)
         /\ \A q \in Commands : q # p => call'[q] = call[q]
BY DEF CopyInv, CopiesTypeOK, Calls, OneEach, HasLock, At, Of, Proceed

\* Ending a call.
LEMMA Returns ==
  ASSUME CopyInv, NEW p \in Commands, Return(p)
  PROVE  /\ call' \in [Commands -> Calls] /\ OneEach' /\ CallOK(p)'
         /\ \A q \in Commands : q # p => call'[q] = call[q]
BY CopiesAssumption DEF CopyInv, CopiesTypeOK, Calls, CopySteps, OneEach, HasLock, At, Of, Return,
   NoCall, CallOK, SureOK, Starting, Publishing

LEMMA FilesStayFiles ==
  ASSUME NEW S, NEW f \in File(S), NEW c \in S
  PROVE  Shown(f, c) \in File(S) /\ Flushed(f) \in File(S)
BY DEF File, Shown, Flushed, Certain

\* What is about files only stays true while files are left alone.
LEMMA FilesAlone ==
  ASSUME CopyInv, UNCHANGED <<prepared, receipt, target, told, edited>>, unsure \subseteq unsure'
  PROVE  SeenIsPossible' /\ Stays' /\ Explained' /\ Recoverable' /\ DeliveryIsFinal'
BY DEF CopyInv, SeenIsPossible, Contents, Stays, Explained, HasIntent, Recoverable, DeliveryIsFinal

\* How a receipt may change under a call that has yet to take its lock.
Onward(f, g) ==
  \/ g = f
  \/ g = Flushed(f)
  \/ f.seen = Absent /\ g.seen = "pending"
  \/ f.seen = "pending" /\ g.seen = "done"

LEMMA OthersAlone ==
  ASSUME CopyInv, NEW q \in Commands, call'[q] = call[q], edited' = edited,
         unsure \subseteq unsure',
         HasLock(q) => /\ prepared'[Of(q)] = prepared[Of(q)]
                       /\ receipt'[Of(q)] = receipt[Of(q)]
                       /\ TargetOf(q)' = TargetOf(q),
         At(q, "opened") => Onward(receipt[Of(q)], receipt'[Of(q)])
  PROVE  CallOK(q)'
<1>1. CASE HasLock(q)
  <2>1. CallOK(q) /\ Of(q)' = Of(q) /\ (Of(q) \notin unsure' => Of(q) \notin unsure)
    BY DEF CopyInv, Of
  <2>2. ~At(q, "opened")'
    BY <1>1 DEF HasLock, At
  <2>3. /\ prepared'[Of(q)] = prepared[Of(q)] /\ receipt'[Of(q)] = receipt[Of(q)]
        /\ TargetOf(q)' = TargetOf(q)
    BY <1>1
  <2> QED BY <2>1, <2>2, <2>3 DEF CallOK, SureOK, At
<1>2. CASE At(q, "opened")
  <2>1. OpenedOK(q) /\ call[q].found \in {Absent, "pending", "done"}
    BY <1>2 DEF CopyInv, CallOK, CopiesTypeOK, Calls
  <2>2. call'[q] = call[q] /\ Onward(receipt[Of(q)], receipt'[Of(q)])
    BY <1>2
  <2>3. OpenedOK(q)'
    BY <2>1, <2>2, CopiesAssumption DEF OpenedOK, Onward, Flushed, Certain, Of
  <2> QED BY <1>2, <2>3 DEF CallOK, SureOK, At, Starting, Publishing
<1>3. CASE At(q, "idle")
  BY <1>3 DEF CallOK, SureOK, At, Starting, Publishing
<1> QED BY <1>1, <1>2, <1>3 DEF HasLock

-----------------------------------------------------------------------------
(* The steps of a call                                                     *)

LEMMA LookKeeps == ASSUME CopyInv, NEW p \in Commands, Look(p) PROVE CopyInv'
<1>1. HasLock(p)
  BY DEF Look, HasLock, At
<1>2. /\ Of(p) \in Copies /\ PathOf[Of(p)] \in Paths
      /\ \A q \in Commands : HasLock(q) /\ q # p => Of(q) # Of(p)
  BY <1>1, AtWork DEF HasLock
<1>3. \/ Proceed(p, "check") /\ receipt[Of(p)].seen # Absent
      \/ Proceed(p, "store") /\ receipt[Of(p)].seen = Absent
      \/ Return(p)
  BY DEF Look, Unless
<1>4. call' \in [Commands -> Calls] /\ OneEach' /\ \A q \in Commands : q # p => call'[q] = call[q]
  BY <1>1, <1>3, Proceeds, Returns DEF CopySteps
<1>5. CopiesTypeOK'
  BY <1>2, <1>4, FilesStayFiles DEF CopyInv, CopiesTypeOK, Look, Of
<1>6. SeenIsPossible' /\ Stays' /\ Explained' /\ Recoverable' /\ DeliveryIsFinal'
  BY FilesAlone DEF Look
<1>7. CallOK(p)'
  <2>1. CASE Proceed(p, "check") /\ receipt[Of(p)].seen # Absent
    <3>1. call'[p].at = "check" /\ Of(p)' = Of(p)
      BY <1>1, <2>1, Proceeds DEF CopySteps, Of
    <3>2. At(p, "look") /\ CallOK(p) /\ UNCHANGED <<receipt, unsure>>
      BY DEF CopyInv, Look
    <3> QED
      BY <2>1, <3>1, <3>2 DEF CallOK, SureOK, Starting, Publishing, At
  <2>2. CASE Proceed(p, "store") /\ receipt[Of(p)].seen = Absent
    <3> call'[p].at = "store" /\ call'[p].of = Of(p)
      BY <1>1, <2>2, Proceeds DEF CopySteps
    <3> QED
      BY <1>2, <2>2, CopiesAssumption
         DEF CopyInv, CopiesTypeOK, File, CallOK, SureOK, Starting, Publishing, SeenIsPossible,
            Contents, Stays, Look, Unless, At, Of, TargetOf, Proceed, Return, NoCall
  <2>3. CASE Return(p)
    BY <2>3, Returns
  <2> QED BY <1>3, <2>1, <2>2, <2>3
<1>8. ASSUME NEW q \in Commands, q # p PROVE CallOK(q)'
  BY <1>4, <1>8, OthersAlone DEF Look, Of, TargetOf, Onward
<1> QED BY <1>4, <1>5, <1>6, <1>7, <1>8 DEF CopyInv

LEMMA StoreKeeps == ASSUME CopyInv, NEW p \in Commands, Store(p) PROVE CopyInv'
<1>1. HasLock(p)
  BY DEF Store, HasLock, At
<1>2. /\ Of(p) \in Copies /\ PathOf[Of(p)] \in Paths
      /\ \A q \in Commands : HasLock(q) /\ q # p => Of(q) # Of(p)
  BY <1>1, AtWork DEF HasLock
<1>3. Proceed(p, "stored")
  BY DEF Store
<1>4. call' \in [Commands -> Calls] /\ OneEach' /\ \A q \in Commands : q # p => call'[q] = call[q]
  BY <1>1, <1>3, Proceeds, Returns DEF CopySteps
<1>5. CopiesTypeOK'
  BY <1>2, <1>4, FilesStayFiles DEF CopyInv, CopiesTypeOK, Store, Of
<1>6. Stays' /\ Explained' /\ DeliveryIsFinal'
  BY DEF CopyInv, Stays, Explained, HasIntent, DeliveryIsFinal, Store
<1>7. SeenIsPossible'
  BY <1>2 DEF CopyInv, CopiesTypeOK, File, SeenIsPossible, Contents, Store, Shown
<1>8. Recoverable'
  <2> SUFFICES ASSUME NEW i \in Copies PROVE Recoverable!(i)'
    BY DEF Recoverable
  <2>1. CASE i = Of(p)
    BY <1>2, <2>1, CopiesAssumption
       DEF CopyInv, CopiesTypeOK, File, Recoverable, CallOK, SureOK, Starting, Publishing,
          SeenIsPossible, Contents, Stays, Store, Shown, At, Of, TargetOf
  <2>2. CASE i # Of(p)
    BY <1>2, <2>2, CopiesAssumption DEF CopyInv, CopiesTypeOK, File, Recoverable,
       SeenIsPossible, Contents, CallOK, SureOK, Publishing, Store, Shown, At, Of, TargetOf
  <2> QED BY <2>1, <2>2
<1>9. CallOK(p)'
  <2>1. CASE Proceed(p, "stored")
    <3> call'[p].at = "stored" /\ call'[p].of = Of(p)
      BY <1>1, <2>1, Proceeds DEF CopySteps
    <3> QED
      BY <1>2, <2>1, CopiesAssumption
         DEF CopyInv, CopiesTypeOK, File, CallOK, SureOK, Starting, Publishing, SeenIsPossible,
            Contents, Stays, Store, Shown, At, Of, TargetOf
  <2> QED BY <1>3, <2>1
<1>10. ASSUME NEW q \in Commands, q # p PROVE CallOK(q)'
  <2>1. ASSUME HasLock(q)
        PROVE  prepared'[Of(q)] = prepared[Of(q)] /\ receipt'[Of(q)] = receipt[Of(q)]
    <3>1. Of(q) \in Copies /\ Of(q) # Of(p)
      BY <1>2, <1>10, <2>1, AtWork DEF HasLock
    <3> QED
      BY <1>2, <3>1 DEF CopyInv, CopiesTypeOK, Store
  <2> QED
    BY <1>4, <1>10, <2>1, OthersAlone DEF Store, Of, TargetOf, Onward
<1> QED BY <1>4, <1>5, <1>6, <1>7, <1>8, <1>9, <1>10 DEF CopyInv

LEMMA SyncStoredKeeps == ASSUME CopyInv, NEW p \in Commands, SyncStored(p) PROVE CopyInv'
<1>1. HasLock(p)
  BY DEF SyncStored, HasLock, At
<1>2. /\ Of(p) \in Copies /\ PathOf[Of(p)] \in Paths
      /\ \A q \in Commands : HasLock(q) /\ q # p => Of(q) # Of(p)
  BY <1>1, AtWork DEF HasLock
<1>3. Proceed(p, "intend")
  BY DEF SyncStored
<1>4. call' \in [Commands -> Calls] /\ OneEach' /\ \A q \in Commands : q # p => call'[q] = call[q]
  BY <1>1, <1>3, Proceeds, Returns DEF CopySteps
<1>5. CopiesTypeOK'
  BY <1>2, <1>4, FilesStayFiles DEF CopyInv, CopiesTypeOK, SyncStored, Of
<1>6. Stays' /\ Explained' /\ DeliveryIsFinal'
  BY DEF CopyInv, Stays, Explained, HasIntent, DeliveryIsFinal, SyncStored
<1>7. SeenIsPossible'
  BY <1>2 DEF CopyInv, CopiesTypeOK, File, SeenIsPossible, Contents, SyncStored, Flushed,
     Certain
<1>8. Recoverable'
  <2> SUFFICES ASSUME NEW i \in Copies PROVE Recoverable!(i)'
    BY DEF Recoverable
  <2>1. CASE i = Of(p)
    BY <1>2, <2>1, CopiesAssumption
       DEF CopyInv, CopiesTypeOK, File, Recoverable, CallOK, SureOK, Starting, Publishing,
          SeenIsPossible, Contents, Stays, SyncStored, Flushed, Certain, At, Of, TargetOf
  <2>2. CASE i # Of(p)
    BY <1>2, <2>2, CopiesAssumption DEF CopyInv, CopiesTypeOK, File, Recoverable,
       SeenIsPossible, Contents, CallOK, SureOK, Publishing, SyncStored, Flushed, Certain, At, Of,
       TargetOf
  <2> QED BY <2>1, <2>2
<1>9. CallOK(p)'
  <2>1. CASE Proceed(p, "intend")
    <3> call'[p].at = "intend" /\ call'[p].of = Of(p)
      BY <1>1, <2>1, Proceeds DEF CopySteps
    <3> QED
      BY <1>2, <2>1, CopiesAssumption
         DEF CopyInv, CopiesTypeOK, File, CallOK, SureOK, Starting, Publishing, SeenIsPossible,
            Contents, Stays, SyncStored, Flushed, Certain, At, Of, TargetOf
  <2> QED BY <1>3, <2>1
<1>10. ASSUME NEW q \in Commands, q # p PROVE CallOK(q)'
  <2>1. ASSUME HasLock(q)
        PROVE  prepared'[Of(q)] = prepared[Of(q)] /\ receipt'[Of(q)] = receipt[Of(q)]
    <3>1. Of(q) \in Copies /\ Of(q) # Of(p)
      BY <1>2, <1>10, <2>1, AtWork DEF HasLock
    <3> QED
      BY <1>2, <3>1 DEF CopyInv, CopiesTypeOK, SyncStored
  <2> QED
    BY <1>4, <1>10, <2>1, OthersAlone DEF SyncStored, Of, TargetOf, Onward
<1> QED BY <1>4, <1>5, <1>6, <1>7, <1>8, <1>9, <1>10 DEF CopyInv

LEMMA IntendKeeps == ASSUME CopyInv, NEW p \in Commands, Intend(p) PROVE CopyInv'
<1>1. HasLock(p)
  BY DEF Intend, HasLock, At
<1>2. /\ Of(p) \in Copies /\ PathOf[Of(p)] \in Paths
      /\ \A q \in Commands : HasLock(q) /\ q # p => Of(q) # Of(p)
  BY <1>1, AtWork DEF HasLock
<1>3. Proceed(p, "intended")
  BY DEF Intend
<1>4. call' \in [Commands -> Calls] /\ OneEach' /\ \A q \in Commands : q # p => call'[q] = call[q]
  BY <1>1, <1>3, Proceeds, Returns DEF CopySteps
<1>5. CopiesTypeOK'
  BY <1>2, <1>4, FilesStayFiles DEF CopyInv, CopiesTypeOK, Intend, Of
<1>6. SeenIsPossible'
  BY <1>2 DEF CopyInv, CopiesTypeOK, File, SeenIsPossible, Contents, Intend, Shown
<1>7. Stays'
  <2> SUFFICES ASSUME NEW i \in Copies PROVE Stays!(i)'
    BY DEF Stays
  <2>1. CASE i = Of(p)
    BY <1>2, <2>1, CopiesAssumption
       DEF CopyInv, CopiesTypeOK, File, Stays, CallOK, SureOK, Starting, Publishing, SeenIsPossible,
          Contents, Intend, Shown, At, Of, TargetOf
  <2>2. CASE i # Of(p)
    BY <1>2, <2>2, CopiesAssumption DEF CopyInv, CopiesTypeOK, File, Stays, SeenIsPossible,
       Contents, CallOK, SureOK, Publishing, Intend, Shown, At, Of, TargetOf
  <2> QED BY <2>1, <2>2
<1>8. Explained'
  <2> SUFFICES ASSUME NEW i \in Copies, i \notin unsure, i \in target[PathOf[i]].kept
               PROVE  Absent \notin receipt'[i].kept
    BY DEF Explained, HasIntent, Intend
  <2>1. Absent \notin receipt[i].kept /\ receipt[i].seen \in receipt[i].kept
    BY DEF CopyInv, CopiesTypeOK, Explained, HasIntent, SeenIsPossible, Contents
  <2>2. CASE i = Of(p)
    BY <1>2, <2>1, <2>2, CopiesAssumption
       DEF CopyInv, CopiesTypeOK, CallOK, Starting, Intend, At, Of
  <2>3. CASE i # Of(p)
    BY <1>2, <2>1, <2>3 DEF CopyInv, CopiesTypeOK, Intend
  <2> QED BY <2>2, <2>3
<1>9. Recoverable'
  <2> SUFFICES ASSUME NEW i \in Copies PROVE Recoverable!(i)'
    BY DEF Recoverable
  <2>1. CASE i = Of(p)
    BY <1>2, <2>1, CopiesAssumption
       DEF CopyInv, CopiesTypeOK, File, Recoverable, CallOK, SureOK, Starting, Publishing,
          SeenIsPossible, Contents, Stays, Intend, Shown, At, Of, TargetOf
  <2>2. CASE i # Of(p)
    BY <1>2, <2>2, CopiesAssumption DEF CopyInv, CopiesTypeOK, File, Recoverable,
       SeenIsPossible, Contents, CallOK, SureOK, Publishing, Intend, Shown, At, Of, TargetOf
  <2> QED BY <2>1, <2>2
<1>10. DeliveryIsFinal'
  <2> SUFFICES ASSUME NEW i \in Copies PROVE DeliveryIsFinal!(i)'
    BY DEF DeliveryIsFinal
  <2>1. CASE i = Of(p)
    BY <1>2, <2>1, CopiesAssumption
       DEF CopyInv, CopiesTypeOK, File, DeliveryIsFinal, CallOK, SureOK, Starting, Publishing,
          SeenIsPossible, Contents, Stays, Intend, Shown, At, Of, TargetOf
  <2>2. CASE i # Of(p)
    BY <1>2, <2>2, CopiesAssumption DEF CopyInv, CopiesTypeOK, File, DeliveryIsFinal,
       SeenIsPossible, Contents, CallOK, SureOK, Publishing, Intend, Shown, At, Of, TargetOf
  <2> QED BY <2>1, <2>2
<1>11. CallOK(p)'
  <2>1. CASE Proceed(p, "intended")
    <3> call'[p].at = "intended" /\ call'[p].of = Of(p)
      BY <1>1, <2>1, Proceeds DEF CopySteps
    <3> QED
      BY <1>2, <2>1, CopiesAssumption
         DEF CopyInv, CopiesTypeOK, File, CallOK, SureOK, Starting, Publishing, SeenIsPossible,
            Contents, Stays, Intend, Shown, At, Of, TargetOf
  <2> QED BY <1>3, <2>1
<1>12. \A o \in Copies : Onward(receipt[o], receipt'[o])
  BY <1>2 DEF CopyInv, CopiesTypeOK, CallOK, Starting, Publishing, Intend, Shown, At, Of, Onward
<1>13. ASSUME NEW q \in Commands, q # p PROVE CallOK(q)'
  <2>1. ASSUME HasLock(q)
        PROVE  prepared'[Of(q)] = prepared[Of(q)] /\ receipt'[Of(q)] = receipt[Of(q)]
    <3>1. Of(q) \in Copies /\ Of(q) # Of(p)
      BY <1>2, <1>13, <2>1, AtWork DEF HasLock
    <3> QED
      BY <1>2, <3>1 DEF CopyInv, CopiesTypeOK, Intend
  <2>2. ASSUME At(q, "opened") PROVE Onward(receipt[Of(q)], receipt'[Of(q)])
    BY <1>12, <1>13, <2>2, AtWork DEF At
  <2> QED
    BY <1>4, <1>13, <2>1, <2>2, OthersAlone DEF Intend, Of, TargetOf
<1> QED BY <1>4, <1>5, <1>6, <1>7, <1>8, <1>9, <1>10, <1>11, <1>13 DEF CopyInv

LEMMA SyncIntentKeeps == ASSUME CopyInv, NEW p \in Commands, SyncIntent(p) PROVE CopyInv'
<1>1. HasLock(p)
  BY DEF SyncIntent, HasLock, At
<1>2. /\ Of(p) \in Copies /\ PathOf[Of(p)] \in Paths
      /\ \A q \in Commands : HasLock(q) /\ q # p => Of(q) # Of(p)
  BY <1>1, AtWork DEF HasLock
<1>3. Proceed(p, "check")
  BY DEF SyncIntent
<1>4. call' \in [Commands -> Calls] /\ OneEach' /\ \A q \in Commands : q # p => call'[q] = call[q]
  BY <1>1, <1>3, Proceeds, Returns DEF CopySteps
<1>5. CopiesTypeOK'
  BY <1>2, <1>4, FilesStayFiles DEF CopyInv, CopiesTypeOK, SyncIntent, Of
<1>6. SeenIsPossible'
  BY <1>2 DEF CopyInv, CopiesTypeOK, File, SeenIsPossible, Contents, SyncIntent, Flushed,
     Certain
<1>7. Stays'
  <2> SUFFICES ASSUME NEW i \in Copies PROVE Stays!(i)'
    BY DEF Stays
  <2>1. CASE i = Of(p)
    BY <1>2, <2>1, CopiesAssumption
       DEF CopyInv, CopiesTypeOK, File, Stays, CallOK, SureOK, Starting, Publishing, SeenIsPossible,
          Contents, SyncIntent, Flushed, Certain, At, Of, TargetOf
  <2>2. CASE i # Of(p)
    BY <1>2, <2>2, CopiesAssumption DEF CopyInv, CopiesTypeOK, File, Stays, SeenIsPossible,
       Contents, CallOK, SureOK, Publishing, SyncIntent, Flushed, Certain, At, Of, TargetOf
  <2> QED BY <2>1, <2>2
<1>8. Explained'
  <2> SUFFICES ASSUME NEW i \in Copies, i \notin unsure, i \in target[PathOf[i]].kept
               PROVE  Absent \notin receipt'[i].kept
    BY DEF Explained, HasIntent, SyncIntent
  <2>1. Absent \notin receipt[i].kept /\ receipt[i].seen \in receipt[i].kept
    BY DEF CopyInv, CopiesTypeOK, Explained, HasIntent, SeenIsPossible, Contents
  <2>2. CASE i = Of(p)
    BY <1>2, <2>1, <2>2, CopiesAssumption
       DEF CopyInv, CopiesTypeOK, CallOK, Starting, SyncIntent, At, Of, Flushed, Certain
  <2>3. CASE i # Of(p)
    BY <1>2, <2>1, <2>3 DEF CopyInv, CopiesTypeOK, SyncIntent
  <2> QED BY <2>2, <2>3
<1>9. Recoverable'
  <2> SUFFICES ASSUME NEW i \in Copies PROVE Recoverable!(i)'
    BY DEF Recoverable
  <2>1. CASE i = Of(p)
    BY <1>2, <2>1, CopiesAssumption
       DEF CopyInv, CopiesTypeOK, File, Recoverable, CallOK, SureOK, Starting, Publishing,
          SeenIsPossible, Contents, Stays, SyncIntent, Flushed, Certain, At, Of, TargetOf
  <2>2. CASE i # Of(p)
    BY <1>2, <2>2, CopiesAssumption DEF CopyInv, CopiesTypeOK, File, Recoverable,
       SeenIsPossible, Contents, CallOK, SureOK, Publishing, SyncIntent, Flushed, Certain, At, Of,
       TargetOf
  <2> QED BY <2>1, <2>2
<1>10. DeliveryIsFinal'
  <2> SUFFICES ASSUME NEW i \in Copies PROVE DeliveryIsFinal!(i)'
    BY DEF DeliveryIsFinal
  <2>1. CASE i = Of(p)
    BY <1>2, <2>1, CopiesAssumption
       DEF CopyInv, CopiesTypeOK, File, DeliveryIsFinal, CallOK, SureOK, Starting, Publishing,
          SeenIsPossible, Contents, Stays, SyncIntent, Flushed, Certain, At, Of, TargetOf
  <2>2. CASE i # Of(p)
    BY <1>2, <2>2, CopiesAssumption DEF CopyInv, CopiesTypeOK, File, DeliveryIsFinal,
       SeenIsPossible, Contents, CallOK, SureOK, Publishing, SyncIntent, Flushed, Certain, At, Of,
       TargetOf
  <2> QED BY <2>1, <2>2
<1>11. CallOK(p)'
  <2>1. CASE Proceed(p, "check")
    <3> call'[p].at = "check" /\ call'[p].of = Of(p)
      BY <1>1, <2>1, Proceeds DEF CopySteps
    <3> QED
      BY <1>2, <2>1, CopiesAssumption
         DEF CopyInv, CopiesTypeOK, File, CallOK, SureOK, Starting, Publishing, SeenIsPossible,
            Contents, Stays, SyncIntent, Flushed, Certain, At, Of, TargetOf
  <2> QED BY <1>3, <2>1
<1>12. \A o \in Copies : Onward(receipt[o], receipt'[o])
  BY <1>2 DEF CopyInv, CopiesTypeOK, CallOK, Starting, Publishing, SyncIntent, At, Of, Onward
<1>13. ASSUME NEW q \in Commands, q # p PROVE CallOK(q)'
  <2>1. ASSUME HasLock(q)
        PROVE  prepared'[Of(q)] = prepared[Of(q)] /\ receipt'[Of(q)] = receipt[Of(q)]
    <3>1. Of(q) \in Copies /\ Of(q) # Of(p)
      BY <1>2, <1>13, <2>1, AtWork DEF HasLock
    <3> QED
      BY <1>2, <3>1 DEF CopyInv, CopiesTypeOK, SyncIntent
  <2>2. ASSUME At(q, "opened") PROVE Onward(receipt[Of(q)], receipt'[Of(q)])
    BY <1>12, <1>13, <2>2, AtWork DEF At
  <2> QED
    BY <1>4, <1>13, <2>1, <2>2, OthersAlone DEF SyncIntent, Of, TargetOf
<1> QED BY <1>4, <1>5, <1>6, <1>7, <1>8, <1>9, <1>10, <1>11, <1>13 DEF CopyInv

LEMMA CheckKeeps == ASSUME CopyInv, NEW p \in Commands, Check(p) PROVE CopyInv'
<1>1. HasLock(p)
  BY DEF Check, HasLock, At
<1>2. /\ Of(p) \in Copies /\ PathOf[Of(p)] \in Paths
      /\ \A q \in Commands : HasLock(q) /\ q # p => Of(q) # Of(p)
  BY <1>1, AtWork DEF HasLock
<1>3. Proceed(p, "deliver") \/ Proceed(p, "confirm") \/ Return(p)
  BY DEF Check
<1>4. call' \in [Commands -> Calls] /\ OneEach' /\ \A q \in Commands : q # p => call'[q] = call[q]
  BY <1>1, <1>3, Proceeds, Returns DEF CopySteps
<1>5. CopiesTypeOK'
  BY <1>2, <1>4, FilesStayFiles DEF CopyInv, CopiesTypeOK, Check, Of
<1>6. SeenIsPossible' /\ Stays' /\ Explained' /\ Recoverable'
  BY DEF CopyInv, SeenIsPossible, Stays, Explained, HasIntent, Recoverable, Contents, Check
<1>7. DeliveryIsFinal'
  <2> SUFFICES ASSUME NEW i \in Copies PROVE DeliveryIsFinal!(i)'
    BY DEF DeliveryIsFinal
  <2>1. CASE i = Of(p)
    BY <1>2, <2>1, CopiesAssumption
       DEF CopyInv, CopiesTypeOK, File, DeliveryIsFinal, CallOK, SureOK, Starting, Publishing,
          SeenIsPossible, Contents, Stays, Check, At, Of, TargetOf
  <2>2. CASE i # Of(p)
    BY <1>2, <2>2, CopiesAssumption DEF CopyInv, CopiesTypeOK, File, DeliveryIsFinal,
       SeenIsPossible, Contents, CallOK, SureOK, Publishing, Check, At, Of, TargetOf
  <2> QED BY <2>1, <2>2
<1>8. CallOK(p)'
  <2>1. CASE Proceed(p, "deliver")
    <3> call'[p].at = "deliver" /\ call'[p].of = Of(p)
      BY <1>1, <2>1, Proceeds DEF CopySteps
    <3> QED
      BY <1>2, <2>1, CopiesAssumption
         DEF CopyInv, CopiesTypeOK, File, CallOK, SureOK, Starting, Publishing, SeenIsPossible,
            Contents, Stays, Check, At, Of, TargetOf, Proceed, Return, NoCall
  <2>2. CASE Proceed(p, "confirm")
    <3> call'[p].at = "confirm" /\ call'[p].of = Of(p)
      BY <1>1, <2>2, Proceeds DEF CopySteps
    <3> QED
      BY <1>2, <2>2, CopiesAssumption
         DEF CopyInv, CopiesTypeOK, File, CallOK, SureOK, Starting, Publishing, SeenIsPossible,
            Contents, Stays, Check, At, Of, TargetOf, Proceed, Return, NoCall
  <2>3. CASE Return(p)
    BY <2>3, Returns
  <2> QED BY <1>3, <2>1, <2>2, <2>3
<1>9. ASSUME NEW q \in Commands, q # p PROVE CallOK(q)'
  BY <1>4, <1>9, OthersAlone DEF Check, Of, TargetOf, Onward
<1> QED BY <1>4, <1>5, <1>6, <1>7, <1>8, <1>9 DEF CopyInv

LEMMA DeliverKeeps == ASSUME CopyInv, NEW p \in Commands, Deliver(p) PROVE CopyInv'
<1>1. HasLock(p)
  BY DEF Deliver, HasLock, At
<1>2. /\ Of(p) \in Copies /\ PathOf[Of(p)] \in Paths
      /\ \A q \in Commands : HasLock(q) /\ q # p => Of(q) # Of(p)
  BY <1>1, AtWork DEF HasLock
<1>3. Proceed(p, "delivered") \/ Return(p)
  BY DEF Deliver, Unless
<1>4. call' \in [Commands -> Calls] /\ OneEach' /\ \A q \in Commands : q # p => call'[q] = call[q]
  BY <1>1, <1>3, Proceeds, Returns DEF CopySteps
<1>d. /\ UNCHANGED <<prepared, receipt, told, unsure, edited>>
      /\ receipt[Of(p)].seen = "pending" /\ "done" \notin receipt[Of(p)].kept
      /\ Of(p) \notin unsure => receipt[Of(p)].kept = {"pending"}
      /\ \/ target' = target
         \/ /\ TargetOf(p).seen = Absent
            /\ target' = [target EXCEPT ![PathOf[Of(p)]] = Shown(@, Of(p))]
  BY <1>2 DEF Deliver, At, CopyInv, CallOK, SureOK, Publishing, Stays
<1>5. CopiesTypeOK'
  BY <1>2, <1>4, FilesStayFiles DEF CopyInv, CopiesTypeOK, Deliver, Of
<1>6. Stays' /\ Recoverable'
  BY DEF CopyInv, Stays, Recoverable, Deliver
<1>7. SeenIsPossible'
  BY <1>2 DEF CopyInv, CopiesTypeOK, File, SeenIsPossible, Contents, Deliver, Shown
<1>8. Explained'
  <2> SUFFICES ASSUME NEW i \in Copies, i \notin unsure, i \in target'[PathOf[i]].kept
               PROVE  Absent \notin receipt[i].kept
    BY <1>d DEF Explained, HasIntent
  <2>1. CASE i = Of(p)
    BY <1>d, <2>1, CopiesAssumption
  <2>2. CASE i # Of(p)
    <3>1. i \in target[PathOf[i]].kept
      BY <1>2, <1>d, <2>2, CopiesAssumption DEF CopyInv, CopiesTypeOK, Shown
    <3> QED
      BY <3>1 DEF CopyInv, Explained, HasIntent
  <2> QED BY <2>1, <2>2
<1>9. DeliveryIsFinal'
  <2> SUFFICES ASSUME NEW i \in Copies PROVE DeliveryIsFinal!(i)'
    BY DEF DeliveryIsFinal
  <2>1. CASE i = Of(p)
    BY <1>d, <2>1 DEF CopyInv, DeliveryIsFinal
  <2>2. CASE i # Of(p)
    <3>1. PathOf[i] \in Paths /\ Absent # i
      BY CopiesAssumption
    <3>2. target'[PathOf[i]] = target[PathOf[i]] \/ target[PathOf[i]].seen = Absent
      BY <1>2, <1>d, <3>1 DEF CopyInv, CopiesTypeOK, TargetOf
    <3>3. target[PathOf[i]].seen \in target[PathOf[i]].kept
      BY <3>1 DEF CopyInv, CopiesTypeOK, SeenIsPossible, Contents
    <3> QED
      BY <1>d, <3>1, <3>2, <3>3 DEF CopyInv, DeliveryIsFinal
  <2> QED BY <2>1, <2>2
<1>10. CallOK(p)'
  <2>1. CASE Proceed(p, "delivered")
    <3> call'[p].at = "delivered" /\ call'[p].of = Of(p)
      BY <1>1, <2>1, Proceeds DEF CopySteps
    <3> QED
      BY <1>2, <2>1, CopiesAssumption
         DEF CopyInv, CopiesTypeOK, File, CallOK, SureOK, Starting, Publishing, SeenIsPossible,
            Contents, Stays, Deliver, Unless, Shown, At, Of, TargetOf, Proceed, Return, NoCall
  <2>2. CASE Return(p)
    BY <2>2, Returns
  <2> QED BY <1>3, <2>1, <2>2
<1>11. ASSUME NEW q \in Commands, q # p PROVE CallOK(q)'
  <2>1. CASE ~HasLock(q)
    BY <1>4, <1>11, <1>d, <2>1, OthersAlone DEF Onward
  <2>2. CASE HasLock(q)
    <3>1. Of(q) \in Copies /\ PathOf[Of(q)] \in Paths
      BY <1>11, <2>2, AtWork DEF HasLock
    <3>2. CallOK(q) /\ call'[q] = call[q] /\ Of(q)' = Of(q)
      BY <1>4, <1>11 DEF CopyInv, Of
    <3>3. TargetOf(q)' = TargetOf(q) \/ TargetOf(q).seen = Absent
      BY <1>d, <3>1, <3>2 DEF CopyInv, CopiesTypeOK, TargetOf
    <3>4. TargetOf(q).seen \in TargetOf(q).kept
      BY <3>1 DEF CopyInv, CopiesTypeOK, SeenIsPossible, Contents, TargetOf
    <3>5. ASSUME PathOf[Of(q)] \notin edited, call[q].at \in {"sync", "confirmed", "complete"}
          PROVE  TargetOf(q)' = TargetOf(q)
      BY <3>1, <3>2, <3>3, <3>4, <3>5, CopiesAssumption DEF CallOK, At
    <3> QED
      BY <1>d, <2>2, <3>2, <3>5 DEF CallOK, SureOK, HasLock, At
  <2> QED BY <2>1, <2>2
<1> QED BY <1>4, <1>5, <1>6, <1>7, <1>8, <1>9, <1>10, <1>11 DEF CopyInv

LEMMA SyncDeliveryKeeps == ASSUME CopyInv, NEW p \in Commands, SyncDelivery(p) PROVE CopyInv'
<1>1. HasLock(p)
  BY DEF SyncDelivery, HasLock, At
<1>2. /\ Of(p) \in Copies /\ PathOf[Of(p)] \in Paths
      /\ \A q \in Commands : HasLock(q) /\ q # p => Of(q) # Of(p)
  BY <1>1, AtWork DEF HasLock
<1>3. Proceed(p, "confirm")
  BY DEF SyncDelivery
<1>4. call' \in [Commands -> Calls] /\ OneEach' /\ \A q \in Commands : q # p => call'[q] = call[q]
  BY <1>1, <1>3, Proceeds, Returns DEF CopySteps
<1>5. CopiesTypeOK'
  BY <1>2, <1>4, FilesStayFiles DEF CopyInv, CopiesTypeOK, SyncDelivery, Of
<1>6. Stays' /\ Recoverable'
  BY DEF CopyInv, Stays, Recoverable, SyncDelivery
<1>7. SeenIsPossible'
  BY <1>2 DEF CopyInv, CopiesTypeOK, File, SeenIsPossible, Contents, SyncDelivery, Flushed,
     Certain
<1>8. Explained'
  <2> SUFFICES ASSUME NEW i \in Copies, i \notin unsure, i \in target'[PathOf[i]].kept
               PROVE  Absent \notin receipt[i].kept
    BY DEF Explained, HasIntent, SyncDelivery
  <2>1. PathOf[i] \in Paths
    BY CopiesAssumption
  <2>2. i \in target[PathOf[i]].kept
    BY <1>2, <2>1 DEF CopyInv, CopiesTypeOK, SeenIsPossible, Contents, SyncDelivery, Flushed, Certain
  <2> QED BY <2>2 DEF CopyInv, Explained, HasIntent
<1>9. DeliveryIsFinal'
  <2> SUFFICES ASSUME NEW i \in Copies PROVE DeliveryIsFinal!(i)'
    BY DEF DeliveryIsFinal
  <2>1. CASE i = Of(p)
    BY <1>2, <2>1, CopiesAssumption
       DEF CopyInv, CopiesTypeOK, File, DeliveryIsFinal, CallOK, SureOK, Starting, Publishing,
          SeenIsPossible, Contents, Stays, SyncDelivery, Flushed, Certain, At, Of, TargetOf
  <2>2. CASE i # Of(p)
    BY <1>2, <2>2, CopiesAssumption DEF CopyInv, CopiesTypeOK, File, DeliveryIsFinal,
       SeenIsPossible, Contents, CallOK, SureOK, Publishing, SyncDelivery, Flushed, Certain, At, Of,
       TargetOf
  <2> QED BY <2>1, <2>2
<1>10. CallOK(p)'
  <2>1. CASE Proceed(p, "confirm")
    <3> call'[p].at = "confirm" /\ call'[p].of = Of(p)
      BY <1>1, <2>1, Proceeds DEF CopySteps
    <3> QED
      BY <1>2, <2>1, CopiesAssumption
         DEF CopyInv, CopiesTypeOK, File, CallOK, SureOK, Starting, Publishing, SeenIsPossible,
            Contents, Stays, SyncDelivery, Flushed, Certain, At, Of, TargetOf
  <2> QED BY <1>3, <2>1
<1>11. ASSUME NEW q \in Commands, q # p PROVE CallOK(q)'
  <2>1. CASE ~HasLock(q)
    BY <1>4, <1>11, <2>1, OthersAlone DEF SyncDelivery, Onward
  <2>2. CASE HasLock(q)
    <3>1. PathOf[Of(q)] \in Paths
      BY <2>2, AtWork DEF HasLock
    <3>2. CallOK(q) /\ call'[q] = call[q] /\ Of(q)' = Of(q)
      BY <1>4, <1>11 DEF CopyInv, Of
    <3>3. \/ TargetOf(q)' = TargetOf(q)
          \/ TargetOf(q)' = [seen |-> TargetOf(q).seen, kept |-> {TargetOf(q).seen}]
      BY <1>2, <3>1, <3>2 DEF CopyInv, CopiesTypeOK, TargetOf, SyncDelivery, Flushed, Certain
    <3>4. TargetOf(q).seen \in TargetOf(q).kept
      BY <3>1 DEF CopyInv, CopiesTypeOK, SeenIsPossible, Contents, TargetOf
    <3>5. UNCHANGED <<prepared, receipt, unsure, edited>>
      BY DEF SyncDelivery
    <3> QED
      BY <2>2, <3>2, <3>3, <3>4, <3>5 DEF CallOK, SureOK, HasLock, At
  <2> QED BY <2>1, <2>2
<1> QED BY <1>4, <1>5, <1>6, <1>7, <1>8, <1>9, <1>10, <1>11 DEF CopyInv

LEMMA ConfirmTargetKeeps == ASSUME CopyInv, NEW p \in Commands, ConfirmTarget(p) PROVE CopyInv'
<1>1. HasLock(p)
  BY DEF ConfirmTarget, HasLock, At
<1>2. /\ Of(p) \in Copies /\ PathOf[Of(p)] \in Paths
      /\ \A q \in Commands : HasLock(q) /\ q # p => Of(q) # Of(p)
  BY <1>1, AtWork DEF HasLock
<1>3. Proceed(p, "sync") \/ Return(p)
  BY DEF ConfirmTarget, Unless
<1>4. call' \in [Commands -> Calls] /\ OneEach' /\ \A q \in Commands : q # p => call'[q] = call[q]
  BY <1>1, <1>3, Proceeds, Returns DEF CopySteps
<1>5. CopiesTypeOK'
  BY <1>2, <1>4, FilesStayFiles DEF CopyInv, CopiesTypeOK, ConfirmTarget, Of
<1>6. SeenIsPossible' /\ Stays' /\ Explained' /\ Recoverable' /\ DeliveryIsFinal'
  BY FilesAlone DEF ConfirmTarget
<1>7. CallOK(p)'
  <2>1. CASE Proceed(p, "sync")
    <3> call'[p].at = "sync" /\ call'[p].of = Of(p)
      BY <1>1, <2>1, Proceeds DEF CopySteps
    <3> QED
      BY <1>2, <2>1, CopiesAssumption
         DEF CopyInv, CopiesTypeOK, File, CallOK, SureOK, Starting, Publishing, SeenIsPossible,
            Contents, Stays, ConfirmTarget, Unless, At, Of, TargetOf, Proceed, Return, NoCall
  <2>2. CASE Return(p)
    BY <2>2, Returns
  <2> QED BY <1>3, <2>1, <2>2
<1>8. ASSUME NEW q \in Commands, q # p PROVE CallOK(q)'
  BY <1>4, <1>8, OthersAlone DEF ConfirmTarget, Of, TargetOf, Onward
<1> QED BY <1>4, <1>5, <1>6, <1>7, <1>8 DEF CopyInv

LEMMA SyncConfirmedKeeps == ASSUME CopyInv, NEW p \in Commands, SyncConfirmed(p) PROVE CopyInv'
<1>1. HasLock(p)
  BY DEF SyncConfirmed, HasLock, At
<1>2. /\ Of(p) \in Copies /\ PathOf[Of(p)] \in Paths
      /\ \A q \in Commands : HasLock(q) /\ q # p => Of(q) # Of(p)
  BY <1>1, AtWork DEF HasLock
<1>3. Proceed(p, "confirmed")
  BY DEF SyncConfirmed
<1>4. call' \in [Commands -> Calls] /\ OneEach' /\ \A q \in Commands : q # p => call'[q] = call[q]
  BY <1>1, <1>3, Proceeds, Returns DEF CopySteps
<1>5. CopiesTypeOK'
  BY <1>2, <1>4, FilesStayFiles DEF CopyInv, CopiesTypeOK, SyncConfirmed, Of
<1>6. Stays' /\ Recoverable'
  BY DEF CopyInv, Stays, Recoverable, SyncConfirmed
<1>7. SeenIsPossible'
  BY <1>2 DEF CopyInv, CopiesTypeOK, File, SeenIsPossible, Contents, SyncConfirmed, Flushed,
     Certain
<1>8. Explained'
  <2> SUFFICES ASSUME NEW i \in Copies, i \notin unsure, i \in target'[PathOf[i]].kept
               PROVE  Absent \notin receipt[i].kept
    BY DEF Explained, HasIntent, SyncConfirmed
  <2>1. PathOf[i] \in Paths
    BY CopiesAssumption
  <2>2. i \in target[PathOf[i]].kept
    BY <1>2, <2>1 DEF CopyInv, CopiesTypeOK, SeenIsPossible, Contents, SyncConfirmed, Flushed, Certain
  <2> QED BY <2>2 DEF CopyInv, Explained, HasIntent
<1>9. DeliveryIsFinal'
  <2> SUFFICES ASSUME NEW i \in Copies PROVE DeliveryIsFinal!(i)'
    BY DEF DeliveryIsFinal
  <2>1. CASE i = Of(p)
    BY <1>2, <2>1, CopiesAssumption
       DEF CopyInv, CopiesTypeOK, File, DeliveryIsFinal, CallOK, SureOK, Starting, Publishing,
          SeenIsPossible, Contents, Stays, SyncConfirmed, Flushed, Certain, At, Of, TargetOf
  <2>2. CASE i # Of(p)
    BY <1>2, <2>2, CopiesAssumption DEF CopyInv, CopiesTypeOK, File, DeliveryIsFinal,
       SeenIsPossible, Contents, CallOK, SureOK, Publishing, SyncConfirmed, Flushed, Certain, At, Of,
       TargetOf
  <2> QED BY <2>1, <2>2
<1>10. CallOK(p)'
  <2>1. CASE Proceed(p, "confirmed")
    <3> call'[p].at = "confirmed" /\ call'[p].of = Of(p)
      BY <1>1, <2>1, Proceeds DEF CopySteps
    <3> QED
      BY <1>2, <2>1, CopiesAssumption
         DEF CopyInv, CopiesTypeOK, File, CallOK, SureOK, Starting, Publishing, SeenIsPossible,
            Contents, Stays, SyncConfirmed, Flushed, Certain, At, Of, TargetOf
  <2> QED BY <1>3, <2>1
<1>11. ASSUME NEW q \in Commands, q # p PROVE CallOK(q)'
  <2>1. CASE ~HasLock(q)
    BY <1>4, <1>11, <2>1, OthersAlone DEF SyncConfirmed, Onward
  <2>2. CASE HasLock(q)
    <3>1. PathOf[Of(q)] \in Paths
      BY <2>2, AtWork DEF HasLock
    <3>2. CallOK(q) /\ call'[q] = call[q] /\ Of(q)' = Of(q)
      BY <1>4, <1>11 DEF CopyInv, Of
    <3>3. \/ TargetOf(q)' = TargetOf(q)
          \/ TargetOf(q)' = [seen |-> TargetOf(q).seen, kept |-> {TargetOf(q).seen}]
      BY <1>2, <3>1, <3>2 DEF CopyInv, CopiesTypeOK, TargetOf, SyncConfirmed, Flushed, Certain
    <3>4. TargetOf(q).seen \in TargetOf(q).kept
      BY <3>1 DEF CopyInv, CopiesTypeOK, SeenIsPossible, Contents, TargetOf
    <3>5. UNCHANGED <<prepared, receipt, unsure, edited>>
      BY DEF SyncConfirmed
    <3> QED
      BY <2>2, <3>2, <3>3, <3>4, <3>5 DEF CallOK, SureOK, HasLock, At
  <2> QED BY <2>1, <2>2
<1> QED BY <1>4, <1>5, <1>6, <1>7, <1>8, <1>9, <1>10, <1>11 DEF CopyInv

LEMMA RereadKeeps == ASSUME CopyInv, NEW p \in Commands, Reread(p) PROVE CopyInv'
<1>1. HasLock(p)
  BY DEF Reread, HasLock, At
<1>2. /\ Of(p) \in Copies /\ PathOf[Of(p)] \in Paths
      /\ \A q \in Commands : HasLock(q) /\ q # p => Of(q) # Of(p)
  BY <1>1, AtWork DEF HasLock
<1>3. Proceed(p, "complete") \/ Return(p)
  BY DEF Reread, Unless
<1>4. call' \in [Commands -> Calls] /\ OneEach' /\ \A q \in Commands : q # p => call'[q] = call[q]
  BY <1>1, <1>3, Proceeds, Returns DEF CopySteps
<1>5. CopiesTypeOK'
  BY <1>2, <1>4, FilesStayFiles DEF CopyInv, CopiesTypeOK, Reread, Of
<1>6. SeenIsPossible' /\ Stays' /\ Explained' /\ Recoverable' /\ DeliveryIsFinal'
  BY FilesAlone DEF Reread
<1>7. CallOK(p)'
  <2>1. CASE Proceed(p, "complete")
    <3> call'[p].at = "complete" /\ call'[p].of = Of(p)
      BY <1>1, <2>1, Proceeds DEF CopySteps
    <3> QED
      BY <1>2, <2>1, CopiesAssumption
         DEF CopyInv, CopiesTypeOK, File, CallOK, SureOK, Starting, Publishing, SeenIsPossible,
            Contents, Stays, Reread, Unless, At, Of, TargetOf, Proceed, Return, NoCall
  <2>2. CASE Return(p)
    BY <2>2, Returns
  <2> QED BY <1>3, <2>1, <2>2
<1>8. ASSUME NEW q \in Commands, q # p PROVE CallOK(q)'
  BY <1>4, <1>8, OthersAlone DEF Reread, Of, TargetOf, Onward
<1> QED BY <1>4, <1>5, <1>6, <1>7, <1>8 DEF CopyInv

LEMMA CompleteKeeps == ASSUME CopyInv, NEW p \in Commands, Complete(p) PROVE CopyInv'
<1>1. HasLock(p)
  BY DEF Complete, HasLock, At
<1>2. /\ Of(p) \in Copies /\ PathOf[Of(p)] \in Paths
      /\ \A q \in Commands : HasLock(q) /\ q # p => Of(q) # Of(p)
  BY <1>1, AtWork DEF HasLock
<1>3. Proceed(p, "completed")
  BY DEF Complete
<1>4. call' \in [Commands -> Calls] /\ OneEach' /\ \A q \in Commands : q # p => call'[q] = call[q]
  BY <1>1, <1>3, Proceeds, Returns DEF CopySteps
<1>5. CopiesTypeOK'
  BY <1>2, <1>4, FilesStayFiles DEF CopyInv, CopiesTypeOK, Complete, Of
<1>6. SeenIsPossible'
  BY <1>2 DEF CopyInv, CopiesTypeOK, File, SeenIsPossible, Contents, Complete, Shown
<1>7. Stays'
  <2> SUFFICES ASSUME NEW i \in Copies PROVE Stays!(i)'
    BY DEF Stays
  <2>1. CASE i = Of(p)
    BY <1>2, <2>1, CopiesAssumption
       DEF CopyInv, CopiesTypeOK, File, Stays, CallOK, SureOK, Starting, Publishing, SeenIsPossible,
          Contents, Complete, Shown, At, Of, TargetOf
  <2>2. CASE i # Of(p)
    BY <1>2, <2>2, CopiesAssumption DEF CopyInv, CopiesTypeOK, File, Stays, SeenIsPossible,
       Contents, CallOK, SureOK, Publishing, Complete, Shown, At, Of, TargetOf
  <2> QED BY <2>1, <2>2
<1>8. Explained'
  <2> SUFFICES ASSUME NEW i \in Copies, i \notin unsure, i \in target[PathOf[i]].kept
               PROVE  Absent \notin receipt'[i].kept
    BY DEF Explained, HasIntent, Complete
  <2>1. Absent \notin receipt[i].kept /\ receipt[i].seen \in receipt[i].kept
    BY DEF CopyInv, CopiesTypeOK, Explained, HasIntent, SeenIsPossible, Contents
  <2>2. CASE i = Of(p)
    BY <1>2, <2>1, <2>2, CopiesAssumption
       DEF CopyInv, CopiesTypeOK, CallOK, Starting, Complete, At, Of, Shown
  <2>3. CASE i # Of(p)
    BY <1>2, <2>1, <2>3 DEF CopyInv, CopiesTypeOK, Complete
  <2> QED BY <2>2, <2>3
<1>9. Recoverable'
  <2> SUFFICES ASSUME NEW i \in Copies PROVE Recoverable!(i)'
    BY DEF Recoverable
  <2>1. CASE i = Of(p)
    BY <1>2, <2>1, CopiesAssumption
       DEF CopyInv, CopiesTypeOK, File, Recoverable, CallOK, SureOK, Starting, Publishing,
          SeenIsPossible, Contents, Stays, Complete, Shown, At, Of, TargetOf
  <2>2. CASE i # Of(p)
    BY <1>2, <2>2, CopiesAssumption DEF CopyInv, CopiesTypeOK, File, Recoverable,
       SeenIsPossible, Contents, CallOK, SureOK, Publishing, Complete, Shown, At, Of, TargetOf
  <2> QED BY <2>1, <2>2
<1>10. DeliveryIsFinal'
  <2> SUFFICES ASSUME NEW i \in Copies PROVE DeliveryIsFinal!(i)'
    BY DEF DeliveryIsFinal
  <2>1. CASE i = Of(p)
    BY <1>2, <2>1, CopiesAssumption
       DEF CopyInv, CopiesTypeOK, File, DeliveryIsFinal, CallOK, SureOK, Starting, Publishing,
          SeenIsPossible, Contents, Stays, Complete, Shown, At, Of, TargetOf
  <2>2. CASE i # Of(p)
    BY <1>2, <2>2, CopiesAssumption DEF CopyInv, CopiesTypeOK, File, DeliveryIsFinal,
       SeenIsPossible, Contents, CallOK, SureOK, Publishing, Complete, Shown, At, Of, TargetOf
  <2> QED BY <2>1, <2>2
<1>11. CallOK(p)'
  <2>1. CASE Proceed(p, "completed")
    <3> call'[p].at = "completed" /\ call'[p].of = Of(p)
      BY <1>1, <2>1, Proceeds DEF CopySteps
    <3> QED
      BY <1>2, <2>1, CopiesAssumption
         DEF CopyInv, CopiesTypeOK, File, CallOK, SureOK, Starting, Publishing, SeenIsPossible,
            Contents, Stays, Complete, Shown, At, Of, TargetOf
  <2> QED BY <1>3, <2>1
<1>12. \A o \in Copies : Onward(receipt[o], receipt'[o])
  BY <1>2 DEF CopyInv, CopiesTypeOK, CallOK, Starting, Publishing, Complete, Shown, At, Of, Onward
<1>13. ASSUME NEW q \in Commands, q # p PROVE CallOK(q)'
  <2>1. ASSUME HasLock(q)
        PROVE  prepared'[Of(q)] = prepared[Of(q)] /\ receipt'[Of(q)] = receipt[Of(q)]
    <3>1. Of(q) \in Copies /\ Of(q) # Of(p)
      BY <1>2, <1>13, <2>1, AtWork DEF HasLock
    <3> QED
      BY <1>2, <3>1 DEF CopyInv, CopiesTypeOK, Complete
  <2>2. ASSUME At(q, "opened") PROVE Onward(receipt[Of(q)], receipt'[Of(q)])
    BY <1>12, <1>13, <2>2, AtWork DEF At
  <2> QED
    BY <1>4, <1>13, <2>1, <2>2, OthersAlone DEF Complete, Of, TargetOf
<1> QED BY <1>4, <1>5, <1>6, <1>7, <1>8, <1>9, <1>10, <1>11, <1>13 DEF CopyInv

LEMMA SyncCompletionKeeps == ASSUME CopyInv, NEW p \in Commands, SyncCompletion(p) PROVE
   CopyInv'
<1>1. HasLock(p)
  BY DEF SyncCompletion, HasLock, At
<1>2. /\ Of(p) \in Copies /\ PathOf[Of(p)] \in Paths
      /\ \A q \in Commands : HasLock(q) /\ q # p => Of(q) # Of(p)
  BY <1>1, AtWork DEF HasLock
<1>3. Return(p)
  BY DEF SyncCompletion
<1>4. call' \in [Commands -> Calls] /\ OneEach' /\ \A q \in Commands : q # p => call'[q] = call[q]
  BY <1>1, <1>3, Proceeds, Returns DEF CopySteps
<1>5. CopiesTypeOK'
  BY <1>2, <1>4, FilesStayFiles DEF CopyInv, CopiesTypeOK, SyncCompletion, Of
<1>6. SeenIsPossible'
  BY <1>2 DEF CopyInv, CopiesTypeOK, File, SeenIsPossible, Contents, SyncCompletion, Flushed,
     Certain
<1>7. Stays'
  <2> SUFFICES ASSUME NEW i \in Copies PROVE Stays!(i)'
    BY DEF Stays
  <2>1. CASE i = Of(p)
    BY <1>2, <2>1, CopiesAssumption
       DEF CopyInv, CopiesTypeOK, File, Stays, CallOK, SureOK, Starting, Publishing, SeenIsPossible,
          Contents, SyncCompletion, Flushed, Certain, At, Of, TargetOf
  <2>2. CASE i # Of(p)
    BY <1>2, <2>2, CopiesAssumption DEF CopyInv, CopiesTypeOK, File, Stays, SeenIsPossible,
       Contents, CallOK, SureOK, Publishing, SyncCompletion, Flushed, Certain, At, Of, TargetOf
  <2> QED BY <2>1, <2>2
<1>8. Explained'
  <2> SUFFICES ASSUME NEW i \in Copies, i \notin unsure, i \in target[PathOf[i]].kept
               PROVE  Absent \notin receipt'[i].kept
    BY DEF Explained, HasIntent, SyncCompletion
  <2>1. Absent \notin receipt[i].kept /\ receipt[i].seen \in receipt[i].kept
    BY DEF CopyInv, CopiesTypeOK, Explained, HasIntent, SeenIsPossible, Contents
  <2>2. CASE i = Of(p)
    BY <1>2, <2>1, <2>2, CopiesAssumption
       DEF CopyInv, CopiesTypeOK, CallOK, Starting, SyncCompletion, At, Of, Flushed, Certain
  <2>3. CASE i # Of(p)
    BY <1>2, <2>1, <2>3 DEF CopyInv, CopiesTypeOK, SyncCompletion
  <2> QED BY <2>2, <2>3
<1>9. Recoverable'
  <2> SUFFICES ASSUME NEW i \in Copies PROVE Recoverable!(i)'
    BY DEF Recoverable
  <2>1. CASE i = Of(p)
    BY <1>2, <2>1, CopiesAssumption
       DEF CopyInv, CopiesTypeOK, File, Recoverable, CallOK, SureOK, Starting, Publishing,
          SeenIsPossible, Contents, Stays, SyncCompletion, Flushed, Certain, At, Of, TargetOf
  <2>2. CASE i # Of(p)
    BY <1>2, <2>2, CopiesAssumption DEF CopyInv, CopiesTypeOK, File, Recoverable,
       SeenIsPossible, Contents, CallOK, SureOK, Publishing, SyncCompletion, Flushed, Certain, At, Of,
       TargetOf
  <2> QED BY <2>1, <2>2
<1>10. DeliveryIsFinal'
  <2> SUFFICES ASSUME NEW i \in Copies PROVE DeliveryIsFinal!(i)'
    BY DEF DeliveryIsFinal
  <2>1. CASE i = Of(p)
    BY <1>2, <2>1, CopiesAssumption
       DEF CopyInv, CopiesTypeOK, File, DeliveryIsFinal, CallOK, SureOK, Starting, Publishing,
          SeenIsPossible, Contents, Stays, SyncCompletion, Flushed, Certain, At, Of, TargetOf
  <2>2. CASE i # Of(p)
    BY <1>2, <2>2, CopiesAssumption DEF CopyInv, CopiesTypeOK, File, DeliveryIsFinal,
       SeenIsPossible, Contents, CallOK, SureOK, Publishing, SyncCompletion, Flushed, Certain, At, Of,
       TargetOf
  <2> QED BY <2>1, <2>2
<1>11. CallOK(p)'
  BY <1>3, Returns
<1>12. \A o \in Copies : Onward(receipt[o], receipt'[o])
  BY <1>2 DEF CopyInv, CopiesTypeOK, CallOK, Starting, Publishing, SyncCompletion, At, Of, Onward
<1>13. ASSUME NEW q \in Commands, q # p PROVE CallOK(q)'
  <2>1. ASSUME HasLock(q)
        PROVE  prepared'[Of(q)] = prepared[Of(q)] /\ receipt'[Of(q)] = receipt[Of(q)]
    <3>1. Of(q) \in Copies /\ Of(q) # Of(p)
      BY <1>2, <1>13, <2>1, AtWork DEF HasLock
    <3> QED
      BY <1>2, <3>1 DEF CopyInv, CopiesTypeOK, SyncCompletion
  <2>2. ASSUME At(q, "opened") PROVE Onward(receipt[Of(q)], receipt'[Of(q)])
    BY <1>12, <1>13, <2>2, AtWork DEF At
  <2> QED
    BY <1>4, <1>13, <2>1, <2>2, OthersAlone DEF SyncCompletion, Of, TargetOf
<1> QED BY <1>4, <1>5, <1>6, <1>7, <1>8, <1>9, <1>10, <1>11, <1>13 DEF CopyInv

LEMMA FailCallKeeps == ASSUME CopyInv, NEW p \in Commands, FailCall(p) PROVE CopyInv'
<1>1. Return(p)
  BY DEF FailCall
<1>2. call' \in [Commands -> Calls] /\ OneEach' /\ \A q \in Commands : q # p => call'[q] = call[q]
  BY <1>1, Returns
<1>3. CopiesTypeOK'
  <2>1. lapses + 1 \in Nat
    BY DEF CopyInv, CopiesTypeOK
  <2> QED BY <1>2, <2>1 DEF CopyInv, CopiesTypeOK, FailCall
<1>4. SeenIsPossible' /\ Stays' /\ Explained' /\ Recoverable' /\ DeliveryIsFinal'
  BY FilesAlone DEF FailCall
<1>5. CallOK(p)'
  BY <1>1, Returns
<1>6. ASSUME NEW q \in Commands, q # p PROVE CallOK(q)'
  BY <1>2, <1>6, OthersAlone DEF FailCall, Of, TargetOf, Onward
<1> QED BY <1>2, <1>3, <1>4, <1>5, <1>6 DEF CopyInv

\* Begin leaves every receipt settled: it has their directory synced.
LEMMA BeginKeeps ==
  ASSUME CopyInv, NEW p \in Commands, NEW o \in Copies, NEW recovers \in BOOLEAN,
         Begin(p, o, recovers)
  PROVE  CopyInv'
<1>1. receipt' = [i \in Copies |-> [seen |-> receipt[i].seen, kept |-> {receipt[i].seen}]]
  BY DEF Begin, OpenedDirectory, Flushed, Certain
<1>2. \A i \in Copies : /\ receipt'[i].kept \subseteq receipt[i].kept
                        /\ receipt'[i].seen = receipt[i].seen
  BY <1>1 DEF CopyInv, CopiesTypeOK, File, SeenIsPossible, Contents
<1>3. CopiesTypeOK'
  <2>1. receipt' \in [Copies -> File({Absent, "pending", "done"})]
    BY <1>1 DEF CopyInv, CopiesTypeOK, File
  <2>2. receipt[o].seen \in {Absent, "pending", "done"}
    BY DEF CopyInv, CopiesTypeOK, File
  <2>3. call' \in [Commands -> Calls]
    BY <2>2 DEF CopyInv, CopiesTypeOK, Calls, CopySteps, Begin
  <2> QED BY <2>1, <2>3 DEF CopyInv, CopiesTypeOK, Begin
<1>4. SeenIsPossible' /\ Stays'
  BY <1>1 DEF CopyInv, SeenIsPossible, Contents, Stays, Begin
<1>5. OneEach'
  BY CopiesAssumption DEF CopyInv, CopiesTypeOK, Calls, OneEach, HasLock, At, Of, Begin
<1>6. Explained'
  BY <1>2 DEF CopyInv, Explained, HasIntent, Begin
<1>7. Recoverable'
  <2> SUFFICES ASSUME NEW i \in Copies, receipt'[i].kept # {Absent}
               PROVE  prepared'[i].kept = {"there"}
    BY DEF Recoverable
  <2>1. receipt[i].kept # {Absent}
    BY <1>1 DEF CopyInv, CopiesTypeOK, SeenIsPossible, Contents
  <2> QED BY <2>1 DEF CopyInv, Recoverable, Begin
<1>8. DeliveryIsFinal'
  <2> SUFFICES ASSUME NEW i \in Copies PROVE DeliveryIsFinal!(i)'
    BY DEF DeliveryIsFinal
  <2>1. receipt'[i].kept = {receipt[i].seen} /\ receipt[i].seen \in receipt[i].kept
    BY <1>1 DEF CopyInv, CopiesTypeOK, SeenIsPossible, Contents
  <2>2. UNCHANGED <<target, told, unsure, edited>>
    BY DEF Begin
  <2>3. DeliveryIsFinal!(i)
    BY DEF CopyInv, DeliveryIsFinal
  <2> QED BY <2>1, <2>2, <2>3
<1>9. ASSUME NEW q \in Commands PROVE CallOK(q)'
  <2>1. CASE q = p
    <3>1. call'[q].at = "opened" /\ call'[q].of = o /\ call'[q].found = receipt[o].seen
      BY <2>1 DEF CopyInv, CopiesTypeOK, Begin
    <3> QED BY <1>1, <3>1 DEF CallOK, OpenedOK, SureOK, Starting, Publishing, At, Of
  <2>2. CASE q # p /\ At(q, "idle")
    BY <2>2 DEF CopyInv, CopiesTypeOK, CallOK, SureOK, Starting, Publishing, At, Begin
  <2>3. CASE q # p /\ ~At(q, "idle")
    <3>1. Of(q) \in Copies
      BY <2>3, AtWork
    <3>2. call'[q] = call[q]
      BY <2>3 DEF CopyInv, CopiesTypeOK, Begin
    <3>3. receipt'[Of(q)] = [seen |-> receipt[Of(q)].seen, kept |-> {receipt[Of(q)].seen}]
      BY <1>1, <3>1
    <3>4. CallOK(q) /\ UNCHANGED <<prepared, target, unsure, edited>>
      BY DEF CopyInv, Begin
    <3> QED
      BY <3>2, <3>3, <3>4 DEF CallOK, OpenedOK, SureOK, At, Of, TargetOf, Starting, Publishing
  <2> QED BY <2>1, <2>2, <2>3
<1> QED BY <1>3, <1>4, <1>5, <1>6, <1>7, <1>8, <1>9 DEF CopyInv

\* Who gets the lock relies on a receipt that was there when the directory was synced,
\* unless it was overtaken.
LEMMA TryLockKeeps == ASSUME CopyInv, NEW p \in Commands, TryLock(p) PROVE CopyInv'
<1>1. At(p, "opened") /\ ~At(p, "idle") /\ ~HasLock(p)
  BY DEF TryLock, HasLock, At
<1>2. Of(p) \in Copies
  BY <1>1, AtWork
<1>3. unsure \subseteq unsure' /\ unsure' \subseteq Copies
  BY <1>2 DEF CopyInv, CopiesTypeOK, TryLock
<1>4. SeenIsPossible' /\ Stays' /\ Explained' /\ Recoverable' /\ DeliveryIsFinal'
  BY <1>3, FilesAlone DEF TryLock
<1>5. CASE Return(p)
  <2>1. call' \in [Commands -> Calls] /\ OneEach' /\ CallOK(p)'
        /\ \A q \in Commands : q # p => call'[q] = call[q]
    BY <1>5, Returns
  <2>2. CopiesTypeOK'
    BY <1>3, <2>1 DEF CopyInv, CopiesTypeOK, TryLock
  <2>3. ASSUME NEW q \in Commands, q # p PROVE CallOK(q)'
    BY <1>3, <2>1, <2>3, OthersAlone DEF TryLock, Of, TargetOf, Onward
  <2> QED BY <1>4, <2>1, <2>2, <2>3 DEF CopyInv
<1>6. CASE /\ \A q \in Commands : HasLock(q) => Of(q) # Of(p)
           /\ call' = [call EXCEPT ![p].at = "look", ![p].found = Absent]
           /\ unsure' = unsure \cup {o \in {Of(p)} : Overtaken(p)}
  <2>1. /\ call'[p].at = "look" /\ call'[p].of = Of(p)
        /\ \A q \in Commands : q # p => call'[q] = call[q]
    BY <1>6 DEF CopyInv, CopiesTypeOK, Calls, Of
  <2>2. CopiesTypeOK'
    <3>1. call[p] \in Calls /\ call \in [Commands -> Calls]
      BY DEF CopyInv, CopiesTypeOK
    <3> DEFINE looking == [call[p] EXCEPT !.at = "look", !.found = Absent]
    <3>2. looking \in Calls
      BY <3>1 DEF Calls, CopySteps
    <3>3. call' = [call EXCEPT ![p] = looking]
      BY <1>6, <3>1 DEF Calls
    <3> HIDE DEF looking
    <3>4. call' \in [Commands -> Calls]
      BY <3>1, <3>2, <3>3
    <3>5. UNCHANGED <<prepared, receipt, target, told, edited, lapses, losses, edits>>
      BY DEF TryLock
    <3> QED BY <1>3, <3>4, <3>5 DEF CopyInv, CopiesTypeOK
  <2>3. OneEach'
    <3>1. \A q \in Commands : HasLock(q) => Of(q) # Of(p)
      BY <1>6
    <3>2. Absent \notin Copies /\ OneEach
      BY CopiesAssumption DEF CopyInv
    <3> QED BY <1>2, <2>1, <3>1, <3>2 DEF OneEach, HasLock, At, Of
  <2>4. CallOK(p)'
    <3>1. OpenedOK(p)
      BY <1>1 DEF CopyInv, CallOK
    <3>2. Of(p) \notin unsure' => receipt[Of(p)].kept = {receipt[Of(p)].seen}
      BY <1>6, <3>1 DEF Overtaken, OpenedOK
    <3>3. Of(p)' = Of(p) /\ receipt' = receipt
      BY <2>1 DEF Of, TryLock
    <3> QED BY <2>1, <3>2, <3>3 DEF CallOK, SureOK, At, Starting, Publishing
  <2>5. ASSUME NEW q \in Commands, q # p PROVE CallOK(q)'
    BY <1>3, <2>1, <2>5, OthersAlone DEF TryLock, Of, TargetOf, Onward
  <2> QED BY <1>4, <2>2, <2>3, <2>4, <2>5 DEF CopyInv
<1> QED BY <1>5, <1>6 DEF TryLock

-----------------------------------------------------------------------------
(* The steps of others                                                     *)

LEMMA CollectKeeps == ASSUME CopyInv, NEW o \in Copies, Collect(o) PROVE CopyInv'
<1>1. receipt[o].kept = {Absent}
  BY DEF CopyInv, Stays, Collect, Collectable
<1>2. CopiesTypeOK' /\ SeenIsPossible'
  BY DEF CopyInv, CopiesTypeOK, File, SeenIsPossible, Contents, Collect, Shown, Certain
<1>3. OneEach' /\ Stays' /\ Explained' /\ DeliveryIsFinal'
  BY DEF CopyInv, OneEach, HasLock, Stays, Explained, HasIntent, DeliveryIsFinal, At, Of, Collect
<1>4. Recoverable'
  BY <1>1 DEF CopyInv, CopiesTypeOK, Recoverable, Collect
<1>5. \A p \in Commands : CallOK(p)'
  BY DEF CallOK, SureOK, Starting, Publishing, At, Collect
<1> QED BY <1>2, <1>3, <1>4, <1>5 DEF CopyInv

LEMMA EditKeeps == ASSUME CopyInv, NEW t \in Paths, EditTarget(t) PROVE CopyInv'
<1>1. PICK c \in {Absent, Theirs} : target' = [target EXCEPT ![t] = Shown(@, c)]
  BY DEF EditTarget
<1>2. \A u \in Paths : u # t => target'[u] = target[u]
  BY <1>1 DEF CopyInv, CopiesTypeOK
<1>3. target'[t].kept = target[t].kept \cup {c}
  BY <1>1 DEF CopyInv, CopiesTypeOK, Shown
<1>4. CopiesTypeOK'
  <2>1. edits + 1 \in Nat
    BY DEF CopyInv, CopiesTypeOK
  <2>2. target' \in [Paths -> File({Absent, Theirs} \cup Copies)]
    BY <1>1, FilesStayFiles DEF CopyInv, CopiesTypeOK
  <2> QED BY <2>1, <2>2 DEF CopyInv, CopiesTypeOK, EditTarget
<1>5. SeenIsPossible'
  BY <1>1 DEF CopyInv, CopiesTypeOK, SeenIsPossible, Contents, Shown, EditTarget
<1>6. OneEach' /\ Stays' /\ Recoverable'
  BY DEF CopyInv, OneEach, HasLock, Stays, Recoverable, At, Of, EditTarget
<1>7. Explained'
  BY <1>2, <1>3, CopiesAssumption DEF CopyInv, Explained, HasIntent, EditTarget
<1>8. DeliveryIsFinal'
  BY <1>2, CopiesAssumption DEF CopyInv, DeliveryIsFinal, EditTarget
<1>9. ASSUME NEW p \in Commands PROVE CallOK(p)'
  <2>1. CASE At(p, "idle")
    BY <2>1 DEF CallOK, SureOK, Starting, Publishing, At, EditTarget
  <2>2. CASE ~At(p, "idle")
    <3>1. PathOf[Of(p)] \in Paths
      BY <2>2, AtWork
    <3>2. CallOK(p) /\ UNCHANGED <<prepared, receipt, call, unsure>>
      BY DEF CopyInv, EditTarget
    <3>3. edited \subseteq edited' /\ (PathOf[Of(p)] \notin edited' => TargetOf(p)' = TargetOf(p))
      BY <1>2, <3>1, <3>2 DEF TargetOf, Of, EditTarget
    <3> QED
      BY <3>2, <3>3 DEF CallOK, OpenedOK, SureOK, At, Of
  <2> QED BY <2>1, <2>2
<1> QED BY <1>4, <1>5, <1>6, <1>7, <1>8, <1>9 DEF CopyInv

LEMMA LosePowerKeeps == ASSUME CopyInv, LosePower PROVE CopyInv'
<1>1. \A o \in Copies : \E c \in prepared[o].kept : prepared'[o] = [seen |-> c, kept |-> {c}]
  BY DEF CopyInv, CopiesTypeOK, LosePower, After, Certain
<1>2. \A o \in Copies : \E c \in receipt[o].kept : receipt'[o] = [seen |-> c, kept |-> {c}]
  BY DEF CopyInv, CopiesTypeOK, LosePower, After, Certain
<1>3. \A t \in Paths : \E c \in target[t].kept : target'[t] = [seen |-> c, kept |-> {c}]
  BY DEF CopyInv, CopiesTypeOK, LosePower, After, Certain
<1>4. CopiesTypeOK'
  <2>1. prepared' \in [Copies -> File({Absent, "there"})]
    BY DEF LosePower, Certain, File
  <2>2. receipt' \in [Copies -> File({Absent, "pending", "done"})]
    BY DEF LosePower, Certain, File
  <2>3. target' \in [Paths -> File({Absent, Theirs} \cup Copies)]
    BY DEF LosePower, Certain, File
  <2>4. call' \in [Commands -> Calls]
    BY DEF LosePower, NoCall, Calls, CopySteps
  <2>5. losses + 1 \in Nat
    BY DEF CopyInv, CopiesTypeOK
  <2> QED BY <2>1, <2>2, <2>3, <2>4, <2>5 DEF CopyInv, CopiesTypeOK, LosePower
<1>5. SeenIsPossible'
  BY <1>1, <1>2, <1>3, <1>4 DEF CopiesTypeOK, SeenIsPossible, Contents
<1>6. OneEach' /\ \A p \in Commands : CallOK(p)'
  BY DEF LosePower, NoCall, OneEach, HasLock, At, Of, CallOK, SureOK, Starting, Publishing
<1>7. Stays'
  <2> SUFFICES ASSUME NEW o \in Copies PROVE Stays!(o)'
    BY DEF Stays
  <2>1. PICK c \in receipt[o].kept : receipt'[o] = [seen |-> c, kept |-> {c}]
    BY <1>2
  <2> QED BY <2>1
<1>8. Explained'
  <2> SUFFICES ASSUME NEW o \in Copies \ unsure, o \in target'[PathOf[o]].kept
               PROVE  Absent \notin receipt'[o].kept
    BY DEF Explained, HasIntent, LosePower
  <2>1. PathOf[o] \in Paths
    BY CopiesAssumption
  <2>2. PICK c \in target[PathOf[o]].kept : target'[PathOf[o]] = [seen |-> c, kept |-> {c}]
    BY <1>3, <2>1
  <2>3. PICK d \in receipt[o].kept : receipt'[o] = [seen |-> d, kept |-> {d}]
    BY <1>2
  <2> QED BY <2>2, <2>3 DEF CopyInv, Explained, HasIntent
<1>9. Recoverable'
  <2> SUFFICES ASSUME NEW o \in Copies, receipt'[o].kept # {Absent} PROVE prepared'[o].kept =
     {"there"}
    BY DEF Recoverable
  <2>1. PICK c \in prepared[o].kept : prepared'[o] = [seen |-> c, kept |-> {c}]
    BY <1>1
  <2>2. PICK d \in receipt[o].kept : receipt'[o] = [seen |-> d, kept |-> {d}]
    BY <1>2
  <2> QED BY <2>1, <2>2 DEF CopyInv, Recoverable
<1>10. DeliveryIsFinal'
  BY <1>2, <1>3, CopiesAssumption, SMTT(60) DEF CopyInv, DeliveryIsFinal, LosePower
<1> QED BY <1>4, <1>5, <1>6, <1>7, <1>8, <1>9, <1>10 DEF CopyInv

-----------------------------------------------------------------------------
(* The theorems                                                            *)

LEMMA CopyInvariance == CopyInv /\ [CopyNext]_copyVars => CopyInv'
<1> SUFFICES ASSUME CopyInv, [CopyNext]_copyVars PROVE CopyInv'
  OBVIOUS
<1>1. CASE \E p \in Commands : CallStep(p)
  BY <1>1, BeginKeeps, TryLockKeeps, LookKeeps, StoreKeeps, SyncStoredKeeps, IntendKeeps, SyncIntentKeeps,
     CheckKeeps, DeliverKeeps, SyncDeliveryKeeps, ConfirmTargetKeeps, SyncConfirmedKeeps,
     RereadKeeps, CompleteKeeps, SyncCompletionKeeps, FailCallKeeps DEF CallStep
<1>2. CASE \E o \in Copies : Collect(o)
  BY <1>2, CollectKeeps
<1>3. CASE \E t \in Paths : EditTarget(t)
  BY <1>3, EditKeeps
<1>4. CASE LosePower
  BY <1>4, LosePowerKeeps
<1>5. CASE UNCHANGED copyVars
  <2>1. CopiesTypeOK' /\ OneEach'
    BY <1>5 DEF CopyInv, CopiesTypeOK, OneEach, HasLock, At, Of, copyVars
  <2>2. SeenIsPossible' /\ Stays' /\ Explained' /\ Recoverable' /\ DeliveryIsFinal'
    BY <1>5, FilesAlone DEF copyVars
  <2>3. ASSUME NEW q \in Commands PROVE CallOK(q)'
    BY <1>5, OthersAlone DEF copyVars, Of, TargetOf, Onward
  <2> QED BY <2>1, <2>2, <2>3 DEF CopyInv
<1> QED BY <1>1, <1>2, <1>3, <1>4, <1>5 DEF CopyNext

LEMMA CopyInitially == CopiesInit => CopyInv
BY CopiesAssumption
   DEF CopiesInit, CopyInv, CopiesTypeOK, File, Calls, CopySteps, SeenIsPossible, Contents,
      OneEach, HasLock, Stays, CallOK, SureOK, Starting, Publishing, Explained, HasIntent,
      Recoverable, DeliveryIsFinal, NoCall, Certain, At, Of

LEMMA CopyHolds == CopySpec => []CopyInv
BY CopyInitially, CopyInvariance, PTL DEF CopySpec

\* Types, for any copies, paths and calls.
THEOREM CopyTypes == CopySpec => []CopiesTypeOK
<1>1. CopyInv => CopiesTypeOK
  BY DEF CopyInv
<1> QED BY <1>1, CopyHolds, PTL

\* A copy that any power loss may leave has its receipt, but for one whose call was
\* overtaken (lock_operation), and every receipt has the bytes to publish its copy again
\* (recover_operation).
THEOREM CopiesRecover == CopySpec => []CopiesAreRecoverable
<1>1. CopyInv => CopiesAreRecoverable
  BY DEF CopyInv, CopiesAreRecoverable
<1> QED BY <1>1, CopyHolds, PTL

\* A completed receipt means a copy that no power loss takes back (confirm_publication
\* before replace), and what a caller was told stays recorded, but for a copy whose call
\* was overtaken.
THEOREM Delivered == CopySpec => []DeliveryIsFinal
<1>1. CopyInv => DeliveryIsFinal
  BY DEF CopyInv
<1> QED BY <1>1, CopyHolds, PTL

\* What is in a copy's place is never overwritten (publish_new).
THEOREM NothingOverwritten == CopySpec => NeverOverwritten
<1> DEFINE Kept == \A t \in Paths : target'[t].seen # target[t].seen =>
                     target[t].seen = Absent \/ edits' # edits \/ losses' # losses
<1>1. CopyInv /\ [CopyNext]_copyVars => [Kept]_copyVars
  <2> SUFFICES ASSUME CopyInv, CopyNext PROVE Kept
    BY DEF Kept
  <2>1. CASE \E p \in Commands : CallStep(p)
    <3>1. PICK p \in Commands : CallStep(p)
      BY <2>1
    <3>2. CASE Deliver(p)
      <4>1. PathOf[Of(p)] \in Paths
        BY <3>2, AtWork DEF Deliver, At
      <4> QED BY <3>2, <4>1 DEF CopyInv, CopiesTypeOK, Deliver, TargetOf, Shown
    <3>3. CASE SyncDelivery(p) \/ SyncConfirmed(p)
      BY <3>3 DEF CopyInv, CopiesTypeOK, SyncDelivery, SyncConfirmed, Flushed, Certain
    <3>4. CASE target' = target
      BY <3>4
    <3> QED
      BY <3>1, <3>2, <3>3, <3>4 DEF CallStep, Begin, TryLock, Look, Store, SyncStored, Intend,
         SyncIntent, Check, ConfirmTarget, Reread, Complete, SyncCompletion, FailCall
  <2>2. CASE \E o \in Copies : Collect(o)
    BY <2>2 DEF Collect
  <2>3. CASE \E t \in Paths : EditTarget(t)
    BY <2>3 DEF CopyInv, CopiesTypeOK, EditTarget
  <2>4. CASE LosePower
    BY <2>4 DEF CopyInv, CopiesTypeOK, LosePower
  <2> QED BY <2>1, <2>2, <2>3, <2>4 DEF CopyNext
<1>2. CopySpec => [][Kept]_copyVars
  BY <1>1, CopyHolds, PTL DEF CopySpec
<1> QED BY <1>2 DEF NeverOverwritten, Kept
=============================================================================
