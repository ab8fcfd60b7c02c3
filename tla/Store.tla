------------------------------- MODULE Store --------------------------------
(***************************************************************************)
(* The database of observations (session_data/store.rs) that the recorder  *)
(* of every proxy, imports and reports of the command line share: opening  *)
(* it by several processes at once, whole batches appended or refused,     *)
(* imports of files that grow, pages, totals over requests, and archives.  *)
(*                                                                         *)
(* SQLite's promises are taken as such: a transaction is atomic, an        *)
(* immediate one excludes other writers, a committed one survives a loss   *)
(* of power, and a reader sees one state.  An event is what its identity   *)
(* comes from (natural), its source, kind, attempt, owner (the rest of its *)
(* identity) and tool.  An opaque identity is a natural one under the      *)
(* namespace of the database.  Byte limits, permissions, digests of rows   *)
(* and the words of reports are left out; an event of the wrong form is    *)
(* rejected before anything happens.                                       *)
(***************************************************************************)
EXTENDS Naturals, Sequences, FiniteSets

CONSTANTS
  Client,        \* processes that open the database
  Live,          \* batches of natural events that recorders append, and append again
  Log,           \* the lines of a legacy log, as far as it may grow
  Transcript,    \* the lines of a transcript, as far as it may grow
  Shown,         \* the sources a report asks for
  PageLimit,     \* PageOptions.limit
  OpenAttempts,  \* how often an open is tried when the database is locked
  NoSpace,       \* no namespace
  MaxBusy, MaxLoss, MaxBatch, MaxReport  \* bounds: lock conflicts, losses, batches, reports

ASSUME StoreAssumption ==
  /\ {PageLimit, OpenAttempts} \subseteq Nat \ {0} /\ {MaxBusy, MaxLoss, MaxBatch, MaxReport} \subseteq Nat
  /\ {Len(Log), Len(Transcript)} \subseteq Nat
  /\ \A i \in 1..Len(Transcript) : IsFiniteSet(Transcript[i].tools)

\* Envelope::validate: a request names its attempt.  A recorder is no legacy log.
ASSUME LiveAssumption ==
  \A b \in Live :
    /\ Len(b) \in Nat /\ DOMAIN b = 1..Len(b)
    /\ \A i \in DOMAIN b :
         /\ DOMAIN b[i] = {"id", "source", "kind", "attempt", "owner", "tool", "time"}
         /\ b[i].source # "log"
         /\ b[i].kind \in {"started", "finished"} => b[i].attempt # ""

VARIABLES
  db,        \* the file: schema version, namespace, rows in the order of their sequence, revision
  client,    \* what each process does
  grown,     \* how many lines the two imported files have
  told,      \* natural events whose batch was acknowledged
  counted,   \* lines of the log that an acknowledged import had read
  archive,   \* the directory of an archive
  trouble    \* lock conflicts, losses, namespaces made, batches, reports

storeVars == <<db, client, grown, told, counted, archive, trouble>>

Idle == [step |-> "idle", tries |-> 0, space |-> NoSpace, batch |-> <<>>, lines |-> 0,
         after |-> 0, through |-> 0, got |-> <<>>]
NoArchive == [step |-> "none", bare |-> FALSE, through |-> 0, segments |-> {}, manifest |-> FALSE,
              marker |-> 0, synced |-> 0]

StoreTypeOK ==
  /\ db.version \in 0..2 /\ db.exists \in BOOLEAN /\ db.revision \in Nat
  /\ \A c \in Client : client[c].step \in
       {"idle", "create", "look", "initialise", "migrate", "identify", "open", "append", "paging", "paged"}
  /\ archive.step \in {"none", "writing", "checked", "marked", "reported", "left"}
  /\ {archive.marker, archive.synced} \subseteq 0..2 /\ archive.bare \in BOOLEAN
  /\ counted \in 0..Len(Log)

StoreInit ==
  /\ db = [exists |-> FALSE, version |-> 0, space |-> NoSpace, rows |-> <<>>, revision |-> 0]
  /\ client = [c \in Client |-> Idle]
  /\ grown = [log |-> 0, transcript |-> 0]
  /\ told = {} /\ counted = 0 /\ archive = NoArchive
  /\ trouble = [busy |-> 0, losses |-> 0, spaces |-> 0, batches |-> 0, reports |-> 0]

----------------------------------------------------------------------------
(* Opening. *)

Placed(c, step) == client[c].step = step
Go(c, step) == client' = [client EXCEPT ![c].step = step]
Closes(c) == client' = [client EXCEPT ![c] = Idle]

Open(c) ==
  /\ Placed(c, "idle") /\ trouble.batches < MaxBatch /\ Go(c, "create")
  /\ UNCHANGED <<db, grown, told, counted, archive, trouble>>

\* A report opens what is there and changes nothing.
OpenForRead(c) ==
  /\ Placed(c, "idle") /\ trouble.reports < MaxReport /\ db.exists /\ db.version # 0
  /\ client' = [client EXCEPT ![c].step = "paging", ![c].space = db.space]
  /\ trouble' = [trouble EXCEPT !.reports = @ + 1]
  /\ UNCHANGED <<db, grown, told, counted, archive>>

Create(c) ==
  /\ Placed(c, "create") /\ db' = [db EXCEPT !.exists = TRUE] /\ Go(c, "look")
  /\ UNCHANGED <<grown, told, counted, archive, trouble>>

Look(c) ==
  /\ Placed(c, "look") /\ Go(c, IF db.version < 2 THEN "initialise" ELSE "identify")
  /\ UNCHANGED <<db, grown, told, counted, archive, trouble>>

\* Mutant: the recheck is left out.
InitialisedAnew(d, fresh) == [d EXCEPT !.version = 1, !.space = fresh]

\* Another opener may have been here since the look.
Initialised(d, fresh) ==
  IF d.version = 0 THEN [d EXCEPT !.version = 1, !.space = fresh] ELSE d

Initialise(c) ==
  /\ Placed(c, "initialise")
  /\ db' = Initialised(db, trouble.spaces + 1)
  /\ trouble' = [trouble EXCEPT !.spaces = IF db' = db THEN @ ELSE @ + 1]
  /\ Go(c, "migrate")
  /\ UNCHANGED <<grown, told, counted, archive>>

Migrate(c) ==
  /\ Placed(c, "migrate") /\ db' = [db EXCEPT !.version = 2] /\ Go(c, "identify")
  /\ UNCHANGED <<grown, told, counted, archive, trouble>>

Identify(c) ==
  /\ Placed(c, "identify")
  /\ client' = [client EXCEPT ![c].step = "open", ![c].space = db.space]
  /\ UNCHANGED <<db, grown, told, counted, archive, trouble>>

\* SQLite reports a lock; the whole attempt is repeated on a new connection.
Again(p) == [p EXCEPT !.step = "look", !.tries = @ + 1]
FoundLocked(c) ==
  /\ client[c].step \in {"look", "initialise", "migrate", "identify"} /\ trouble.busy < MaxBusy
  /\ client' = [client EXCEPT ![c] = IF @.tries + 1 < OpenAttempts THEN Again(@) ELSE Idle]
  /\ trouble' = [trouble EXCEPT !.busy = @ + 1]
  /\ UNCHANGED <<db, grown, told, counted, archive>>

----------------------------------------------------------------------------
(* What is appended. *)

Under(space, e) == [e EXCEPT !.id = <<space, @>>]

Times(line, n) == Cardinality({i \in 1..n : Log[i] = line})

\* import_legacy: equal lines are told apart by their rank among themselves.
Ranked(line, rank) ==
  [id |-> <<line, rank>>, source |-> "log", kind |-> "legacy", attempt |-> "", owner |-> "",
   tool |-> "", time |-> 0]
Legacy(n) == [i \in 1..n |-> Ranked(Log[i], Times(Log[i], i))]

\* import_native: an answer, and each stage of a tool, is one observation however
\* many lines show it.
Seen(line) == {[id |-> <<"answer", line.answer>>, source |-> "transcript", kind |-> "finished",
                attempt |-> line.answer, owner |-> "session", tool |-> "", time |-> line.time] :
                 r \in {line.answer} \ {""}}
         \cup {[id |-> <<"tool", t>>, source |-> "transcript", kind |-> "tool", attempt |-> "",
                owner |-> "session", tool |-> t, time |-> line.time] : t \in line.tools}
Native(n) == UNION {Seen(Transcript[i]) : i \in 1..n}
Unchanged(events) == \A e, f \in events : e.id = f.id => e = f

\* They are appended in the order of their identities, which is any.
InOrder(events) ==
  LET n == Cardinality(events)
  IN CHOOSE b \in [1..n -> events] : {b[i] : i \in 1..n} = events

Read(c) ==
  /\ Placed(c, "open") /\ trouble.batches < MaxBatch
  /\ trouble' = [trouble EXCEPT !.batches = @ + 1]
  /\ \E b \in Live \cup {Legacy(grown.log)}
            \cup {InOrder(s) : s \in {t \in {Native(grown.transcript)} : Unchanged(t)}} :
       client' = [client EXCEPT ![c].step = "append",
                                ![c].batch = [i \in DOMAIN b |-> Under(client[c].space, b[i])],
                                ![c].lines = IF b = Legacy(grown.log) THEN grown.log ELSE 0]
  /\ UNCHANGED <<db, grown, told, counted, archive>>

----------------------------------------------------------------------------
(* Appending: one immediate transaction, and the whole batch or nothing. *)

Rows(d) == {d[i] : i \in DOMAIN d}

\* Requests start and finish once, and a tool reaches a stage once.
Key(e) == IF e.kind = "legacy" THEN <<>>
          ELSE IF e.kind = "tool" THEN <<e.source, e.owner, e.tool>>
          ELSE <<e.source, e.attempt, e.kind>>

Duplicate(rows, e) == e \in Rows(rows)
SameAttempt(e, f) == e.attempt # "" /\ e.source = f.source /\ e.attempt = f.attempt
Conflict(rows, e) ==
  \/ \E f \in Rows(rows) : f.id = e.id /\ f # e
  \/ Key(e) # <<>> /\ \E f \in Rows(rows) : Key(f) = Key(e)
  \/ \E f \in Rows(rows) : SameAttempt(e, f) /\ e.owner # f.owner

\* The rows with a batch added, event by event, unless one stopped it.
Taken(so, e) ==
  IF so.refused \/ Duplicate(so.rows, e) THEN so
  ELSE IF Conflict(so.rows, e) THEN [so EXCEPT !.refused = TRUE]
  ELSE [so EXCEPT !.rows = Append(@, e)]
Added(rows, batch) ==
  LET upto[n \in 0..Len(batch)] ==
        IF n = 0 THEN [rows |-> rows, refused |-> FALSE] ELSE Taken(upto[n - 1], batch[n])
  IN upto[Len(batch)]

Committed(added) ==
  [db EXCEPT !.rows = added.rows, !.revision = IF added.rows = db.rows THEN @ ELSE @ + 1]

AppendBatch(c) ==
  /\ Placed(c, "append")
  /\ LET added == Added(db.rows, client[c].batch) IN
     \/ /\ added.refused /\ Closes(c) /\ UNCHANGED <<db, told, counted, trouble>>
     \/ /\ ~added.refused
        /\ db' = Committed(added) /\ Go(c, "open")
        /\ told' = told \cup {e.id[2] : e \in Rows(client[c].batch)}
        /\ counted' = IF counted < client[c].lines THEN client[c].lines ELSE counted
        /\ UNCHANGED trouble
     \* The commit is not acknowledged: it may or may not have happened.
     \/ /\ ~added.refused /\ trouble.losses < MaxLoss
        /\ db' \in {db, Committed(added)} /\ Closes(c)
        /\ trouble' = [trouble EXCEPT !.losses = @ + 1]
        /\ UNCHANGED <<told, counted>>
  /\ UNCHANGED <<grown, archive>>

Close(c) ==
  /\ client[c].step \in {"open", "paging", "paged"} /\ Closes(c)
  /\ UNCHANGED <<db, grown, told, counted, archive, trouble>>

Grow ==
  /\ \/ grown.log < Len(Log) /\ grown' = [grown EXCEPT !.log = @ + 1]
     \/ grown.transcript < Len(Transcript) /\ grown' = [grown EXCEPT !.transcript = @ + 1]
  /\ UNCHANGED <<db, client, told, counted, archive, trouble>>

----------------------------------------------------------------------------
(* Reading: pages of one snapshot, each in a transaction of its own. *)

\* The numbers of the rows shown, after one and up to another.
Matching(rows, from, to) ==
  LET upto[n \in from..to] ==
        IF n = from THEN <<>>
        ELSE IF rows[n].source \in Shown THEN Append(upto[n - 1], n) ELSE upto[n - 1]
  IN upto[to]
FirstOf(s, n) == SubSeq(s, 1, IF Len(s) < n THEN Len(s) ELSE n)

\* Mutant: pages counted in rows shown, not in sequence numbers.
PageByOffset(after, through) ==
  LET found == Matching(db.rows, after, through)
      complete == Len(found) <= PageLimit
  IN [rows |-> FirstOf(found, PageLimit), complete |-> complete,
      next |-> IF complete THEN after ELSE after + PageLimit]

\* event_page: one row more than asked for shows that there are more.
PageAfter(after, through) ==
  LET found == Matching(db.rows, after, through)
      page == FirstOf(found, PageLimit)
      complete == Len(found) <= PageLimit
  IN [rows |-> page, complete |-> complete,
      next |-> IF complete THEN after ELSE page[Len(page)]]

FirstPage(c) == client[c].got = <<>> /\ client[c].after = 0
Page(c) ==
  /\ Placed(c, "paging")
  /\ LET through == IF FirstPage(c) THEN Len(db.rows) ELSE client[c].through
         page == PageAfter(client[c].after, through)
     IN client' = [client EXCEPT ![c].through = through, ![c].after = page.next,
                                 ![c].got = @ \o page.rows,
                                 ![c].step = IF page.complete THEN "paged" ELSE "paging"]
  /\ UNCHANGED <<db, grown, told, counted, archive, trouble>>

----------------------------------------------------------------------------
(* Totals: one request per source and attempt, whatever its events' order. *)

IsRequest(e) == e.kind \in {"started", "finished"}
Attempts(rows) == {<<e.source, e.attempt>> : e \in {f \in Rows(rows) : IsRequest(f)}}
Of(rows, key) ==
  {i \in DOMAIN rows : IsRequest(rows[i]) /\ <<rows[i].source, rows[i].attempt>> = key}

\* requests(): in the order of the rows.
Listed(rows, key) ==
  LET events == Of(rows, key)
      first == CHOOSE i \in events : \A j \in events : i <= j
  IN [tool |-> rows[first].tool, incomplete |-> \A i \in events : rows[i].kind # "finished"]

\* metrics(): through the index, all finished rows before all started ones.
NothingYet == [first |-> 0, tool |-> "", owner |-> "", kinds |-> {}, refused |-> FALSE]
Observed(row, i, seen) ==
  IF seen.first = 0
    THEN [first |-> i, tool |-> row.tool, owner |-> row.owner, kinds |-> {row.kind}, refused |-> FALSE]
    ELSE [first |-> IF i < seen.first THEN i ELSE seen.first,
          tool |-> IF i < seen.first THEN row.tool ELSE seen.tool,
          owner |-> seen.owner, kinds |-> seen.kinds \cup {row.kind},
          refused |-> seen.refused \/ row.owner # seen.owner \/ row.kind \in seen.kinds]
Through(rows, key, kind, seen) ==
  LET upto[n \in 0..Len(rows)] ==
        IF n = 0 THEN seen
        ELSE IF n \in Of(rows, key) /\ rows[n].kind = kind THEN Observed(rows[n], n, upto[n - 1])
        ELSE upto[n - 1]
  IN upto[Len(rows)]
Streamed(rows, key) ==
  Through(rows, key, "started", Through(rows, key, "finished", NothingYet))

----------------------------------------------------------------------------
(* An archive: segments of one snapshot, their list, a mark, two syncs.  A *)
(* destination is bare if it is one relative component: it has no parent   *)
(* by Path::parent, although the current directory is looked at first.     *)

Archived == Len(Matching(db.rows, 0, archive.through))

ArchiveBegins(c) ==
  /\ Placed(c, "paging") /\ FirstPage(c) /\ archive.step = "none"
  /\ \E bare \in BOOLEAN :
       archive' = [NoArchive EXCEPT !.step = "writing", !.bare = bare, !.through = Len(db.rows)]
  /\ UNCHANGED <<db, client, grown, told, counted, trouble>>

Segment ==
  /\ archive.step = "writing" /\ Cardinality(archive.segments) < Archived
  /\ archive' = [archive EXCEPT !.segments = @ \cup {Cardinality(@) + 1}]

PartsPass == archive.manifest /\ archive.segments = 1..Archived

ManifestSynced ==
  /\ archive.step = "writing" /\ Cardinality(archive.segments) = Archived
  /\ archive' = [archive EXCEPT !.manifest = TRUE, !.step = "checked"]

\* Created, then synced: until then it may be found empty.
Mark ==
  /\ archive.step = "checked" /\ PartsPass
  /\ archive' = IF archive.marker = 0 THEN [archive EXCEPT !.marker = 1]
                                      ELSE [archive EXCEPT !.marker = 2, !.step = "marked"]

\* The directory's names, then its own name in its parent, which a bare destination
\* does not have: nothing syncs the current directory.
Syncs(a) == IF a.bare THEN 1 ELSE 2
NamesSynced ==
  /\ archive.step = "marked" /\ archive.synced < Syncs(archive)
  /\ archive' = [archive EXCEPT !.synced = @ + 1]
Reported ==
  /\ archive.step = "marked" /\ archive.synced = Syncs(archive)
  /\ archive' = [archive EXCEPT !.step = "reported"]

\* The deadline, an error, or the end of the process.
Leave ==
  archive.step \in {"writing", "checked", "marked"} /\ archive' = [archive EXCEPT !.step = "left"]

ArchiveStep ==
  /\ Segment \/ ManifestSynced \/ Mark \/ NamesSynced \/ Reported \/ Leave
  /\ UNCHANGED <<db, client, grown, told, counted, trouble>>

\* check_archive.
ArchivePasses == archive.marker = 2 /\ PartsPass

\* What a loss of power may leave of the archive: names that no sync has reached
\* may be gone, and what a mark not yet synced holds is anyone's guess.
Found(a) ==
  (SUBSET a.segments) \X {FALSE, a.manifest} \X (IF a.marker = 0 THEN {0} ELSE {0, 1, 2})
With(a, found) == [a EXCEPT !.segments = found[1], !.manifest = found[2], !.marker = found[3]]
Left(a) ==
  CASE a.synced = 0 -> {With(a, found) : found \in Found(a)}
    [] a.synced = 1 -> {a, With(a, <<{}, FALSE, 0>>)}
    [] a.synced = 2 -> {a}

PowerLoss ==
  /\ trouble.losses < MaxLoss
  /\ trouble' = [trouble EXCEPT !.losses = @ + 1]
  /\ client' = [c \in Client |-> Idle]
  /\ \E left \in Left(archive) :
       archive' = [left EXCEPT !.step = IF @ \in {"none", "reported"} THEN @ ELSE "left"]
  /\ UNCHANGED <<db, grown, told, counted>>

StoreNext ==
  \/ \E c \in Client :
       \/ Open(c) \/ OpenForRead(c) \/ Create(c) \/ Look(c) \/ Initialise(c) \/ Migrate(c)
       \/ Identify(c) \/ FoundLocked(c) \/ Read(c) \/ AppendBatch(c) \/ Page(c) \/ Close(c)
       \/ ArchiveBegins(c)
  \/ Grow \/ ArchiveStep \/ PowerLoss

StoreSpec == StoreInit /\ [][StoreNext]_storeVars
----------------------------------------------------------------------------
(* Properties. *)

OneNamespace ==
  /\ \A c \in Client : client[c].space \in {NoSpace, db.space}
  /\ \A e \in Rows(db.rows) : e.id[1] = db.space

NothingTwice ==
  \A i, j \in DOMAIN db.rows : i # j =>
    /\ db.rows[i].id[2] # db.rows[j].id[2]
    /\ Key(db.rows[i]) # Key(db.rows[j]) \/ Key(db.rows[i]) = <<>>

ToldIsStored == told \subseteq {e.id[2] : e \in Rows(db.rows)}

CountedOnce ==
  \A line \in Rows(Log) :
    LET stored == Cardinality({e \in Rows(db.rows) : e.source = "log" /\ e.id[2][1] = line})
    IN Times(line, counted) <= stored /\ stored <= Times(line, grown.log)

TotalsAgree ==
  \A key \in Attempts(db.rows) :
    LET total == Streamed(db.rows, key)
        one == Listed(db.rows, key)
    IN /\ ~total.refused /\ total.tool = one.tool
       /\ one.incomplete <=> "finished" \notin total.kinds

\* Only one with a bare destination may be gone, and then all of it is: what is left
\* of a reported archive is never part of it.
ArchiveGone == archive.segments = {} /\ ~archive.manifest /\ archive.marker = 0
ReportedArchivePasses ==
  archive.step = "reported" => ArchivePasses \/ (archive.bare /\ ArchiveGone)

\* A report that was read page by page shows each row of its sources exactly once and
\* in order, up to the moment of its first page, whatever was appended between pages
\* (event_page with the first page's sequence).
PagedOnce ==
  \A c \in Client : Placed(c, "paged") => client[c].got = Matching(db.rows, 0, client[c].through)

\* However openers, appends, imports of growing files and losses of power are
\* interleaved: one namespace is made and everybody has it (the recheck under the
\* lock in open_once); what was acknowledged is stored; no observation is stored
\* twice, a legacy line as often as the log shows it (the rank in import_legacy); no
\* sequence of accepted batches makes a database whose totals are refused or differ
\* from its list of requests; an archive that was reported passes its check, unless a
\* loss of power took all of one that has no parent to sync (archive); and a report is
\* right however many pages it took.
ObservationsAreSound ==
  /\ OneNamespace /\ NothingTwice /\ ToldIsStored /\ CountedOnce
  /\ TotalsAgree /\ ReportedArchivePasses /\ PagedOnce
=============================================================================
