# Gobstopper, specified

Gobstopper shortens what coding agents resend. A local **proxy** stands between an
agent and its provider: every request carries the whole conversation, and the proxy
replaces the older part of it with a summary before it is sent on. A **vault** keeps
snapshots of the agents' session files, so that nothing a rewrite leaves out is lost.
A **watcher** and commands compact those files, or ask a provider to compact its own
session. A **service manager** keeps the proxy running, and controllers install, stop,
replace and upgrade it while agents use it.

This directory holds TLA+ modules for the parts of that whose correctness depends on
order, concurrency, failure or a long history; TLC configurations that check them on
small instances; and TLAPS proofs for every size of those instances. `PROJECT.json`
maps each definition to the lines it models. A definition marked *Mutant* or
introduced by "As if" is a wrong variant of the one next to it; nothing uses it except
the check that each property notices a bug of that kind.

To run one: `tlc -workers 2 -config MCOperations.cfg MCOperations.tla`,
`tlapm VaultProofs.tla` (any `*Proofs.tla`).

Paths below are short for `src/crates/gobstopper-cli/src/` (main.rs, proxy*.rs,
context.rs, native_operations.rs, power.rs, toggle.rs, self_update*),
`src/crates/gobstopper-adapters/src/` (vault.rs, transaction.rs, copy.rs, fork.rs,
request/*) and `src/crates/gobstopper-core/src/`.

## 1. Inventory

### What the system is made of

| Component | State | Operations | Modelled by |
|---|---|---|---|
| Drain admission, `proxy_drain.rs` | legacy flag, one lease (owner, epoch, expiry, deadline, committed), number of inferences | acquire, inspect, renew, release, commit, legacy drain and resume, expiry; `forward`'s guard | `Gate`, `Admission` |
| Managed service stop, `proxy_agent.rs` | drain-operation.json, service lock, the manager's job, the process and its startup check | `stop_until` and what stands around it | `ServiceStop` |
| Service installation, `proxy_agent.rs` | manifest, startup definition, loaded job, pending-operation.json | install, replace, repair, uninstall, recovery of each | `Install` |
| Proxy upgrade and self update, `proxy_upgrade.rs`, `self_update/unix.rs` | upgrade ledger of thirteen stages, executable and receipt, staging directory, activity lock | reserve, stage, launch, stop, replace, start, roll back, reconcile | `Upgrade` |
| Bounded resources, `proxy_work.rs`, `proxy.rs` | sockets, forwarding slots, memory budget, workers | claim, lease, spawn, wait with a timeout, drop | `Capacity` |
| Request forwarding, `proxy.rs`, `proxy_context.rs` | one request: prepared context, bodies sent, reply | `forward`, `prepare_scoped`, `publish_prepared`, `reactive`, `reactive_step`, `relay_observed` | `Forward` |
| Context reservations, `context.rs`, `proxy_context.rs` | scopes in SQLite: windows, reservation, generation, evidence | declare, reserve, release, close, consume, observe and rescue | `Scopes` |
| Calibration, `request/calibrate.rs` | a mean per model in a bounded map | observe, ratio, calibrated threshold | `Calibration` |
| Request engine, `request/engine.rs`, `mod.rs`, `store.rs` | prefix store; per request the list, head, cut, carry, rung | `prepare_policy`, `compact_chain`, `compact_within`, `truncate_summary`, `reactive`, `publish_prepared`, `PrefixStore::put` and `touch` | `Replay` |
| Observations, `proxy_observations.rs` | bounded queue, writer, batch; buffer of a stream's event | emit, flush, retry, shut down; read a stream byte by byte and judge it | `Recorder`, `Stream` |
| Sleep assertion, `power.rs` | number of guards, the owner's assertion | begin, drop, acquire, probe, release, retry | `Power` |
| Snapshot vault, `vault.rs`, `transaction.rs` | chunks, manifests, pins, index, custody lock, index lock | `snapshot_data`, `append_index`, `Reader`, `retain_operation_snapshot`, `prune` | `Vault` |
| Copies, forks and restores, `copy.rs`, `fork.rs` | prepared objects, receipts, targets | `publish_prepared`, `reconcile_locked`, `recover_operation` | `Copies` |
| Native operations, `native_operations.rs` | an append-only journal per session, pins | prepare, dispatch, finish, reconcile, inspect | `Native` |
| Watcher, `main.rs` | per lane a state file: settled, armed, held, cooling | a pass, its decisions, migration of old state | `Watch` |
| Client routing switch, `toggle.rs` | Codex's and Claude's settings, the marks of what was there before | on, off | `Toggle` |
| Compaction core, `core/*`, `strategy/*`, `payload.rs` | none: a transcript and a policy in, a plan out | `adapt`, `evaluate`, the file strategies, validation, apply | `Compaction` |
| Session data, `session_data/*` | one SQLite file: version, namespace, rows; archives | open, migrate, append, import, page, total, archive | `Store` |
| Side channels, `proxy_stats.rs`, `proxy_log.rs` | bounded queues | write | not modelled |
| Dialects, transcripts, scorers, rest of the command line, site | none, or files written in sequence | parsing, rewriting, reporting | not modelled |

### How they interact

A request arrives on a socket (`Capacity`), asks admission for a guard (`Admission`
seen as `Gate`), holds the sleep assertion (`Power`), consumes its scope's reservation
(`Scopes`), is prepared by the engine in a worker thread under a timeout (`Replay` seen
as the contexts it can return), is sent, perhaps refused for its length, retried with
harsher settings or with the original body, and answered (`Forward`). The reply is read
as it passes (`Stream`), and what was seen is handed to a writer that no request waits
for (`Recorder`). What a successful answer says of its size teaches calibration
(`Calibration`), which moves the threshold of later requests; what the engine prepared
enters the prefix store only when the proxy has accepted it.

Meanwhile a controller may drain the process (`ServiceStop`): it takes a cross-process
lock, obtains a lease from the process's admission, commits it once no inference is
running, records in a journal that it is about to stop the service, and asks the
manager. A process that starts reads the journal before it serves. `Install` and
`Upgrade` are the commands around such a stop; both see it in outline: it succeeds,
fails and leaves the service up, or leaves a journal behind.

The vault is used by separate processes of the command line: hooks, copies (`Copies`),
and native operations (`Native`), which the watcher (`Watch`) or a user asks for. They
share nothing with the proxy; with each other they share files and advisory locks.

### What is hard

- *Concurrency*: the gate's counter against a drain that reads it; workers whose
  requests have given up on them; two requests of one conversation that publish into
  one store; a reservation consumed by a request that has stopped waiting; snapshots
  that share a chunk; lanes of the watcher over the same sessions.
- *Failure*: a controller that dies between any two lines, with its last request and
  its last manager command still on their way; an executable that was replaced and a
  receipt that was not; an engine that loses entries or all its memory; a power loss
  that takes back names whose directory was not synced.
- *Ordering*: barrier before commit, record before stop, journal before dispatch,
  receipt before target, chunks before manifests before rows, rows before the unlinking
  of what they named.
- *Timeouts and retries*: an acquire repeated after a lost reply; the ladder of
  retries after length refusals; a connection lost after the provider began; a native
  request whose outcome nobody heard.
- *History*: positions of a spliced list mapped back to the client's history over any
  number of compactions, and a mean that is moved for ever.
- *Others*: users and agents write sessions, edit definitions and take the names of
  targets at any time.

`PROJECT.json` lists forty hazards at the lines where they bite, with the properties
that cover them.

## 2. Plan

Order: what may lose or corrupt a user's work first, then what wastes it.

1. `Gate` ← `Admission`, then `ServiceStop` on top of `Admission` (done; proved:
   `Admission` and its refinement of `Gate`).
2. `Capacity` and `Forward`, the latter over `Gate` (done; both proved about).
3. `Calibration` (done and proved), `Replay` (done; its lists proved sound, sizes stay with TLC).
4. `Vault` and `Copies` (done and proved).
5. `Native`, `Watch` (done and proved).
6. `Upgrade`, `Install` (done and proved).
7. `Scopes`, `Toggle`, `ServiceStop`, `Recorder`, `Power`, `Stream`, `Store`,
   `Compaction` (done and proved).
8. Open: the migration of unmanaged services.

Abstract specifications: `Gate` (done); an abstract stop ("quiet, then stopped, then
another one") for `ServiceStop`, which `Install` and `Upgrade` could then use; and an
abstract vault (a set of durable snapshots) for `Vault`.

## 3. The modules

**Gate** is what drains promise to requests: open, held or closed, with a count of who
is inside. An open gate lets in; only a held gate with nobody inside closes; a closed
one never opens again.

**Admission** has one action per outcome of `Admission::control` and `legacy`, each
under the mutex that also protects `forward`'s guard. Time is two counters in the
lease that `Tick` lowers. Expiry is lazy as in the code: an expired lease stays in the
variable, and every reader goes through `Current`. `Admission` refines `Gate`
(`GateRefined`): a waiting lease or a legacy drain holds it, a committed lease closes
it.

**ServiceStop** instantiates `Admission` as the state of the process that serves, and
adds the newest process, the manager's job, the journal, the controller that has the
lock with its place in `stop_until`, requests in flight, and stop commands that the
manager has not executed. A controller may vanish at any step (`GiveUp`); what it sent
stays. Handlers match on the process instance, owner and epoch as `validate_lease_reply`
and the HTTP handler do.

**Install** is one command at a time (`operation.lock`) that changes manifest,
definition, job and process one after the other, and any command may die between two of
them. `pending` is the record that a later repair goes on from. The manager is launchd
or systemd, which forgets inactive jobs. Configurations differ in their arguments only.
Others edit the files and load jobs of their own (`Foreign`) at any time.

**Upgrade** is the command (owner) and its detached controller as separate processes,
the ledger with its thirteen stages, the executable and its receipt as two files, what
is in each staging directory, and the locks that the two hold in turn. A write of the
ledger may fail and have happened. `Reconcile` is the repair that settles what a dead
controller left.

**Capacity** has one action for each atomic claim and each drop, in the order in which
Rust drops fields and locals. A connection's thread and its jobs are separate actors; a
job runs on when its request has timed out. `input` and `body` are the bytes leased.

**Forward** follows one request through `forward`. Preparation is a choice among all
contexts the engine may return for it (a compacted one of any size, an unchanged one,
none for lack of a worker, memory, time or a readable body); the provider answers
anything. `Harsher` is what the ladder may give next. Every early return is an action.

**Scopes** has one action per transaction of `context.rs` on a scope's row and its
evidence, and around it the proxy's worker threads: a request may stop waiting for its
consume, which commits later; observations queue up and are judged with the decision
their request was prepared under. The clock may be set back.

**Calibration** computes with the code's integers: permille ratios, and a mean moved by
a shifted difference in the direction of the sample.

**Replay** is the engine on messages that are a kind and a size. `Try` is one call of
`compact_within` (head, turn starts, tail growth, carry), `Chain` is `compact_chain` (one
message after the other), `Climb` the ladder, `Without` the truncation. A context keeps
what the code keeps (`head`, `cut`, `sum`, `carry`, `rung`, `pending`), and the list is
computed with the code's index arithmetic, separately from what it ought to be: the
property `ListIsSound` compares the two. Entries are keyed by the prefix itself
instead of its hash, and are touched, replaced and evicted as in `store.rs`.

**Recorder** is the queue between request threads and the writer: each critical section
is an action, the wake-up token of `thread::park` is a variable, an append may fail
after it has committed, and the Recorder may be dropped at any time.

**Stream** reads a reply one byte at a time, of which there are five kinds. `Split` is
the definition of what the events are, computed from the whole reply; the machine has
the buffer, the tail and the flags of `StreamMetrics`.

**Power** counts guards and has the background owner's loop: looks, native calls that
take time, fail or panic, the helper process that may exit, and parking with a token.

**Vault** keeps two sets of names, `seen` by those who look and `durable` on the disk;
a name in one only may go either way when power is lost. A file is synced before it is
linked and linked before its directory is synced, each a step, with failures and kills
between them. `images` are the contents the index may have after a power loss. `prune`
computes its garbage at once, under exclusive custody, and then replaces, syncs and
unlinks one step at a time.

**Copies** looks at each file the same way: what a process sees and the set of contents
a power loss may leave. A call is the sequence of steps of `publish_prepared` and
`reconcile_locked`; it may fail or be killed before any of them, and a later one with
the same identity takes up what the receipt says. Users and agents edit targets.
`lock_operation` is two steps, as in the code: the directory of the receipts is synced
(`Begin`, by `private_dir`), and then the lock is tried (`TryLock`). Whoever had the lock
in between may have linked or renamed the receipt and ended without a sync. A call that
takes up such a receipt was overtaken, which `found`, the receipt that was there at the
sync, tells; `unsure` collects the copies of such calls (finding 5).

**Native** is a journal per session that is a sequence of records of which a prefix is
synced; an append may be cut. What a provider was given (`given`) and is working on
(`flight`) is separate from what the journal says of it.

**Watch** has lanes with what each remembers (`mem`) and what its file holds (`saved`),
versions of sessions as they were discovered and as they are now, and the decisions
taken. A pass stops in front of every external call.

**Toggle** keeps each client's settings file as a record of what matters (which provider,
which URL, a mark of Gobstopper's) and what the user may write between any two steps.
`on` and `off` are the sequences of reads, installs of the service and replacements of
the code, and may stop at each of them.

**Compaction** plans cuts of a session file: policies adapted to what a session was
observed to yield, eleven strategies and `auto` with their floors, protections and drops,
the validation of a plan against the transcript, and its application. A transcript is a
short sequence of records with a size and a kind; scores are attributes of records. An
order of results is the set of its beginnings, so that to take from the front until there
is enough is to take the shortest beginning that is (`Shortest`). One
strategy is used per copy, stubs of a Claude session become user records, cards are
taken at their estimated size, and `auto` on a live session is the provider's matter
(`Native`).

**Store** is the database file with its schema version, namespace and rows, and what each
process that opens it is doing: looking at the version, initialising it under the lock,
migrating, appending, paging. A batch is added whole or not at all, the commit may go
unacknowledged, and the two kinds of import read files that go on growing. Totals are
computed twice, as `metrics_with_timeout` streams them and as `requests` lists them. An
archive is segments, manifest and mark with their syncs; one whose destination is a
single relative component (`bare`) has no parent that would be synced.

**MCProcess**, **MCService**, **MCOperations** and **MCReplay** each put several of
these side by side. They share no state, so that a product would show nothing that each
alone does not: `part` says which one moves, and one run checks them all.
**MCForward** is `Forward` alone.

## 4. The runs

| Run | States | What moves | What it shows |
|---|---|---|---|
| `process` | 203,143 | admission; connections, workers and memory; calibration; the queue of observations; the sleep assertion | stalled work is bounded, nothing vanishes, `Gate` is refined, waits and work end, what was measured settles, the assertion follows the guards |
| `service` | 1,836,387 | stops by three controllers; two upgrades; a scope; a stream; the routing switch; the store of observations | stops meet nobody, no upgrade strands the service or starts it on a mixture, no reservation is overdrawn, a stream's verdict is true, on and off lose no route, each observation is stored and counted once |
| `forward` | 1,501,842 | one request of every kind, and a drain | what may be sent, and that each request is answered |
| `replay` | 205,441 | five engines and their clients; an installation; the file strategies | what an engine sends does not depend on what its store kept; repair converges under launchd; plans are admitted and save |
| `operations` | 3,061,953 | the vault; native operations; watchers; copies | history stays readable, no request is sent twice, no decision outlives its reason, every delivery that was not overtaken (finding 5) can be recovered |
| `replay_rounding` | violation | sizes that are not whole tokens | finding 1 |
| `replay_spliced` | violation | a second prompt behind a summary | finding 2 |
| `auto_refused` | violation | three results of one tool | finding 3 |
| `vault_pins` | violation | the vault with a power loss | finding 4 |
| `copy_overtaken` | violation | two calls for one copy, a kill between link and sync | finding 5 |
| `upgrade_repair` | violation | a controller killed in `draining` | finding 6 |
| `install_repair` | violation | a first installation under systemd that dies | finding 7 |

**Bounds.** *Admission*: a renewal needs to be cut short by the deadline, a commit to
come too late, an expired lease to linger unobserved, and a third grant to follow a
release and an expiry; 3 epochs and times up to 5 contain these. *ServiceStop*: the third
controller is the one that finds a journal whose author and successor are both gone, the
third process the one the manager starts between commit and stop. *Capacity*: one more
connection than slots and more jobs than workers, and memory for two bodies or for one
and its copy. *Forward*: a size within and one beyond each limit; requests meet only at
the gate, and the theorems cover any number. *Upgrade*: the second upgrade is the one
that finds what the first left. *Scopes*: three requests, so that two may race for the
last of a reservation while a third is late. *Vault*: two writers race for the shared
chunk, and the second document's prune must keep what the first needs, and one
process is killed or the power is lost; the same properties also pass with both, with two
power losses, or with two kills and one. *Native*: the
second session is the one whose operations must not be fenced by the first's. *Watch*:
two lanes and two versions of a session; a restart and a new configuration
separately. *Copies*: two identities at one target path; two calls are killed or fail,
one to leave a receipt without a sync and one that took it up, with one edit and one loss
of power. *Store*: two openers
of which one finds the other between look and lock, a log that shows a line twice, pages
of one row.
Every other bound is named in its module's CONSTANTS and given in the MC module.

**The engines of `replay`.** *Plain*: every kind of turn, a tail budget, two turns
kept. *Ladder*: results larger than a request holds, a capacity below the threshold and
strict mode, so that every rung is reached. *Two*: two requests in flight on one store.
*Mixed*: one conversation under two policies, whose entries must not be mixed. *Forks*:
the client rewinds and grows another way. In each, entries are evicted and the proxy
restarts at any time, a busy store drops what was to be published, the provider refuses
lengths, and prepared requests are discarded. Histories have up to eleven messages:
several compactions with a tail of two turns. Sizes are a few characters where the program
has thousands; the constants are scaled so that every comparison goes both ways.

**Deadlock** is not checked: every module has states in which it is right that nothing
happens any more (bounded counters used up, all requests answered).

**Symmetry** is used where nothing tells the members apart and no liveness is checked:
over sources in `service`, over processes and the copies' commands in `operations`,
`vault_pins` and `copy_overtaken`.

### Fairness

- Admission: weak fairness of `Tick`: time passes. Not of any controller.
- Capacity: of each connection's own thread and of the drops at a job thread's exit:
  reads, writes and waits of a request thread all have deadlines. Nothing is assumed of
  the transform: requests end even if transforms hang.
- Forward: of each request: the transform's wait, the scope's storage, the client's
  socket and the provider (curl runs with `--max-time` and `--speed-time`) end by
  deadline. Drains are under no fairness.
- Install: a command that was started goes on or dies, the user repairs in the end, and
  the manager launches and stops what it was told to.
- Recorder, Power: calls of the storage and of the system return, time passes. Power
  needs no fairness of its wake-up: its poll suffices.
- Everything else is safety and has none.

### Findings

1. `replay_rounding`. The trigger counts whole tokens, the replay counts characters
   (engine.rs:136). A list one to three characters over is sent as it is by a live engine
   and compacted by a restarted one, where the doc promises the same result.
2. `replay_spliced`. When a human message directly follows a substituted summary, the
   next compaction takes the old summary into its verbatim head (mod.rs:312), and the
   entry it stores splices original messages in the summary's place.
3. `auto_refused`. `auto` scores plans that nobody has validated (strategy/auto.rs:141);
   with three results of one tool the only plan is one that the validation refuses.
4. `vault_pins`. `retain_operation_snapshot` (vault.rs:92) pins an object by the bytes it
   reads. If the object was pruned and a later snapshot of it failed between link and
   directory sync, the pin is durable and the object is not.
5. `copy_overtaken`. `lock_operation` has the receipts' directory synced (copy.rs:262)
   before it holds the lock (copy.rs:277). A call that waited in between while the holder
   linked its pending receipt and died unsynced takes that receipt up, and links and syncs
   the target under it. A power loss may then leave the copy without its receipt, against
   "already durable" in verify/vault/README.md:152, and every later attempt refuses,
   because the target exists. A completed receipt that nobody synced is returned in the
   same way, and may be pending again after a power loss. `OutputHasIntent` is
   `Explained` without the exception for `unsure`: `operations` and `CopiesRecover` show
   that nothing else breaks it.
6. `upgrade_repair`. A controller that died in `draining` before it stopped anything
   leaves a journal that no repair and no later upgrade lets go (proxy_upgrade.rs:242).
7. `install_repair`. A first installation under systemd that dies after the unit was
   written: the inactive unit is registered, and every repair tries to stop its process
   first (proxy_agent.rs:1327).

### Worth knowing

Met while modelling; no run shows them.

- An entry also serves a *shorter* history that a client rewound to (engine.rs:594), so
  that then the newest turns may be summarized: `ListIsSound` speaks of the newest turns
  for clients that only append, which is what README.md and docs/proxy.md speak of.
- The error path of `acquire_committed_drain_until` sends its release only before the
  deadline, and the timeout is raised only after it: a timeout never releases, against
  docs/service.md:21. The lease expires by itself.
- A stop on an acknowledged journal returns without a look at whether a reboot has
  loaded the job again. A first installation interrupted by a power loss between
  definition and manifest leaves a loaded job that refuses to start.
- A watcher's comment says that transient failures only limit the rate, but
  `operation.finish(None, None)` records an unknown outcome, which blocks its target.
- An agent that goes on with a copied session before the copy's receipt is completed
  turns that receipt into a conflict that only a user can repair. A killed writer's
  temporary file makes `prune` refuse until it is removed; its removal is not synced, so
  that a power loss may bring it back.
- When the activity lock stays held, an upgrade's controller gives up after 90 s, and its
  rollback tries the same lock once (proxy_upgrade.rs:816): it fails for the same reason,
  and the service that docs/service.md:83 says is restarted stays down, with a journal
  that says so (`DownIsFlagged`).
- `gobstopper data archive` with an `--output` of one relative component syncs no parent
  (store.rs:1090), because `Path::parent` is then empty: a power loss may take back an
  archive that was reported. No text promises its durability, and `ReportedArchivePasses`
  says that it is then gone as a whole; `ArchiveGone` is that exception.
- `on` with a saved URL and no settings file always stops with "changed while Gobstopper
  was editing it", after the service was installed. Nothing excludes `on` against `off`,
  and `replace_file` compares before it renames: an edit in between is lost.
- `read_events` reads the older generation of the log and then the current one without a
  lock: a rotation in between hides the one just rotated.
- In `watch`, `adapt` is called without elidable tokens (main.rs:4464), so that its
  tightening has no effect when a context is reported. `adapt` can also raise a valid
  trigger beyond `MAX_POLICY_TOKENS` (for a base of more than 6.67 million), and
  `evaluate` then stops with "invalid policy bounds".

## 5. Proofs

Constants are constrained by the ASSUMEs of their modules only: bounds are naturals, sets
of actors finite where they are counted, numbers are in the ranges the code fixes, and a
value that stands for "none" (`NoLease`, `Absent`, `Nobody`, `None`) is not one of those it
stands beside. One theorem, `ListsAreSound`, asks
something of the environment that the actions do not say; it is named below.

- **ForwardProofs.** Requests meet only at the gate: `Sound(r)` is about one request and
  disturbed by its own steps only (`Frame`), `Counted` says the gate counts exactly those
  inside. From them `Capacities`, `LocalRefusals`, `Once`, `Quiet`, for any number of
  requests and sizes. What outlives a request is a third part: a sample is of a request
  that sends nothing more (`SamplesAreTrue`), and what is about to be sampled or
  published is what was last sent (`Remembered`, `StoreFits`). From it `Strictness` and
  `Memory`.
- **ProcessProofs.** What one process keeps.
  *Capacity*: each step moves one connection or one job, so each set of holders
  changes by at most one element (`OneElement`, `ConnectionMoves`, `JobMoves`), and the
  counter by the same. The invariant needs `Fresh` (a job not yet started is nowhere) and
  `HasJob` (a busy request has one). From it `CountersAreExact`, `StalledWork`,
  `ControlReserve`, for any number of connections, jobs, slots and workers.
  *Calibration*: division is characterised by its bounds (`Division`,
  `DivisionBound`, `DivisionAntitone`); `MovedBetween` shows that one update stays
  between mean and sample. From it `MeanStays`, `Earlier`, `SteadyMean`, `MapStays`.
  *Recorder*: events are numbered as they are emitted, and what is stored or waits is one
  set, `Traced`. Emitting adds to it what it does not count as dropped; appending and
  draining leave it alone, because the writer's batch is the head of the queue
  (`BatchFits`) and the queue is in order (`InOrder`); only the end of the writer takes
  from it, and counts. A failed append may have committed, so stored and counted may
  overlap once `trouble` is not zero, and not before (`Accounted`). From it
  `NothingIsLost`.
  *Power*: what the others are told follows what the owner has, step by step
  (`TellsTheTruth`). From it `StatusIsTrue`, `NoLateAssertionHolds`.
  *Stream*: the reader goes byte by byte, and the outcome is defined over the whole reply,
  recursively from its front. `Cuts(r)` is that definition for every place of `r` at once;
  that such a function exists, and that one more byte changes each of its values by
  `Grown` only (`CutsGrow`), is shown by the last place where it would fail, since
  places are naturals (`Least`). The invariant (`StreamInv`) is then short: the buffer is
  what follows the last event, or while an event is skipped its last three bytes or more,
  enough to see any delimiter end (`EndsAlike`). From it `OutcomeHolds`, for replies and
  buffers of any length.
  *Admission*: `AdmissionInv` is types, `FencedIsIdle`, `OneFence` (a lease and a legacy
  drain exclude each other; without it a release could uncover a drain, and
  `FencedIsIdle` would not be inductive) and `WithinDeadline` (needed for renewals, which
  may extend only up to the deadline). From it `AdmissionIsSafe`, `CommitIsFinal`,
  `DeadlineHolds` and the refinement of `Gate`, action by action (`GateIsImplemented`),
  for any owners, times and slots.
- **VaultProofs.** *Vault*: a power loss may restore any image of the index and any mixture of
  the names seen and the names on disk, so the invariant is about all of them: what a
  row of *any* image needs is seen and durable (`Rooted`), and so are the chunks of a
  manifest that is in *either* set (`Whole`). `JobOK` says what each call relies on: a
  snapshot has settled all but what it has left and publishes its manifest last; what
  prune has left is named by no image once the index is synced, by no pin, and by no
  manifest that stays. `Alone` and `Locked` are the two locks. Only `Unlink` takes
  content away (`StepKeeps`), only `Link` and a power loss bring it (`StepNoneNew`), so
  two steps carry the argument (`LinkFiles`, `UnlinkFiles`). For `NewestSurvive`, the
  newest row that prune drops has `Keep` newer ones itself, all of them kept
  (`KeptAreNewest`). From it `RowsReadable`, `NoDanglingManifest`, `ReportedStay`,
  `CustodyProtects`, `PruneIsComplete`, `HistoryStays`, for any processes, transcripts
  and streams and any number of crashes and power losses. `NamesAssumption` says that
  temporary files have names of their own.
  *Copies*: the invariant speaks of every content a power loss may leave, not
  only of what is seen: `Explained` and `Recoverable` for all of `kept`. Neither is
  inductive alone: that a call which stands before `intend` has no receipt under any
  image, that past it the receipt is durable, and that past `confirmed` the target is,
  is said per step in `CallOK`; `OneEach` gives one call per identity, so that no other
  call disturbs it, and `Stays` what a file keeps through a step that is not about it.
  A completed receipt is durable only with a durable target unless somebody edited the
  path, hence the history variable `edited`. Before it has the lock a call knows of its
  receipt only that it is on the disk if it has not changed since the directory was synced
  (`OpenedOK`): receipts only go on, from none to pending to done (`Stays`, `Onward`). A
  call that was not overtaken keeps that knowledge under the lock (`SureOK`); of one that
  was, the rest of `CallOK` still gives the second half of `CopiesAreRecoverable` and the
  first of `DeliveryIsFinal` without exception. From it `CopiesRecover`, `Delivered` and
  `NothingOverwritten`, for any number of copies, calls, failures and power losses.
- **ServiceProofs.** Four components around the service.
  *ServiceStop*: `StopsAreHarmless` relates a stop on its way to a process, and no lock
  covers both. The invariant is how four places agree: a committed lease is the one that
  the journal names (`LeaseIsJournalled`); of the commit requests on their way, none is
  still acceptable unless the journal names it (`CommitsAreJournalled`); a controller at
  work works on the journal's operation (`WorksOnJournal`); a recorded commitment is true
  of the process that serves (`CommitmentIsTrue`). What `Admission` does to a lease enters
  through two facts about its critical sections (`Moves`, `GrantsNothing`), so that the
  handlers need no look inside. `NamesAreOld` and `TokensAreOld` keep late messages from
  naming processes or tokens that are yet to come.
  *Toggle*: a switch works from a plan made at its start, and users edit meanwhile.
  `OffInOrder` says that the record is written before the settings, `OffAlone` what the
  files owe to the plan if nobody else edits; `RouteInv` relates the second switch's plan
  to what the first found. From them `NoUrlIsLost`, `NobodyIsLeftBehind`,
  `SwitchKeepsRoutesHolds`.
  *Scopes*: decisions on their way are older than the row or what the row still says
  (`DecisionsAgree`), and rereads are at most the results recorded since the count began
  (`EarnedOnce`), a cardinality. From them `AllowanceHolds`, `RescueIsSoundHolds`.
  *Upgrade*: at most one controller is at work, the one the ledger names and that holds
  the operation lock (`OwnersFit`, `LocksFit`). For each of its steps `ControllersFit` says
  what the ledger says, what the service is, what is left of the old files and which
  locks it holds. For when it is gone, `LedgerFits`, `NamedFits`, `Mixed` and `ServiceFits`
  say what the ledger alone must tell whoever repairs: the files are a mixture only under
  a stage that makes a repair restore both. `NeverStranded` is not inductive without
  them, because a death may come between any two of those steps. From it
  `NothingIsStranded`, `NoStartOnMixtureHolds`, `VerdictIsTrueHolds`.
- **OperationsProofs.** *Native*: that no request is repeated rests on the lock (`Alone`),
  on operations being pinned in order before anything is written (`Numbered`,
  `PinsInOrder`), on a dispatch being on the disk before the request is sent (`OnDisk`),
  on evidence being true (`RecordsAreTrue`), and on a journal with nothing unresolved
  showing that every earlier request has ended (`EarlierEnded`). Journals only grow at the
  end and a power loss cuts only what is not synced, which a few lemmas on sequences say
  once. From it `NativeSafety`, `NeverReplayedHolds`, for any processes, sessions, faults
  and power losses.
  *Watch*: what a lane holds settled of a version it saw was decided (`Remembered`, of the
  memory and of the file, since a restart swaps the one for the other), it saw no version
  to come (`SeenIsPast`), and an old file's holds stay where they were (`OldIsKept`). From
  it `WatchersAreTrue`, `ResumedWhenQuietHolds`.
- **InstallProofs.** `RecordIsTrue` speaks of states without a command, and a command may
  die before each of its writes, so the invariant says for each command how far it has
  come (`CommandsFit`), which lease its stop runs under and in which stage (`StopsFit`),
  and which files are written (`WritesFit`). `FilesFit` is `RecordIsTrue` for the middle of
  a command: manifest, definition, job, lease and confirmed configuration are of those
  that the record, or else the command, names. It has one exception, `Abandoned`: once
  somebody else's manifest is met at rest, no command begins any more. `FoundFits`: only a
  recovery begins beside something foreign, a job, and it never gets further than to look
  at it. One lemma per action, one step per part of the invariant. From it `RecordHolds`
  and `ForeignIsLeftAlone`, for any configurations, both managers and any number of faults.

- **ReplayProofs.** *Replay*: a list with a summary is known by its head, its cut, the summary and
  how much of the history it holds (`List`, `ListOf`), and one compaction of such a list
  is such a list (`FirstCut`, `NextCut`): what `adopt` computes from positions of the
  working list is the position in the history. The step that carries it: the first model
  turn of a working list is the message behind the old summary, so that `compact_within`
  finds the head it found before. That needs the model's message behind the cut
  (`Anchored`), in the history a summary was made for and in each it is later taken up
  for. So the invariant says of every entry, stored or waiting to be published, that it
  fits any history of this client which begins with its key (`FineEntry`); it is kept by
  whatever is published late, evicted, touched or lost. That a cut keeps `keep` turns is
  a count (`TopOf`, `StartIs`), which moves with the positions (`Moved`) and only grows
  as the client appends (`KeptInMore`). The replay, the lookup and the publication are
  recursive functions over a history or a list of entries; that they have the values
  their bodies say, and that each value is sound, is shown by the least place where it
  would fail (`ChainIs`, `ChainFits`). From it `ListsAreSound`, for any engines, sizes,
  limits, stores and histories. *Its assumption*, `Alternates`, is about clients that
  rewind: the openings of their conversations are equally long, and behind them the model
  answers each message that is not its own. A client that only appends is asked nothing.
  The assumption is no convenience: the run `replay_spliced` is a client without it and
  violates the property. TLC evaluates it on the engines of the other two runs
  (`AllAlternate`).
  *Compaction*: every plan is a control or a cut, an elision of elidable results with a
  card or without one (`PlansAre`), and of candidates unless it may come from `micro`;
  such a cut passes the validation (`CutsAreValid`). Each strategy takes the shortest
  beginning of its order that is enough, which is a part of what it orders and never
  empty (`ShortestIs`). A cut claims at most what it takes, because a stub is smaller
  than its result by what the estimate allows for it, record by record and then in total
  (`Lighter`, `ElisionSaves`), and a card costs what it is estimated at (`CardCosts`); two
  elisions of one proposal count apart because the validation keeps them apart
  (`SavedApart`, `ExternalsPay`). `RepeatedCutIsOneCut` speaks of the states right after a
  cut only; between them the copy is one elision of a part of what `cliff` would drop of
  the session now (`CutOnce`). That is kept because what `cliff` drops it still drops when
  more is said (`CliffKept`), and because neither the newest results nor the steps change
  when others are elided (`NewestStay`, `StepsAgree`, `CliffElided`). From it
  `PlansStaySound` and `CutsStayOne`, for any records, policies, tuning and proposals.
  `RecordsAssumption` is what the adapters give: a payload is part of its record, and is
  replaced in parts that are longer than a stub; `CompactionAssumption`, that a stub as
  written is no longer than the estimate sets aside for one.

- **StoreProofs.** `CountedOnce` and `TotalsAgree` compare numbers that the code finds by
  going through a table, a page or a log, so the invariant, `StoreInv`, first says what
  the table is: its rows are distinct, no attempt has two owners, and the rows of a log are
  of lines and ranks the log has, all of them up to where an acknowledged import has read
  (`RowsFit`). Its other parts say why this stays so between two transactions: a
  process that has read a namespace has the one of the database, which is made once
  (`SpacesAgree`); what it is about to append is under it and of lines that are there
  (`BatchesFit`); what it has read in pages is what there was up to the last number
  (`PagesFit`); and an archive is of rows that are still there, on the disk as far as it was
synced, or gone as a whole if its own name was not (`ArchiveFits`). A batch
  that is committed and not acknowledged is appended again, which changes nothing
  (`TakenIsSound`, `AddedIsSound`). `CountedOnce` is then a correspondence, one to one, of
  rows with pairs of a line and a rank (`RankedIsOne`, `RanksAreTaken`, `LinesAreCounted`);
  the two totals agree because a request has one start and one end at most
  (`RequestsAreOnce`, `OneObserved`, `NoneObserved`). Rows, pages and totals are recursive
  functions over a sequence; each is shown to have the values its body says by the
  least place where it would fail (`AddedIs`, `MatchingIs`, `ThroughIs`). From it
  `ObservationsStaySound`, for any processes, batches, logs, transcripts and pages, and any
  number of conflicts, losses and restarts. `LiveAssumption` is what `Envelope::validate`
  demands of a batch before it is appended: a request names its attempt.

Proved and no longer in a run, because a run of everything that is proved would leave no
room for what is not: `FencedIsIdle`, `CommittedIsFinal`, `DeadlineNeverExtended`,
`SlotsAccounted`, `ControlIsReachable`, `RefusedMeansUnsent`, `PerformedOnce`,
`ClosedIsQuiet`, `MeanInRange`, `OnlyEarlier`, `HeldIsTrue`, `NoLateAssertion`, `CustodyHolds`, `NothingLeft`. TLC agreed
with each before its proof.

Model-checked only, and why:

- all liveness: `EveryRequestAnswered`, `DrainQuiesces`, `WaitEnds`, `WorkEnds`,
  `EverythingSettles`, `AssertionFollows`, `LaunchdRepairConverges`. It is out of this
  prover's reach, as is ENABLED;
- `SameAsFresh` and `RetryIsShorter` of `Replay`: the first compares two replays of one
  history, by the settings that shaped each step, the second adds up sizes over sets of
  messages (a fold of the community modules, with an operator as its argument).

## 6. What is not modelled, and why

- *In ServiceStop*: protocol 0 (idle-only controllers without leases) and managers that
  start a process late.
- *In Install*: the same, Windows' registration digest, and the adoption of services
  that were not managed.
- *In Replay*: the evidence section (disabled by `evidence_max_bytes = 0`), thinking
  blocks and images, the text of summaries.
- *In Forward*: HTTP parsing, statistics.
- *In Scopes*: the limits of 4096 scopes and 2048 pieces of evidence, and the opening of
  the store.
- *In Stream*: usage, tools, and replies that are no stream.
- *In Vault*: legacy records and objects (never collected), the target of a restore,
  byte limits, and the syncs inside `private_dir`, which only make more names durable.
  The receipts that are roots of prune are in `Copies`.
- *In Copies*: receipts of schema 1, the checks of a source, each of which only ends a
  call before anything is published, and the transforms.
- *In Native and Watch*: byte limits, the identity of homes and names, budgets and
  cooldowns as numbers (they run as they like).
- *In Toggle*: the texts of TOML and JSON, the refusal inside a routed session, two
  commands at once, and the routing of one launch.
- *In Compaction*: how records are scored, the texts of cards and stubs, probes, and the
  event log.
- *In Store*: backups, exports, status and check, permissions, deadlines, byte limits,
  digests, and the arithmetic of reports.
- *Components*: side
  channels cannot change what is sent. Dialects, transcripts and scorers
  are functions over data, without interleavings. The repository proves facts about
  some of them with its own tools (`verify/`), and has TLA+ models of the vault
  (`verify/vault/Vault.tla`) and of the journal of one native target
  (`verify/watch/Watch.tla`). They treat a publication and an append as one durable
  step and leave power losses out; `Vault`, `Copies` and `Native` add what lies between.
