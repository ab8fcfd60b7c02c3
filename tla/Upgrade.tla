------------------------------ MODULE Upgrade -------------------------------
(***************************************************************************)
(* Replacing the installed release under a managed service                 *)
(* (proxy_upgrade.rs, self_update/unix.rs, UpgradeControl in               *)
(* proxy_agent.rs).  An owner, the command the user typed, reserves the    *)
(* operation in a ledger, stages the release and launches a detached      *)
(* controller; the controller stops the service, replaces the executable   *)
(* and its receipt, which are two files, and starts the service, or puts   *)
(* the old files back and starts the old one.  A repair command settles    *)
(* what a dead controller left.                                            *)
(*                                                                         *)
(* Either process may die at any step; a ledger write may fail with or    *)
(* without its bytes on disk; a rename may fail; other commands hold the   *)
(* installation's activity lock, and another updater may install a version *)
(* of its own.  Deadlines pass when they like.  How a service is stopped   *)
(* is ServiceStop's subject: here a stop succeeds, or fails and leaves the *)
(* service up, or down with the stop's own ledger.                        *)
(***************************************************************************)
EXTENDS Naturals, FiniteSets

CONSTANTS
  Upgrade,    \* reservations; the version an upgrade installs has its name
  MaxFaults,  \* bound: failed writes, renames, starts and stops
  MaxKills,   \* bound: killed owners and controllers, crashes of the service
  MaxUpdates, \* bound: installations by another updater
  Nobody

ASSUME UpgradeAssumption ==
  /\ Upgrade \cap {"old", "other", "update", "watcher", Nobody} = {}
  /\ Nobody \notin {"old", "other", "update", "watcher"}

VARIABLES
  ledger,    \* upgrade.json
  owner,      \* Upgrade -> where its command is
  controller, \* Upgrade -> where its detached controller is, and what follows a restoration
  operation,  \* who holds operation.lock
  installed,  \* the versions of the executable and of its receipt
  staged,     \* Upgrade -> files of its staging directory
  activity,   \* who holds activity.lock
  service,    \* registered with its manager; the version that runs; whether it answers as it should
  drain,      \* an unresolved stop is journaled
  faults, kills, updates

upgradeVars == <<ledger, owner, controller, operation, installed, staged, activity, service, drain,
          faults, kills, updates>>
disk == <<installed, staged, activity>>
counts == <<faults, kills, updates>>

Version == Upgrade \cup {"old", "other"}
Verdicts == {"healthy", "failed", "rolled_back"}
Stages == Verdicts \cup {"none", "staging", "started", "draining", "stopped", "replacing",
                         "replaced", "starting"}
Files == {"gobstopper", "new-receipt", "previous", "old-receipt"}
Unregistered == [registered |-> FALSE, running |-> Nobody, well |-> FALSE]

UpgradeTypeOK ==
  /\ ledger \in [id: Upgrade \cup {Nobody}, stage: Stages, named: BOOLEAN, recovery: BOOLEAN,
                  from: Version, to: Version]
  /\ installed \in [binary: Version, receipt: Version]
  /\ staged \in [Upgrade -> SUBSET Files]
  /\ operation \in Upgrade \cup {Nobody}
  /\ activity \in [exclusive: Upgrade \cup {"update", Nobody}, shared: SUBSET (Upgrade \cup {"watcher"})]
  /\ service \in [registered: BOOLEAN, running: Version \cup {Nobody}, well: BOOLEAN]
  /\ drain \in BOOLEAN

Pair(v) == [binary |-> v, receipt |-> v]

UpgradeInit ==
  /\ ledger = [id |-> Nobody, stage |-> "none", named |-> FALSE, recovery |-> FALSE,
                from |-> "old", to |-> "old"]
  /\ owner = [u \in Upgrade |-> "idle"]
  /\ controller = [u \in Upgrade |-> [at |-> "absent", then |-> "restart"]]
  /\ operation = Nobody /\ drain = FALSE
  /\ installed = Pair("old") /\ staged = [u \in Upgrade |-> {}]
  /\ activity = [exclusive |-> Nobody, shared |-> {}]
  /\ service = [registered |-> TRUE, running |-> "old", well |-> TRUE]
  /\ faults = 0 /\ kills = 0 /\ updates = 0

-----------------------------------------------------------------------------
(* The ledger and the locks                                               *)

\* reject_pending: what keeps every other service operation out.
StagesOnly(j) == j.stage \notin Verdicts \cup {"none"}                 \* Mutant
Pending(j) == j.recovery \/ j.stage \notin Verdicts \cup {"none"}

Fault == faults < MaxFaults /\ faults' = faults + 1
Fine == UNCHANGED faults

\* One save of j; whether it reports success.
Saves(j, ok) ==
  IF ok THEN ledger' = j /\ Fine
  ELSE ledger' \in {ledger, j} /\ Fault

At(u) == controller[u].at
Goes(u, at) == controller' = [controller EXCEPT ![u].at = at]

\* advance_recorded, then one step or the other.
Advance(u, stage, next, otherwise) ==
  \E ok \in BOOLEAN :
    /\ Saves([ledger EXCEPT !.stage = stage,
                             !.recovery = @ /\ stage \notin {"healthy", "rolled_back"}], ok)
    /\ Goes(u, IF ok THEN next ELSE otherwise)

\* flock: nobody else, the running service included.
Free == activity.exclusive = Nobody /\ activity.shared = {} /\ service.running = Nobody
Locked(u) == [activity EXCEPT !.exclusive = u]
Unlocked == [activity EXCEPT !.exclusive = Nobody]
Without(u) == [activity EXCEPT !.shared = @ \ {u}]

\* snapshot.
BinaryOnly == {"previous"}                                             \* Mutant
Backup == {"previous", "old-receipt"}

\* verify_prepared_upgrade and verify_upgrade_stage.
Verified(u) == {"gobstopper", "new-receipt"} \subseteq staged[u] /\ installed = Pair(ledger.from)

-----------------------------------------------------------------------------
(* The owner: run and run_selected                                         *)

Alive(u) == owner[u] \notin {"idle", "ended"}
OwnerGoes(u, at) == owner' = [owner EXCEPT ![u] = at]

Claim(u) ==
  /\ owner[u] = "idle" /\ operation = Nobody /\ ~Pending(ledger) /\ ~drain
  /\ service.well /\ installed = Pair(service.running)
  /\ \E ok \in BOOLEAN :
       /\ Saves([id |-> u, stage |-> "staging", named |-> FALSE, recovery |-> FALSE,
                 from |-> installed.receipt, to |-> u], ok)
       /\ OwnerGoes(u, IF ok THEN "claimed" ELSE "ended")
  /\ UNCHANGED <<controller, operation, disk, service, drain, kills, updates>>

Mine(u) == ledger.id = u /\ ledger.stage = "staging"

\* The selected version is the installed one.
Current(u) ==
  /\ owner[u] = "claimed" /\ operation = Nobody /\ Mine(u)
  /\ service.well /\ service.running = installed.binary
  /\ \E ok \in BOOLEAN :
       /\ Saves([ledger EXCEPT !.stage = "healthy", !.to = installed.receipt], ok)
       /\ OwnerGoes(u, IF ok THEN "ended" ELSE "failing")
  /\ UNCHANGED <<controller, operation, disk, service, drain, kills, updates>>

Prepare(u) ==
  /\ owner[u] = "claimed" /\ operation = Nobody /\ Mine(u) /\ installed = Pair(ledger.from)
  /\ staged' = [staged EXCEPT ![u] = {"gobstopper", "new-receipt"}]
  /\ OwnerGoes(u, "prepared")
  /\ UNCHANGED <<ledger, controller, operation, installed, activity, service, drain, counts>>

Start(u) ==
  /\ owner[u] = "prepared" /\ operation = Nobody /\ Mine(u) /\ Verified(u)
  /\ \E ok \in BOOLEAN :
       /\ Saves([ledger EXCEPT !.stage = "started"], ok)
       /\ OwnerGoes(u, IF ok THEN "started" ELSE "failing")
  /\ UNCHANGED <<controller, operation, disk, service, drain, kills, updates>>

\* upgrade_launch: an error does not say whether the job was registered.
LaunchController(u) ==
  /\ owner[u] = "started"
  /\ OwnerGoes(u, "ended")
  /\ \/ Goes(u, "launched") /\ Fine
     \/ controller' \in {controller, [controller EXCEPT ![u].at = "launched"]} /\ Fault
  /\ UNCHANGED <<ledger, operation, disk, service, drain, kills, updates>>

\* Any error of run_selected; it is recorded if the lock is free.
OwnerFails(u) ==
  /\ owner[u] \in {"claimed", "prepared"} /\ Fault /\ OwnerGoes(u, "failing")
  /\ UNCHANGED <<ledger, controller, operation, disk, service, drain, kills, updates>>
RecordFailure(u) ==
  /\ owner[u] = "failing" /\ OwnerGoes(u, "ended")
  /\ IF operation = Nobody /\ Mine(u) /\ ~ledger.named
     THEN /\ staged' = [staged EXCEPT ![u] = {}]
          /\ \E ok \in BOOLEAN : Saves([ledger EXCEPT !.stage = "failed"], ok)
     ELSE UNCHANGED <<ledger, staged, faults>>
  /\ UNCHANGED <<controller, operation, installed, activity, service, drain, kills, updates>>

-----------------------------------------------------------------------------
(* The controller up to the stop                                           *)

\* validate_controller, before the lock and again under it.
Valid(u) == ledger.id = u /\ ledger.stage = "started" /\ ~ledger.named /\ Verified(u)

Validate(u) ==
  /\ At(u) = "launched"
  /\ Goes(u, IF Valid(u) THEN "validated" ELSE "ended")
  /\ UNCHANGED <<ledger, owner, operation, disk, service, drain, counts>>

Enter(u) ==
  /\ At(u) = "validated"
  /\ IF operation = Nobody /\ Valid(u)
     THEN \E ok \in BOOLEAN :
            /\ Saves([ledger EXCEPT !.named = TRUE], ok)
            /\ Goes(u, IF ok THEN "entered" ELSE "ended")
            /\ operation' = IF ok THEN u ELSE Nobody
     ELSE Goes(u, "ended") /\ UNCHANGED <<ledger, operation, faults>>
  /\ UNCHANGED <<owner, disk, service, drain, kills, updates>>

Drain(u) ==
  /\ At(u) = "entered" /\ (Verified(u) => Advance(u, "draining", "draining", "fail_soft"))
  /\ ~Verified(u) => Goes(u, "fail_soft") /\ UNCHANGED <<ledger, faults>>
  /\ UNCHANGED <<owner, operation, disk, service, drain, kills, updates>>

Stop(u) ==
  /\ At(u) = "draining"
  /\ \/ service' = Unregistered /\ Goes(u, "stopped") /\ Fine /\ UNCHANGED drain
     \/ /\ Goes(u, "not_stopped") /\ Fault
        /\ \/ UNCHANGED <<service, drain>>
           \/ service' = Unregistered /\ drain' = TRUE
  /\ UNCHANGED <<ledger, owner, operation, disk, kills, updates>>

\* Stages with nothing to do but to be recorded, and where a failed write leads.
Recorded(u, at, stage, next, otherwise) ==
  /\ At(u) = at /\ Advance(u, stage, next, otherwise)
  /\ UNCHANGED <<owner, operation, disk, service, drain, kills, updates>>
Records(u) ==
  \/ Recorded(u, "not_stopped", "failed", "ending", "ending")
  \/ Recorded(u, "stopped", "stopped", "quiet", "protect")
  \/ Recorded(u, "quiet", "replacing", "replacing", "protect")
  \/ Recorded(u, "leased", "replaced", "replaced", "drop")
  \/ Recorded(u, "replaced", "starting", "starting", "drop")

-----------------------------------------------------------------------------
(* replace_upgrade: two files, one after the other                         *)

Lock(u) ==
  /\ At(u) = "replacing" /\ Free
  /\ IF Verified(u)
     THEN /\ activity' = Locked(u)
          /\ staged' = [staged EXCEPT ![u] = @ \cup Backup]
          /\ Goes(u, "snapshot")
     ELSE Goes(u, "protect") /\ UNCHANGED <<staged, activity>>
  /\ UNCHANGED <<ledger, owner, operation, installed, service, drain, counts>>

\* Busy for as long as the controller retries.
Busy(u) ==
  /\ At(u) = "replacing" /\ ~Free /\ Goes(u, "protect")
  /\ UNCHANGED <<ledger, owner, operation, disk, service, drain, counts>>

Swap(u) ==
  /\ At(u) = "snapshot"
  /\ \/ /\ installed' = [installed EXCEPT !.binary = ledger.to]
        /\ staged' = [staged EXCEPT ![u] = @ \ {"gobstopper"}]
        /\ Goes(u, "swapped") /\ Fine
     \/ Goes(u, "unwind") /\ Fault /\ UNCHANGED <<installed, staged>>
  /\ UNCHANGED <<ledger, owner, operation, activity, service, drain, kills, updates>>

Publish(u) ==
  /\ At(u) = "swapped"
  /\ \/ /\ installed' = [installed EXCEPT !.receipt = ledger.to]
        /\ Goes(u, "converting") /\ Fine /\ activity' = Unlocked
     \/ /\ installed' \in {installed, [installed EXCEPT !.receipt = ledger.to]}
        /\ Goes(u, "unwind") /\ Fault /\ UNCHANGED activity
  /\ UNCHANGED <<ledger, owner, operation, staged, service, drain, kills, updates>>

\* replace puts the old files back, which uses the backup up.
Unwind(u) ==
  \/ /\ At(u) = "unwind"
     /\ installed' = [installed EXCEPT !.binary = ledger.from]
     /\ staged' = [staged EXCEPT ![u] = @ \ {"previous"}]
     /\ Goes(u, "unwind_receipt")
     /\ UNCHANGED <<ledger, owner, operation, activity, service, drain, counts>>
  \/ /\ At(u) = "unwind_receipt"
     /\ installed' = [installed EXCEPT !.receipt = ledger.from]
     /\ staged' = [staged EXCEPT ![u] = @ \ {"old-receipt"}]
     /\ activity' = Unlocked /\ Goes(u, "protect")
     /\ UNCHANGED <<ledger, owner, operation, service, drain, counts>>
UnwindFails(u) ==
  /\ At(u) \in {"unwind", "unwind_receipt"} /\ Fault
  /\ activity' = Unlocked /\ Goes(u, "protect")
  /\ UNCHANGED <<ledger, owner, operation, installed, staged, service, drain, kills, updates>>

\* into_shared gives the lock up before it takes it again.
Convert(u) ==
  /\ At(u) = "converting"
  /\ \/ /\ activity.exclusive = Nobody
        /\ activity' = [activity EXCEPT !.shared = @ \cup {u}] /\ Goes(u, "leased")
     \/ /\ activity.exclusive # Nobody
        /\ \/ Goes(u, "replacing")
           \/ controller' = [controller EXCEPT ![u] = [at |-> "restore", then |-> "protect"]]
        /\ UNCHANGED activity
  /\ UNCHANGED <<ledger, owner, operation, installed, staged, service, drain, counts>>

-----------------------------------------------------------------------------
(* Starting, and what a failure leads to                                   *)

Started(u, well) == service' = [registered |-> TRUE, running |-> installed.binary, well |-> well]

\* The lease is dropped and the old files come back: rollback(replaced).
Drop(u, next) == activity' = Without(u) /\ Goes(u, next)
DropLease(u) ==
  /\ At(u) = "drop" /\ Drop(u, "restore")
  /\ UNCHANGED <<ledger, owner, operation, installed, staged, service, drain, counts>>

StartNew(u) ==
  /\ At(u) = "starting"
  /\ \/ ~drain /\ Started(u, TRUE) /\ Goes(u, "verify") /\ Fine /\ UNCHANGED <<ledger, activity>>
     \/ /\ Fault
        /\ \/ Drop(u, "restore") /\ UNCHANGED <<ledger, service>>   \* not submitted
           \/ /\ ~drain /\ Drop(u, "settle")
              /\ \E well \in BOOLEAN : Started(u, well)   \* not ready, or not recorded
              /\ UNCHANGED ledger
           \/ /\ ~drain /\ service' \in {Unregistered, [Unregistered EXCEPT !.registered = TRUE]}
              /\ ledger' = [ledger EXCEPT !.recovery = TRUE]   \* unacknowledged
              /\ Goes(u, "ending") /\ UNCHANGED activity
  /\ UNCHANGED <<owner, operation, installed, staged, drain, kills, updates>>

Whole(u) ==
  /\ At(u) = "verify"
  /\ IF installed = Pair(ledger.to)
     THEN Advance(u, "healthy", "discard", "fail_hard")
     ELSE Goes(u, "fail_hard") /\ UNCHANGED <<ledger, faults>>
  /\ UNCHANGED <<owner, operation, disk, service, drain, kills, updates>>

Discard(u) ==
  /\ At(u) = "discard" /\ Goes(u, "ending")
  /\ \/ staged' = [staged EXCEPT ![u] = {}] /\ Fine
     \/ UNCHANGED staged /\ Fault
  /\ UNCHANGED <<ledger, owner, operation, installed, activity, service, drain, kills, updates>>

\* stop_after_failed_start: a target that is well is kept, one that answers is
\* stopped, a silent one cannot be proved idle.
Settle(u) ==
  /\ At(u) = "settle"
  /\ IF service.well /\ service.running = ledger.to
     THEN Goes(u, "verify") /\ UNCHANGED service
     ELSE \/ Goes(u, "restore") /\ service' = Unregistered
          \/ Goes(u, "fail_hard") /\ UNCHANGED service
  /\ UNCHANGED <<ledger, owner, operation, disk, drain, counts>>

\* restore_upgrade copies the backup, which stays.
Restorable(u) ==
  /\ {installed.binary, installed.receipt} \subseteq {ledger.from, ledger.to}
  /\ Backup \subseteq staged[u]
Lost(u) == IF controller[u].then = "protect" THEN "protect" ELSE "fail_hard"
Restore(u) ==
  /\ At(u) = "restore"
  /\ IF Free /\ Restorable(u)
     THEN activity' = Locked(u) /\ Goes(u, "restore_binary")
     ELSE Goes(u, Lost(u)) /\ UNCHANGED activity
  /\ UNCHANGED <<ledger, owner, operation, installed, staged, service, drain, counts>>
RestoreFiles(u) ==
  /\ \/ /\ At(u) = "restore_binary" /\ Goes(u, "restore_receipt") /\ UNCHANGED activity
        /\ installed' = [installed EXCEPT !.binary = ledger.from]
     \/ /\ At(u) = "restore_receipt" /\ activity' = Unlocked
        /\ installed' = [installed EXCEPT !.receipt = ledger.from]
        /\ Goes(u, IF controller[u].then = "protect" THEN "protect" ELSE "protected")
  /\ UNCHANGED <<ledger, owner, operation, staged, service, drain, counts>>
RestoreFails(u) ==
  /\ At(u) \in {"restore_binary", "restore_receipt"} /\ Fault
  /\ activity' = Unlocked /\ Goes(u, Lost(u))
  /\ UNCHANGED <<ledger, owner, operation, installed, staged, service, drain, kills, updates>>

\* protect_previous_upgrade.
Protect(u) ==
  /\ At(u) = "protect"
  /\ Goes(u, IF Free /\ installed = Pair(ledger.from) THEN "protected" ELSE "fail_hard")
  /\ UNCHANGED <<ledger, owner, operation, disk, service, drain, counts>>
Shared(u) ==
  /\ At(u) = "protected"
  /\ IF activity.exclusive = Nobody
     THEN activity' = [activity EXCEPT !.shared = @ \cup {u}] /\ Goes(u, "restart")
     ELSE Goes(u, "fail_hard") /\ UNCHANGED activity
  /\ UNCHANGED <<ledger, owner, operation, installed, staged, service, drain, counts>>

\* restart_previous.
Restart(u) ==
  /\ At(u) = "restart"
  /\ \/ ~drain /\ Started(u, TRUE) /\ Goes(u, "restarted") /\ Fine
     \/ /\ Goes(u, "fail_hard") /\ Fault
        /\ UNCHANGED service \/ (~drain /\ Started(u, FALSE))
  /\ UNCHANGED <<ledger, owner, operation, disk, drain, kills, updates>>
Restored(u) ==
  /\ At(u) = "restarted"
  /\ IF installed = Pair(ledger.from)
     THEN Advance(u, "rolled_back", "discard", "ending")
     ELSE Goes(u, "fail_hard") /\ UNCHANGED <<ledger, faults>>
  /\ UNCHANGED <<owner, operation, disk, service, drain, kills, updates>>

\* The last word of controller_inner, and of a rollback that could not restore.
NeedsRecovery(u) == At(u) = "fail_hard"
Fail(u) ==
  /\ At(u) \in {"fail_soft", "fail_hard"} /\ Goes(u, "ending")
  /\ \E ok \in BOOLEAN :
       Saves([ledger EXCEPT !.stage = "failed", !.recovery = NeedsRecovery(u)], ok)
  /\ UNCHANGED <<owner, operation, disk, service, drain, kills, updates>>

\* A process's locks go with it.
Leaves(u) ==
  /\ Goes(u, "ended")
  /\ operation' = IF operation = u THEN Nobody ELSE operation
  /\ activity' = [exclusive |-> IF activity.exclusive = u THEN Nobody ELSE activity.exclusive,
                  shared |-> activity.shared \ {u}]
End(u) ==
  /\ At(u) = "ending" /\ Leaves(u)
  /\ UNCHANGED <<ledger, owner, installed, staged, service, drain, counts>>

-----------------------------------------------------------------------------
(* Deaths, other commands, and the manager                                 *)

Running(u) == At(u) \notin {"absent", "launched", "ended"}
Kill == kills < MaxKills /\ kills' = kills + 1
ControllerDies(u) ==
  /\ At(u) \notin {"absent", "ended"} /\ Kill /\ Leaves(u)
  /\ UNCHANGED <<ledger, owner, installed, staged, service, drain, faults, updates>>
OwnerDies(u) ==
  /\ Alive(u) /\ Kill /\ OwnerGoes(u, "ended")
  /\ UNCHANGED <<ledger, controller, operation, disk, service, drain, faults, updates>>

\* What repair may give up without a trace: nothing was stopped yet.
AnyStage(stage) == stage \notin Verdicts                               \* Mutant
Early(stage) == stage \in {"staging", "started"}

\* reconcile, under the operation lock.
Reconcile ==
  LET u == ledger.id
      dead == IF ledger.named THEN ~Running(u) ELSE ~Alive(u)
      healthy == service.well /\ service.running = ledger.to /\ ledger.stage # "staging"
      early == Early(ledger.stage)
  IN /\ operation = Nobody /\ Pending(ledger) /\ dead
     /\ \/ /\ healthy /\ installed = Pair(ledger.to)
           /\ \E ok \in BOOLEAN :
                /\ Saves([ledger EXCEPT !.stage = "healthy", !.recovery = FALSE], ok)
                /\ staged' = IF ok THEN [staged EXCEPT ![u] = {}] ELSE staged
        \/ /\ ~healthy /\ early
           /\ ledger.stage = "started" /\ ~ledger.named => At(u) \in {"absent", "ended"}
           /\ staged' = [staged EXCEPT ![u] = {}]
           /\ \E ok \in BOOLEAN : Saves([ledger EXCEPT !.stage = "failed"], ok)
        \/ /\ ~healthy /\ ~early /\ ~ledger.recovery
           /\ \E ok \in BOOLEAN :
                Saves([ledger EXCEPT !.stage = "failed", !.recovery = TRUE], ok)
           /\ UNCHANGED staged
     /\ UNCHANGED <<owner, controller, operation, installed, activity, service, drain, kills,
                    updates>>

\* repair past reconcile, install and migrate: ServiceLock::acquire, then the
\* stop's journal is settled and the service restarted.
Operate ==
  /\ operation = Nobody /\ ~Pending(ledger) /\ activity.exclusive = Nobody
  /\ ~service.well
  /\ service' = [registered |-> TRUE, running |-> installed.binary, well |-> TRUE]
  /\ drain' = FALSE
  /\ UNCHANGED <<ledger, owner, controller, operation, disk, counts>>

ServiceDies ==
  /\ service.running # Nobody /\ Kill
  /\ service' = [service EXCEPT !.running = Nobody, !.well = FALSE]
  /\ UNCHANGED <<ledger, owner, controller, operation, disk, drain, faults, updates>>
\* The manager restarts what it has registered; startup takes the activity lock.
Revive ==
  /\ service.registered /\ ~service.well /\ activity.exclusive = Nobody
  /\ service' = [service EXCEPT !.well = TRUE,
                                !.running = IF @ = Nobody THEN installed.binary ELSE @]
  /\ UNCHANGED <<ledger, owner, controller, operation, disk, drain, counts>>

\* A watcher's pass, and an update command, under the activity lock.
Watch ==
  /\ \/ activity.exclusive = Nobody /\ activity' = [activity EXCEPT !.shared = @ \cup {"watcher"}]
     \/ activity' = Without("watcher")
  /\ activity' # activity
  /\ UNCHANGED <<ledger, owner, controller, operation, installed, staged, service, drain, counts>>
Update ==
  /\ \/ Free /\ updates < MaxUpdates /\ updates' = updates + 1 /\ activity' = Locked("update")
        /\ UNCHANGED installed
     \/ /\ activity.exclusive = "update" /\ UNCHANGED updates
        /\ IF installed.binary # "other"
           THEN installed' = [installed EXCEPT !.binary = "other"] /\ UNCHANGED activity
           ELSE installed' = Pair("other") /\ activity' = Unlocked
  /\ UNCHANGED <<ledger, owner, controller, operation, staged, service, drain, faults, kills>>

OwnerStep(u) ==
  Claim(u) \/ Current(u) \/ Prepare(u) \/ Start(u) \/ LaunchController(u) \/ OwnerFails(u)
  \/ RecordFailure(u)
ControllerStep(u) ==
  \/ Validate(u) \/ Enter(u) \/ Drain(u) \/ Stop(u) \/ Records(u)
  \/ Lock(u) \/ Busy(u) \/ Swap(u) \/ Publish(u) \/ Unwind(u) \/ UnwindFails(u) \/ Convert(u)
  \/ DropLease(u) \/ StartNew(u) \/ Whole(u) \/ Discard(u) \/ Settle(u)
  \/ Restore(u) \/ RestoreFiles(u) \/ RestoreFails(u) \/ Protect(u) \/ Shared(u)
  \/ Restart(u) \/ Restored(u) \/ Fail(u) \/ End(u)

UpgradeNext ==
  \/ \E u \in Upgrade : OwnerStep(u) \/ ControllerStep(u) \/ ControllerDies(u) \/ OwnerDies(u)
  \/ Reconcile \/ Operate \/ ServiceDies \/ Revive \/ Watch \/ Update

UpgradeSpec == UpgradeInit /\ [][UpgradeNext]_upgradeVars

-----------------------------------------------------------------------------
(* Properties *)

\* No failure, death or repair ever lets a service start from an executable
\* and a receipt that do not belong together.
NoStartOnMixture ==
  [][service'.running \notin {service.running, Nobody} =>
       installed' = Pair(service'.running)]_upgradeVars

\* A recorded verdict is true of the files and of the service when it is
\* recorded; only "failed" with recovery_required may leave them unsettled.
VerdictIsTrue ==
  [][ledger' # ledger /\ ~ledger'.recovery =>
       /\ ledger'.stage = "healthy" => installed = Pair(ledger'.to) /\ service.registered
       /\ ledger'.stage = "rolled_back" => installed = Pair(ledger'.from) /\ service.registered
       /\ ledger'.stage = "failed" =>
            /\ installed.binary = installed.receipt \/ activity.exclusive = "update"
            /\ ledger'.to \notin {installed.binary, installed.receipt}
            /\ service.registered \/ drain]_upgradeVars

\* Until an upgrade is healthy, every old file it has replaced is in its
\* staging directory.
RecoverySourceKept ==
  ledger.id # Nobody /\ ledger.stage # "healthy" =>
    /\ installed.binary = ledger.to => "previous" \in staged[ledger.id]
    /\ installed.receipt = ledger.to => "old-receipt" \in staged[ledger.id]

\* A service that nobody is going to start again is flagged: its journal stands
\* in the way of every operation but repair.
DownIsFlagged ==
  ~service.registered /\ (\A u \in Upgrade : ~Running(u)) => Pending(ledger) \/ drain

\* Both: what recovery needs is there, and that it is needed is known.
NeverStranded == RecoverySourceKept /\ DownIsFlagged

\* docs/service.md: repair records `failed` "when the controller is gone [...]
\* A later upgrade can proceed after that reconciliation".  A repair of an
\* upgrade that never stopped the service leaves nothing pending.
RepairReleases ==
  [][Reconcile /\ service.well /\ installed = Pair(ledger.from) => ~Pending(ledger')]_upgradeVars
=============================================================================
