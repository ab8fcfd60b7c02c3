------------------------------ MODULE Install ------------------------------
(***************************************************************************)
(* Installing, repairing and removing the managed service (proxy_agent.rs: *)
(* install, repair_locked, recover_pending, uninstall).  A command holds   *)
(* operation.lock and changes, one after the other, the manifest, the      *)
(* startup definition, the job that the manager has loaded from it, and    *)
(* the process.  pending-operation.json says which configuration is being  *)
(* replaced by which, and lets a repair go on from any crash.              *)
(*                                                                         *)
(* A stop has the outline of ServiceStop: what it records and what it      *)
(* refuses.  Configurations differ in their arguments only, so that one    *)
(* process cannot be told from another over HTTP.  Commands die, processes *)
(* exit, the computer restarts, and others edit files and load jobs.       *)
(* Proxies without drain leases, Windows' registration digest and the      *)
(* adoption of unmanaged services are left out.                            *)
(***************************************************************************)
EXTENDS Naturals

CONSTANTS
  Config,    \* configurations
  None,      \* no such file, job, process or record
  Foreign,   \* something that is not ours
  Manager,   \* the managers to consider: "launchd", or "systemd", which knows
             \* a unit, running or not, for as long as its file exists
  MaxFaults  \* bound: deaths, failures, restarts and edits

ASSUME ManagerAssumption == Manager \subseteq {"launchd", "systemd"}
ASSUME FaultAssumption == MaxFaults \in Nat

VARIABLES
  manager,     \* the one that there is
  manifest,    \* manifest.json
  definition,  \* the startup definition
  pending,     \* pending-operation.json
  drain,       \* drain-operation.json
  loaded,      \* the definition that the manager has loaded
  wanted,      \* it keeps a process of that job running
  live,        \* the process that answers on the port
  submitted,   \* a stop command that it has not executed yet
  cmd,         \* the command that holds operation.lock
  confirmed,   \* the configuration that a command last saw healthy
  faults

files == <<manifest, definition, pending>>
manages == <<loaded, wanted, live, submitted>>
installVars == <<manager, files, drain, manages, cmd, confirmed, faults>>

Thing == Config \cup {None, Foreign}
Pending == [previous: Config \cup {None}, candidate: Config]
Drain == [of: Config, stage: {"waiting", "committed", "started", "acknowledged"}]
Places == {"idle", "record", "job", "look", "stop", "commit", "submit", "managing", "clear",
          "define", "manifest", "activate", "settle", "undefine", "unmanifest", "reload"}
Commands ==
  [kind: {"none", "install", "rollback", "recover", "repair", "uninstall"},
   at: Places, of: Config \cup {None}, to: Config \cup {None}, next: Places,
   found: SUBSET {"manifest", "definition", "job"}]

\* A file or job that is missing or foreign is told from every configuration,
\* and a missing record from every record.
ASSUME ValueAssumption ==
  None # Foreign /\ {None, Foreign} \cap Config = {} /\ None \notin Pending \cup Drain

InstallTypeOK ==
  /\ manager \in Manager
  /\ manifest \in Thing /\ definition \in Thing /\ loaded \in Thing /\ live \in Config \cup {None}
  /\ pending \in Pending \cup {None}
  /\ drain \in Drain \cup {None}
  /\ wanted \in BOOLEAN /\ submitted \in BOOLEAN
  /\ cmd \in Commands
  /\ confirmed \in Config \cup {None} /\ faults \in 0..MaxFaults

NoCommand == [kind |-> "none", at |-> "idle", of |-> None, to |-> None, next |-> "idle", found |-> {}]

InstallInit ==
  /\ manager \in Manager
  /\ manifest = None /\ definition = None /\ pending = None /\ drain = None
  /\ loaded = None /\ wanted = FALSE /\ live = None /\ submitted = FALSE
  /\ cmd = NoCommand /\ confirmed = None /\ faults = 0

\* What the manager reports when it is asked about the job.
KnownJob(d) == IF manager = "systemd" /\ loaded = None THEN d ELSE loaded
Registered == KnownJob(definition)

\* verify_owned, where the definition may be missing.
Owned(m) == definition \in {m, None} /\ Registered \in {m, None}

Goto(place) == cmd' = [cmd EXCEPT !.at = place]
Return == cmd' = NoCommand
FoundForeign ==
  {f \in {"manifest", "definition", "job"} :
     \/ f = "manifest" /\ manifest = Foreign
     \/ f = "definition" /\ definition = Foreign
     \/ f = "job" /\ loaded = Foreign}
Begin(kind, place, to) ==
  cmd' = [NoCommand EXCEPT !.kind = kind, !.at = place, !.of = manifest, !.to = to,
                      !.found = FoundForeign]
StopThen(of, place) == cmd' = [cmd EXCEPT !.at = "stop", !.of = of, !.next = place]

-----------------------------------------------------------------------------
(* Commands begin                                                          *)

NothingRequired == TRUE                                                \* Mutant
NothingPending == pending = None

\* A first installation, or install --replace, or the same one again.
StartInstall(c) ==
  /\ cmd = NoCommand /\ NothingPending /\ manifest # Foreign
  /\ \/ manifest = None /\ definition = None /\ Registered = None /\ live = None
        /\ Begin("install", "record", c)
     \/ manifest \in Config /\ Owned(manifest) /\ c # manifest /\ Begin("install", "record", c)
     \/ manifest = c /\ Owned(c) /\ Begin("repair", "look", c)
  /\ UNCHANGED <<manager, files, drain, manages, confirmed, faults>>

StartRepair ==
  /\ cmd = NoCommand /\ pending = None /\ manifest \in Config /\ Owned(manifest)
  /\ Begin("repair", "look", manifest)
  /\ UNCHANGED <<manager, files, drain, manages, confirmed, faults>>

StartUninstall ==
  /\ cmd = NoCommand /\ pending = None /\ manifest \in Config /\ Owned(manifest)
  /\ cmd' = [NoCommand EXCEPT !.kind = "uninstall", !.at = "stop", !.of = manifest,
                         !.next = "undefine", !.found = FoundForeign]
  /\ UNCHANGED <<manager, files, drain, manages, confirmed, faults>>

Recorded == {pending.previous, pending.candidate}
Restored == IF pending.previous # None THEN pending.previous ELSE pending.candidate

AnyFiles == TRUE                                                       \* Mutant
\* recover_pending touches nothing unless the files are the recorded ones.
RecordedFiles == manifest \in Recorded /\ definition \in Recorded \cup {None}

StartRecovery ==
  /\ cmd = NoCommand /\ pending # None
  /\ RecordedFiles
  /\ drain # None => drain.of \in Recorded
  /\ Begin("recover", "job", Restored)
  /\ UNCHANGED <<manager, files, drain, manages, confirmed, faults>>

-----------------------------------------------------------------------------
(* stop                                                                    *)

StopDone == cmd' = IF cmd.next = "idle" THEN NoCommand ELSE [cmd EXCEPT !.at = cmd.next]
Draining(stages) == drain # None /\ drain.of = cmd.of /\ drain.stage \in stages
MayStop == drain = None \/ Draining({"waiting", "committed"})
Absent == live = None /\ (Draining({"acknowledged"}) \/ (MayStop /\ Registered = None))
Responsive == MayStop /\ Registered = cmd.of /\ live # None

\* An acknowledged stop, or no job, and the port is free.
NothingToStop ==
  /\ cmd.at = "stop" /\ Absent
  /\ drain' = None /\ StopDone
  /\ UNCHANGED <<manager, files, manages, confirmed, faults>>

\* The process answers: it is drained under a record, or it has been.
BeginStop ==
  /\ cmd.at = "stop" /\ Responsive
  /\ \/ Draining({"committed"}) /\ Goto("submit") /\ UNCHANGED drain
     \/ /\ ~Draining({"committed"}) /\ Goto("commit")
        /\ drain' = [of |-> cmd.of, stage |-> "waiting"]
  /\ UNCHANGED <<manager, files, manages, confirmed, faults>>

CommitDrain ==
  /\ cmd.at = "commit" /\ live # None /\ Owned(cmd.of)
  /\ drain' = [drain EXCEPT !.stage = "committed"]
  /\ Goto("submit")
  /\ UNCHANGED <<manager, files, manages, confirmed, faults>>

SubmitStop ==
  /\ cmd.at = "submit" /\ live # None /\ Registered = cmd.of
  /\ drain' = [drain EXCEPT !.stage = "started"]
  /\ submitted' = TRUE
  /\ Goto("managing")
  /\ UNCHANGED <<manager, files, loaded, wanted, live, confirmed, faults>>

ManagerStops ==
  /\ submitted
  /\ submitted' = FALSE /\ wanted' = FALSE /\ live' = None
  /\ loaded' = IF manager = "launchd" THEN None ELSE loaded
  /\ UNCHANGED <<manager, files, drain, cmd, confirmed, faults>>

Acknowledge ==
  /\ cmd.at = "managing" /\ ~submitted
  /\ drain' = [drain EXCEPT !.stage = "acknowledged"]
  /\ Goto("clear")
  /\ UNCHANGED <<manager, files, manages, confirmed, faults>>

ClearDrain ==
  /\ cmd.at = "clear" /\ live = None
  /\ drain' = None /\ StopDone
  /\ UNCHANGED <<manager, files, manages, confirmed, faults>>

-----------------------------------------------------------------------------
(* repair_locked and recover_pending                                       *)

\* Resume the recorded stop; else restore the definition and look around.
LookDrained ==
  /\ cmd.at = "look" /\ drain # None
  /\ StopThen(cmd.to, "activate")
  /\ UNCHANGED <<manager, files, drain, manages, confirmed, faults>>

Redefined == IF definition = None THEN cmd.to ELSE definition

Look ==
  /\ cmd.at = "look" /\ drain = None
  /\ definition' = Redefined
  /\ LET known == KnownJob(definition') # None
     IN \/ live # None /\ known /\ Return /\ confirmed' = cmd.to
        \/ live # None /\ ~known /\ Return /\ UNCHANGED confirmed
        \/ live = None /\ ~known /\ Goto("activate") /\ UNCHANGED confirmed
        \/ known /\ StopThen(cmd.to, "activate") /\ UNCHANGED confirmed
  /\ UNCHANGED <<manager, manifest, pending, drain, manages, faults>>

\* First what the drain's record is about, then the job that is loaded.
LookForJob ==
  /\ cmd.at = "job"
  /\ \/ drain # None /\ StopThen(drain.of, "job")
     \/ drain = None /\ Registered \in Recorded \ {None} /\ StopThen(Registered, "define")
     \/ drain = None /\ Registered = None /\ Goto("define")
  /\ UNCHANGED <<manager, files, drain, manages, confirmed, faults>>

-----------------------------------------------------------------------------
(* The writes                                                              *)

NoPredecessor == None                                                  \* Mutant
Predecessor == cmd.of

WritePending ==
  /\ cmd.at = "record"
  /\ pending' = [previous |-> Predecessor, candidate |-> cmd.to]
  /\ IF cmd.of = None THEN Goto("define") ELSE StopThen(cmd.of, "define")
  /\ UNCHANGED <<manager, manifest, definition, drain, manages, confirmed, faults>>

Define ==
  /\ cmd.at = "define" /\ live = None
  /\ definition' = cmd.to
  /\ Goto("manifest")
  /\ UNCHANGED <<manager, manifest, pending, drain, manages, confirmed, faults>>

WriteManifest ==
  /\ cmd.at = "manifest"
  /\ manifest' = cmd.to
  /\ Goto("activate")
  /\ UNCHANGED <<manager, definition, pending, drain, manages, confirmed, faults>>

\* launchd loads a label once and needs its file.
CanLoad == drain = None /\ definition # None /\ (manager = "launchd" => loaded = None)

\* The manager starts the process, and it is soon healthy.
Activate ==
  /\ cmd.at = "activate" /\ CanLoad
  /\ definition \in Config /\ manifest \in Config
  /\ loaded' = definition /\ wanted' = TRUE
  /\ live' = IF live = None THEN definition ELSE live
  /\ confirmed' = cmd.to
  /\ Goto("settle")
  /\ UNCHANGED <<manager, files, drain, submitted, faults>>

StillPending == pending

\* It is not, or the manager fails.  A failed installation is stopped, if it
\* can be, and its predecessor restored; other commands give up.
ActivationFails ==
  /\ cmd.at = "activate"
  /\ \/ CanLoad /\ faults < MaxFaults /\ faults' = faults + 1
        /\ loaded' = definition /\ wanted' = TRUE
     \/ CanLoad /\ faults < MaxFaults /\ faults' = faults + 1 /\ UNCHANGED <<loaded, wanted>>
     \/ ~CanLoad /\ UNCHANGED <<loaded, wanted, faults>>
     \/ CanLoad /\ Foreign \in {definition, manifest}
        /\ loaded' = definition /\ wanted' = TRUE /\ UNCHANGED faults
  /\ cmd' = IF cmd.kind = "install"
            THEN [cmd EXCEPT !.kind = "rollback", !.at = "stop", !.of = cmd.to,
                    !.to = pending.previous,
                    !.next = IF pending.previous = None THEN "idle" ELSE "define"]
            ELSE NoCommand
  /\ pending' = StillPending
  /\ UNCHANGED <<manager, manifest, definition, drain, live, submitted, confirmed>>

Settle ==
  /\ cmd.at = "settle"
  /\ pending' = None
  /\ Return
  /\ UNCHANGED <<manager, manifest, definition, drain, manages, confirmed, faults>>

Undefine ==
  /\ cmd.at = "undefine"
  /\ definition' = None /\ confirmed' = None
  /\ Goto("unmanifest")
  /\ UNCHANGED <<manager, manifest, pending, drain, manages, faults>>

Unmanifest ==
  /\ cmd.at = "unmanifest"
  /\ manifest' = None
  /\ Goto("reload")
  /\ UNCHANGED <<manager, definition, pending, drain, manages, confirmed, faults>>

Reload ==
  /\ cmd.at = "reload"
  /\ loaded' = IF wanted THEN loaded ELSE None
  /\ Return
  /\ UNCHANGED <<manager, files, drain, wanted, live, submitted, confirmed, faults>>

-----------------------------------------------------------------------------
(* What ends a command early                                               *)

\* It cannot stop what is there, or another one's process holds the port.
CannotGoOn ==
  \/ cmd.at = "stop" /\ ~Absent /\ ~Responsive
  \/ cmd.at = "commit" /\ (live = None \/ ~Owned(cmd.of))
  \/ cmd.at = "submit" /\ (live = None \/ Registered # cmd.of)
  \/ cmd.at = "job" /\ drain = None /\ Registered \notin Recorded \cup {None}
  \/ cmd.at = "define" /\ live # None

\* A lease that is only waiting is released, if its process answers.
Bail ==
  /\ CannotGoOn
  /\ Return
  /\ \/ UNCHANGED drain
     \/ cmd.at = "commit" /\ live # None /\ drain' = None
  /\ UNCHANGED <<manager, files, manages, confirmed, faults>>

Fault == faults < MaxFaults /\ faults' = faults + 1

\* It dies, times out or meets an error.
Die ==
  /\ cmd # NoCommand /\ Fault
  /\ Return
  /\ UNCHANGED <<manager, files, drain, manages, confirmed>>

-----------------------------------------------------------------------------
(* The manager, the computer and its users                                 *)

\* check_startup_drain: a manifest, and no stop beyond waiting.
MayServe == manifest \in Config /\ (drain = None \/ drain = [of |-> manifest, stage |-> "waiting"])

Launch ==
  /\ wanted /\ live = None /\ loaded \in Config /\ MayServe
  /\ live' = loaded
  /\ UNCHANGED <<manager, files, drain, loaded, wanted, submitted, cmd, confirmed, faults>>

\* An inactive unit is forgotten, and read again when it is asked for.
ManagerForgets ==
  /\ manager = "systemd" /\ ~wanted /\ live = None /\ loaded \in Config
  /\ loaded' = None
  /\ UNCHANGED <<manager, files, drain, wanted, live, submitted, cmd, confirmed, faults>>

Exit ==
  /\ live # None /\ Fault
  /\ live' = None
  /\ UNCHANGED <<manager, files, drain, loaded, wanted, submitted, cmd, confirmed>>

\* launchd loads what it finds at login; systemd what is enabled.
Reboot ==
  /\ Fault
  /\ cmd' = NoCommand /\ live' = None /\ submitted' = FALSE
  /\ \/ manager = "launchd" /\ loaded' = definition /\ wanted' = (definition # None)
     \/ manager = "systemd" /\ wanted' = (wanted /\ definition # None)
        /\ loaded' = IF wanted' THEN definition ELSE None
  /\ UNCHANGED <<manager, files, drain, confirmed>>

\* Someone edits the manifest or the definition, deletes it, or loads a job.
Edit ==
  /\ Fault
  /\ \/ manifest # None /\ manifest' = Foreign /\ UNCHANGED <<definition, loaded, wanted, live>>
     \/ definition # None /\ definition' = Foreign /\ UNCHANGED <<manifest, loaded, wanted, live>>
     \/ definition \in Config /\ definition' = None /\ UNCHANGED <<manifest, loaded, wanted, live>>
     \/ loaded' = Foreign /\ wanted' = TRUE /\ live' = None /\ UNCHANGED <<manifest, definition>>
  /\ UNCHANGED <<manager, pending, drain, submitted, cmd, confirmed>>

Command ==
  \/ NothingToStop \/ BeginStop \/ CommitDrain \/ SubmitStop \/ Acknowledge \/ ClearDrain
  \/ LookDrained \/ Look \/ LookForJob \/ WritePending \/ Define \/ WriteManifest \/ Activate
  \/ Settle \/ Undefine \/ Unmanifest \/ Reload \/ Bail

InstallNext ==
  \/ \E c \in Config : StartInstall(c)
  \/ StartRepair \/ StartUninstall \/ StartRecovery
  \/ Command \/ ActivationFails \/ Die
  \/ ManagerStops \/ Launch \/ ManagerForgets \/ Exit \/ Reboot \/ Edit

\* Commands go on until they end, the manager does what it is for, and the
\* user repairs what needs it.  Nobody needs to install or to remove.
InstallFairness ==
  /\ WF_installVars(Command \/ ActivationFails)
  /\ WF_installVars(StartRepair \/ StartRecovery)
  /\ WF_installVars(ManagerStops) /\ WF_installVars(Launch)

InstallSpec == InstallInit /\ [][InstallNext]_installVars /\ InstallFairness

-----------------------------------------------------------------------------
(* Properties *)

\* Wherever commands die, what they leave is explained by a record: files,
\* job and unfinished stop belong to the replacement that is pending, or all
\* to the one configuration of the manifest.  Repair relies on it; what it
\* cannot explain it takes for somebody else's and will not touch.
RecordExplains ==
  cmd = NoCommand =>
    LET known == IF pending # None THEN Recorded ELSE {manifest}
    IN \/ manifest = Foreign
       \/ /\ manifest \in known
          /\ definition \in known \cup {None, Foreign}
          /\ wanted /\ MayServe => loaded \in known \cup {Foreign}
          /\ drain # None => drain.of \in known

\* The configuration that was last seen to work is not lost before another
\* one works, or until the service is removed.
ConfirmedIsKept ==
  confirmed # None /\ manifest # Foreign =>
    confirmed = manifest \/ (pending # None /\ confirmed \in Recorded)

\* Both: what the record says is enough to repair from.
RecordIsTrue == RecordExplains /\ ConfirmedIsKept

\* docs/service.md, "It leaves externally edited files and unrelated jobs
\* intact": what was not ours when a command began is so until it ends, unless
\* a stop that was submitted before is executed only now.
ForeignIsLeft ==
  [][cmd # NoCommand /\ faults' = faults =>
       /\ "manifest" \in cmd.found => manifest' = manifest
       /\ "definition" \in cmd.found => definition' = definition
       /\ "job" \in cmd.found /\ ~submitted => loaded' = loaded]_installVars

Whole ==
  pending = None /\ (manifest = None \/ (definition = manifest /\ live = manifest))

\* What docs/service.md keeps for an investigation: an edited file or job, a
\* stop whose outcome is not known or that was not of this job, and a loaded
\* job whose process refuses to start, because of a record or of a manifest
\* that is not there yet.  And what it does not speak of: a job that a restart
\* of the computer loaded again under an acknowledged stop outlives the
\* rewriting of its definition, and no repair recognises it then.
NeedsInvestigation ==
  \/ Foreign \in {manifest, definition, loaded}
  \/ drain # None /\ (drain.stage = "started" \/ loaded \notin {drain.of, None})
  \/ wanted /\ live = None /\ ~MayServe
  \/ live # None /\ definition \notin {live, None}

\* Repeated repairs bring the service of the manifest up again.
RepairConverges == []<>Whole \/ <>[]NeedsInvestigation
LaunchdRepairConverges == manager = "launchd" => RepairConverges
=============================================================================
