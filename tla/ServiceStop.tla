----------------------------- MODULE ServiceStop -----------------------------
(***************************************************************************)
(* Stopping and replacing the managed proxy: the controllers (proxy        *)
(* install --replace, repair, uninstall, upgrade) that drain it, their     *)
(* durable journal, the operating system's service manager, and the        *)
(* processes the manager starts (proxy_agent.rs, drain lease protocol 1).  *)
(*                                                                         *)
(* A cross-process lock admits one controller at a time, but a controller  *)
(* may die at any line, and then its last request to the proxy and the     *)
(* manager command it spawned are still on their way.  Admission is the    *)
(* state of the process that is serving; another process starts afresh.    *)
(***************************************************************************)
EXTENDS Integers, FiniteSets

CONSTANTS
  MaxRuns,   \* controllers that ever take the lock (bounds the model)
  MaxProcs,  \* proxy processes the manager ever starts (bounds the model)
  NoOp,      \* no drain-operation.json
  NoMsg,     \* no request or no reply
  NoLease, TTL, MinRoom, MaxWait, MaxEpoch, Slots

ASSUME BoundsAssumption == MaxRuns \in Nat \ {0} /\ MaxProcs \in Nat \ {0}

VARIABLES
  epoch, legacy, lease, inference,  \* of the serving process
  proc,        \* the newest process: its instance and how far it came
  registered,  \* the manager has the job loaded and restarts it
  journal,     \* drain-operation.json
  ctl,         \* the controller holding the service lock
  msgs,        \* control requests sent and not yet handled
  stops        \* controllers whose stop command the manager may yet execute

admission == <<epoch, legacy, lease, inference>>
vars == <<epoch, legacy, lease, inference, proc, registered, journal, ctl, msgs, stops>>

Runs == 1..MaxRuns
A == INSTANCE Admission WITH Owner <- Runs

Stage == {"waiting", "commit_intent", "committed", "stop_started", "stop_acknowledged"}

\* A drain operation names the process, the lease and how far it got.
Op == [id: 1..MaxProcs, owner: Runs, epoch: 1..MaxEpoch, stage: Stage]

Message == [from: Runs, action: A!Action, id: 1..MaxProcs, owner: Runs, epoch: 1..MaxEpoch]
Reply == [phase: {"open", "waiting", "committed", "legacy_idle"}, active: 0..Slots]

ASSUME AdmissionAssumption ==
  /\ TTL \in Nat \ {0} /\ MaxWait \in Nat \ {0} /\ MinRoom \in 1..TTL
  /\ MaxEpoch \in Nat /\ Slots \in Nat \ {0}
  /\ NoLease \notin A!Lease
ASSUME AbsenceAssumption == NoOp \notin Op /\ NoMsg \notin Reply

\* Where the controller is: the request whose reply it awaits, if any, and
\* whether its deadline has passed.
Place == {"idle", "load", "lookup", "status", "first", "loop", "renewing",
          "committing", "releasing", "recheck", "reinspect", "managing",
          "port", "stopped", "timed_out"}
Awaiting == {"first", "renewing", "committing", "releasing", "reinspect"}

TypeOK ==
  /\ A!TypeOK
  /\ proc \in [id: 0..MaxProcs, at: {"down", "starting", "serving"}]
  /\ registered \in BOOLEAN
  /\ journal \in Op \union {NoOp}
  /\ ctl \in [run: 0..MaxRuns, at: Place, op: Op \union {NoOp},
              reply: Reply \union {NoMsg}, late: BOOLEAN]
  /\ msgs \in SUBSET Message
  /\ stops \in SUBSET Runs

Init ==
  /\ A!Init
  /\ proc = [id |-> 0, at |-> "down"]
  /\ registered = TRUE
  /\ journal = NoOp
  /\ ctl = [run |-> 0, at |-> "idle", op |-> NoOp, reply |-> NoMsg, late |-> FALSE]
  /\ msgs = {}
  /\ stops = {}

Serving == proc.at = "serving"

RecordedStage == IF journal = NoOp THEN "none" ELSE journal.stage
RecordedProcess == IF journal = NoOp THEN 0 ELSE journal.id

-----------------------------------------------------------------------------
(* The process and the service manager.                                    *)

\* The manager starts a process: after activate, at login, or because the
\* last one exited.  It binds the port before it reads the journal.
Launch ==
  /\ registered
  /\ proc.at = "down"
  /\ proc.id < MaxProcs
  /\ proc' = [id |-> proc.id + 1, at |-> "starting"]
  /\ UNCHANGED <<admission, registered, journal, ctl, msgs, stops>>

\* Mutant: a startup check that only fears a submitted stop.
StartupAllowedUnlessStopped == RecordedStage # "stop_started"

\* check_startup_journal: any stop that got past waiting forbids serving.
StartupAllowed == RecordedStage \in {"none", "waiting"}

\* The check passes, and admission starts open; or the process exits.
StartupCheck ==
  /\ proc.at = "starting"
  /\ proc' = [proc EXCEPT !.at = IF StartupAllowed THEN "serving" ELSE "down"]
  /\ msgs' = IF StartupAllowed THEN msgs ELSE {}
  /\ UNCHANGED <<admission, registered, journal, ctl, stops>>

\* A process takes its admission state and its connections with it.
Down ==
  /\ proc' = [proc EXCEPT !.at = "down"]
  /\ epoch' = 0 /\ legacy' = FALSE /\ lease' = NoLease /\ inference' = 0
  /\ msgs' = {}

Exit ==
  /\ proc.at # "down"
  /\ Down
  /\ UNCHANGED <<registered, journal, ctl, stops>>

\* The manager executes a stop somebody submitted, however long ago.  The
\* job is then gone (macOS) or still loaded (Linux, Windows).
ManagerStop ==
  \E run \in stops :
    /\ stops' = stops \ {run}
    /\ registered' \in BOOLEAN
    /\ Down
    /\ UNCHANGED <<journal, ctl>>

\* A reboot and login: only files survive, the startup definition among them.
Reboot ==
  /\ Down
  /\ registered' = TRUE
  /\ stops' = {}
  /\ ctl' = [ctl EXCEPT !.at = "idle", !.op = NoOp, !.reply = NoMsg]
  /\ UNCHANGED journal

AdmitOrFinish ==
  /\ Serving
  /\ A!Admit \/ A!Finish
  /\ UNCHANGED <<proc, registered, journal, ctl, msgs, stops>>

Tick ==
  /\ Serving
  /\ A!Tick
  /\ UNCHANGED <<proc, registered, journal, ctl, msgs, stops>>

-----------------------------------------------------------------------------
(* Control requests.                                                       *)

\* The controller sends a request; nobody listening refuses the connection.
Send(action, op) ==
  LET m == [from |-> ctl.run, action |-> action, id |-> op.id, owner |-> op.owner,
            epoch |-> op.epoch]
  IN msgs' = IF proc.at = "down" THEN msgs ELSE msgs \union {m}

\* Admission::control.  An acquire travels with the epoch before the one
\* the controller means to be given.
Accepted(m) ==
  \/ m.action = "acquire" /\ A!Acquire(m.owner, m.epoch - 1, MaxWait)
  \/ m.action = "acquire" /\ A!AcquireAgain(m.owner, m.epoch - 1)
  \/ m.action = "inspect" /\ A!Inspect(m.owner, m.epoch)
  \/ m.action = "renew" /\ A!Renew(m.owner, m.epoch)
  \/ m.action = "release" /\ A!Release(m.owner, m.epoch)
  \/ m.action = "commit" /\ A!Commit(m.owner, m.epoch)
  \/ m.action = "commit" /\ A!CommitAgain(m.owner, m.epoch)
Refused(m) ==
  A!Refuse(m.action, m.owner, IF m.action = "acquire" THEN m.epoch - 1 ELSE m.epoch)

\* The process incarnation is compared before admission is touched.
SameInstance(m) == m.id = proc.id

Expects(m) == ctl.run = m.from /\ ctl.at \in Awaiting /\ ctl.reply = NoMsg

\* Whether or not its sender still listens, a request is handled once.
Handle(m) ==
  /\ Serving
  /\ msgs' = msgs \ {m}
  /\ \/ /\ SameInstance(m)
        /\ Accepted(m)
        /\ ctl' = IF Expects(m)
                  THEN [ctl EXCEPT !.reply = [phase |-> A!Phase', active |-> inference]]
                  ELSE ctl
     \/ /\ SameInstance(m)
        /\ Refused(m)
        /\ UNCHANGED ctl
     \/ /\ ~SameInstance(m)
        /\ UNCHANGED <<admission, ctl>>
  /\ UNCHANGED <<proc, registered, journal, stops>>

-----------------------------------------------------------------------------
(* The controller: stop_until and acquire_committed_drain_until.           *)

Goto(place) == ctl' = [ctl EXCEPT !.at = place, !.reply = NoMsg]
GotoWith(place, op) == ctl' = [ctl EXCEPT !.at = place, !.op = op, !.reply = NoMsg]
environment == <<admission, proc, registered, stops>>

TakeLock ==
  /\ ctl.at = "idle"
  /\ ctl.run < MaxRuns
  /\ ctl' = [ctl EXCEPT !.run = @ + 1, !.at = "load", !.late = FALSE]
  /\ UNCHANGED <<environment, journal, msgs>>

\* An error return or death of the controller, anywhere: the lock is free,
\* what it wrote and sent remains.
GiveUp ==
  /\ ctl.at # "idle"
  /\ GotoWith("idle", NoOp)
  /\ UNCHANGED <<environment, journal, msgs>>

DeadlinePasses ==
  /\ ctl.at # "idle" /\ ~ctl.late
  /\ ctl' = [ctl EXCEPT !.late = TRUE]
  /\ UNCHANGED <<environment, journal, msgs>>

\* load_drain: a stop without an acknowledgement is never retried.
MayContinue == RecordedStage # "stop_started"

LoadJournal ==
  /\ ctl.at = "load"
  /\ MayContinue
  /\ Goto(IF RecordedStage = "stop_acknowledged" THEN "port" ELSE "lookup")
  /\ UNCHANGED <<environment, journal, msgs>>

\* Without a registered job a free port is proof enough.
LookupJob ==
  /\ ctl.at = "lookup"
  /\ \/ registered /\ Goto("status") /\ UNCHANGED journal
     \/ ~registered /\ proc.at = "down" /\ Goto("stopped") /\ journal' = NoOp
  /\ UNCHANGED <<environment, msgs>>

\* The operation to continue: the recorded one if it is about this very
\* process, else a new one under a new token.
SameProcess == RecordedProcess = proc.id
OpFor(newEpoch) ==
  IF SameProcess
  THEN journal
  ELSE [id |-> proc.id, owner |-> ctl.run, epoch |-> newEpoch, stage |-> "waiting"]

EpochToCome == epoch + 1

\* An open process is asked for a new lease, under a durable record of it.
ReadStatus ==
  /\ ctl.at = "status"
  /\ Serving
  /\ A!Phase = "open"
  /\ A!Observe
  /\ epoch < MaxEpoch
  /\ LET op == [OpFor(EpochToCome) EXCEPT !.epoch = EpochToCome, !.stage = "waiting"]
     IN journal' = op /\ Send("acquire", op) /\ GotoWith("first", op)
  /\ UNCHANGED <<proc, registered, stops>>

\* A fenced one may be fenced by this operation: its private token will tell.
ReadStatusFenced ==
  /\ ctl.at = "status"
  /\ Serving
  /\ A!Phase # "open"
  /\ A!Observe
  /\ SameProcess \/ epoch < MaxEpoch
  /\ Send("inspect", OpFor(EpochToCome))
  /\ GotoWith("first", OpFor(EpochToCome))
  /\ UNCHANGED <<proc, registered, journal, stops>>

\* A first reply, or the reply to a renewal or a commit, is looked at again.
Replied ==
  /\ ctl.at \in {"first", "renewing", "committing"}
  /\ ctl.reply # NoMsg
  /\ ctl' = [ctl EXCEPT !.at = "loop"]
  /\ UNCHANGED <<environment, journal, msgs>>

\* The loop of acquire_committed_drain_until.
SawCommitted ==
  /\ ctl.at = "loop"
  /\ ctl.reply.phase = "committed" /\ ctl.reply.active = 0
  /\ journal' = [ctl.op EXCEPT !.stage = "committed"]
  /\ GotoWith("recheck", [ctl.op EXCEPT !.stage = "committed"])
  /\ UNCHANGED <<environment, msgs>>

SawIdle ==
  /\ ctl.at = "loop" /\ ~ctl.late
  /\ ctl.reply.phase = "waiting" /\ ctl.reply.active = 0
  /\ LET op == [ctl.op EXCEPT !.stage = "commit_intent"]
     IN journal' = op /\ Send("commit", op) /\ GotoWith("committing", op)
  /\ UNCHANGED environment

SawBusy ==
  /\ ctl.at = "loop" /\ ~ctl.late
  /\ ctl.reply.phase = "waiting" /\ ctl.reply.active # 0
  /\ Send("renew", ctl.op)
  /\ Goto("renewing")
  /\ UNCHANGED <<environment, journal>>

\* The drain deadline passed in the loop.  The error path releases only
\* while time is left, and there is none.
TimedOut ==
  /\ ctl.at = "loop" /\ ctl.late
  /\ ctl.reply.phase = "waiting"
  /\ Goto("timed_out")
  /\ UNCHANGED <<environment, journal, msgs>>

\* A failed verification, renewal or commit: a lease that is still only
\* waiting is released, one whose commit may have arrived is left alone.
LoopFails ==
  /\ ctl.at \in {"loop", "renewing", "committing"}
  /\ \/ /\ ctl.op.stage = "waiting" /\ ~ctl.late
        /\ Send("release", ctl.op)
        /\ Goto("releasing")
     \/ /\ ctl.op.stage # "waiting" \/ ctl.late
        /\ GotoWith("idle", NoOp)
        /\ UNCHANGED msgs
  /\ UNCHANGED <<environment, journal>>

\* clear_drain, once the release is acknowledged.
Released ==
  /\ ctl.at = "releasing" /\ ctl.reply # NoMsg
  /\ journal' = NoOp
  /\ GotoWith("idle", NoOp)
  /\ UNCHANGED <<environment, msgs>>

\* stop_until goes on: the process must still be the one that committed,
\* and it must say so itself.
Recheck ==
  /\ ctl.at = "recheck"
  /\ Serving /\ proc.id = ctl.op.id
  /\ A!Observe
  /\ Send("inspect", ctl.op)
  /\ Goto("reinspect")
  /\ UNCHANGED <<proc, registered, journal, stops>>

\* The stop is recorded as started, then the manager is asked.
SubmitStop ==
  /\ ctl.at = "reinspect"
  /\ ctl.reply # NoMsg
  /\ ctl.reply.phase = "committed" /\ ctl.reply.active = 0
  /\ journal' = [ctl.op EXCEPT !.stage = "stop_started"]
  /\ stops' = stops \union {ctl.run}
  /\ Goto("managing")
  /\ UNCHANGED <<admission, proc, registered, msgs>>

\* The manager reports success after it has executed the stop.
StopAcknowledged ==
  /\ ctl.at = "managing"
  /\ ctl.run \notin stops
  /\ journal' = [ctl.op EXCEPT !.stage = "stop_acknowledged"]
  /\ Goto("port")
  /\ UNCHANGED <<environment, msgs>>

\* stopped_port_until, then clear_drain.
PortFree ==
  /\ ctl.at = "port"
  /\ proc.at = "down"
  /\ journal' = NoOp
  /\ Goto("stopped")
  /\ UNCHANGED <<environment, msgs>>

\* activate, once require_clear_drain agrees; uninstall just returns.
Activate ==
  /\ ctl.at = "stopped"
  /\ journal = NoOp
  /\ registered' = TRUE
  /\ GotoWith("idle", NoOp)
  /\ UNCHANGED <<admission, proc, journal, msgs, stops>>

-----------------------------------------------------------------------------
Controller ==
  \/ LoadJournal \/ LookupJob \/ ReadStatus \/ ReadStatusFenced \/ Replied
  \/ SawCommitted \/ SawIdle \/ SawBusy \/ TimedOut \/ LoopFails \/ Released
  \/ Recheck \/ SubmitStop \/ StopAcknowledged \/ PortFree \/ Activate

Next ==
  \/ Launch \/ StartupCheck \/ Exit \/ ManagerStop \/ Reboot
  \/ AdmitOrFinish \/ Tick
  \/ \E m \in msgs : Handle(m)
  \/ TakeLock \/ GiveUp \/ DeadlinePasses
  \/ Controller

Spec == Init /\ [][Next]_vars

-----------------------------------------------------------------------------
(* Properties *)

\* A stop that may still be executed can only meet a process that refuses
\* inference and has none, so it interrupts nobody, however late it comes
\* and whoever restarted what in between.
PendingStopIsHarmless ==
  stops # {} /\ Serving => A!Committed /\ inference = 0

\* No process serves under a stop recorded for another one.
NoServiceUnderForeignStop ==
  Serving /\ RecordedStage \in {"committed", "stop_started", "stop_acknowledged"}
    => journal.id = proc.id

\* Both: a stop that was asked for never meets a request, nor a process it was
\* not meant for.
StopsAreHarmless == PendingStopIsHarmless /\ NoServiceUnderForeignStop
=============================================================================
