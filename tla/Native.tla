------------------------------- MODULE Native -------------------------------
(***************************************************************************)
(* Asking a provider to compact a session of its own                       *)
(* (native_operations.rs, and its callers cmd_apply and cmd_watch in       *)
(* main.rs).  The request has effects that cannot be undone or repeated,   *)
(* and its outcome may be lost; so each target session has an append-only  *)
(* journal, written before the request is sent, and a request whose        *)
(* outcome is not known fences all later ones.                             *)
(*                                                                         *)
(* Several processes, each a pass of a watcher or an apply command, share  *)
(* the journals.  A call may fail, a process may be killed at any step,    *)
(* and the machine may lose power; what the provider was given goes on     *)
(* without them.  An append reaches the file whole and synced, or whole    *)
(* but not synced, or in part, or not at all.                              *)
(*                                                                         *)
(* Left out: byte limits, identity checks of names and homes.              *)
(***************************************************************************)
EXTENDS Integers, Sequences, FiniteSets, SequencesExt

CONSTANTS
  Process,     \* watchers and apply commands
  Target,      \* sessions with their homes
  Codex,       \* targets whose provider gives evidence of a turn
  Admitted,    \* targets that admit_activation lets through
  MaxTargets,  \* MAX_TARGETS
  MaxOps,      \* bound: operations per target
  MaxFaults,   \* bound: failed appends, kills and changed binaries
  MaxCuts,  \* bound: power losses
  Nobody

ASSUME TargetAssumption == Codex \subseteq Target /\ Admitted \subseteq Target
ASSUME BoundAssumption == {MaxTargets, MaxOps, MaxFaults, MaxCuts} \subseteq Nat
ASSUME NobodyAssumption == Nobody \notin Process \cup Target

VARIABLES
  artifacts,   \* targets with a lock file or a journal file
  registry,    \* targets with a line in targets.jsonl: all, and those on disk for sure
  directory,   \* the process with exclusive custody of the registry
  journal,     \* Target -> its records, how many are synced, and whether the end is torn
  pins,        \* operations whose snapshot the vault retains
  worker,        \* Process -> what each is doing
  given,       \* operations the provider was ever given
  flight,      \* those it has not ended
  faults, cuts

nvars == <<artifacts, registry, directory, journal, pins, worker, given, flight, faults, cuts>>

States == {"prepared", "dispatched", "applied", "noop", "rejected", "unknown", "reconciled"}
Record == [op: 1..MaxOps, state: States, proof: BOOLEAN]
Operation == Target \X (1..MaxOps)

Steps == {"idle", "custody", "files", "registered", "claimed", "pinned", "prepared",
          "dispatched", "sent", "answered"}
NoWork == [step |-> "idle", target |-> Nobody, op |-> 0, proof |-> FALSE]

NativeTypeOK ==
  /\ artifacts \subseteq Target
  /\ registry \in [lines: SUBSET Target, synced: SUBSET Target, torn: BOOLEAN]
  /\ directory \in Process \cup {Nobody}
  /\ journal \in [Target -> [records: Seq(Record), synced: Nat, torn: BOOLEAN]]
  /\ pins \subseteq Operation /\ given \subseteq Operation /\ flight \subseteq given
  /\ worker \in [Process -> [step: Steps, target: Target \cup {Nobody},
                           op: 0..MaxOps, proof: BOOLEAN]]
  /\ faults \in 0..MaxFaults /\ cuts \in 0..MaxCuts

NativeInit ==
  /\ artifacts = {}
  /\ registry = [lines |-> {}, synced |-> {}, torn |-> FALSE]
  /\ directory = Nobody
  /\ journal = [t \in Target |-> [records |-> <<>>, synced |-> 0, torn |-> FALSE]]
  /\ pins = {} /\ given = {} /\ flight = {}
  /\ worker = [p \in Process |-> NoWork]
  /\ faults = 0 /\ cuts = 0

-----------------------------------------------------------------------------
(* Reading a journal                                                       *)

UnknownUnresolved(state) == state = "unknown"                          \* Mutant
Unresolved(state) == state \in {"dispatched", "unknown"}

\* Only evidence that the turn ended releases an operation of unknown outcome.
CanReconcile(t, r) == r.state = "unknown" /\ t \in Codex /\ r.proof

TerminalValid(r) ==
  IF r.state \in {"applied", "noop", "reconciled"} THEN r.proof
  ELSE r.proof => r.state = "unknown"

Transitions ==
  {<<"prepared", "dispatched">>, <<"prepared", "rejected">>, <<"dispatched", "applied">>,
   <<"dispatched", "noop">>, <<"dispatched", "unknown">>}

\* read_records on one record after another.
Follows(t, last, r) ==
  IF r.op = last.op
  THEN \/ <<last.state, r.state>> \in Transitions
       \/ r.state = "reconciled" /\ CanReconcile(t, last) /\ r.proof = last.proof
  ELSE ~Unresolved(last.state) /\ r.state = "prepared"

Legal(t, records) ==
  /\ records # <<>> => records[1].state = "prepared"
  /\ \A i \in 1..Len(records) :
       /\ TerminalValid(records[i])
       /\ i > 1 => Follows(t, records[i - 1], records[i])
       /\ \A j \in 1..i : records[i].state = "prepared" => (records[j].op = records[i].op <=> i = j)

JournalReadable(t) == ~journal[t].torn /\ Legal(t, journal[t].records)
Fenced(t) == journal[t].records # <<>> /\ Unresolved(Last(journal[t].records).state)

\* registrations: exactly the registered targets have files.
Intact == ~registry.torn /\ registry.lines = artifacts

-----------------------------------------------------------------------------
(* Writing one                                                             *)

Whole == [reaches |-> TRUE, torn |-> FALSE, synced |-> TRUE]
Unsynced == [Whole EXCEPT !.synced = FALSE]
Torn == [reaches |-> FALSE, torn |-> TRUE, synced |-> FALSE]
Nothing == [Torn EXCEPT !.torn = FALSE]
Outcomes == IF faults < MaxFaults THEN {Whole, Unsynced, Torn, Nothing} ELSE {Whole}
Counted(outcome) == faults' = IF outcome = Whole THEN faults ELSE faults + 1

\* append has returned Ok.
WrittenIsEnough(outcome) == outcome.reaches                            \* Mutant
Durable(outcome) == outcome = Whole

Append1(j, r, outcome) ==
  LET records == IF outcome.reaches THEN Append(j.records, r) ELSE j.records
  IN [records |-> records, torn |-> outcome.torn,
      synced |-> IF outcome.synced THEN Len(records) ELSE j.synced]

WorkerIs(p, r) == worker' = [worker EXCEPT ![p] = r]
WorkerAt(p, step) == worker' = [worker EXCEPT ![p].step = step]
Holder(t) == {p \in Process : worker[p].target = t /\ worker[p].step
                \notin {"custody", "files", "registered"}}
TargetFree(t) == Holder(t) = {}

-----------------------------------------------------------------------------
(* Operation::prepare                                                      *)

\* Exclusive custody of the registry, which is read under it.
Enter(p, t) ==
  /\ worker[p].step = "idle" /\ t \in Admitted
  /\ directory = Nobody /\ Intact
  /\ directory' = p
  /\ WorkerIs(p, [NoWork EXCEPT !.step = "custody", !.target = t])
  /\ UNCHANGED <<artifacts, registry, journal, pins, given, flight, faults, cuts>>

\* register: the files first, then the line that names them.
CreateFiles(p) ==
  LET t == worker[p].target
  IN /\ worker[p].step = "custody"
     /\ t \notin registry.lines /\ Cardinality(registry.lines) < MaxTargets
     /\ artifacts' = artifacts \cup {t}
     /\ WorkerAt(p, "files")
     /\ UNCHANGED <<registry, directory, journal, pins, given, flight, faults, cuts>>

AddLine(p) ==
  LET t == worker[p].target
  IN /\ worker[p].step = "files"
     /\ \E outcome \in Outcomes :
          /\ Counted(outcome)
          /\ registry' =
               [lines |-> IF outcome.reaches THEN registry.lines \cup {t} ELSE registry.lines,
                synced |-> IF outcome.synced THEN registry.lines \cup {t} ELSE registry.synced,
                torn |-> outcome.torn]
          /\ IF outcome = Whole
             THEN WorkerAt(p, "registered") /\ UNCHANGED directory
             ELSE WorkerIs(p, NoWork) /\ directory' = Nobody
     /\ UNCHANGED <<artifacts, journal, pins, given, flight, cuts>>

\* The target's lock and journal; then the registry is let go.
Claim(p) ==
  LET t == worker[p].target
      op == 1 + Cardinality({n \in 1..MaxOps : <<t, n>> \in pins})
  IN /\ \/ worker[p].step = "custody" /\ t \in registry.lines
        \/ worker[p].step = "registered"
     /\ directory' = Nobody
     /\ IF TargetFree(t) /\ JournalReadable(t) /\ ~Fenced(t) /\ op <= MaxOps
        THEN worker' = [worker EXCEPT ![p].step = "claimed", ![p].op = op]
        ELSE WorkerIs(p, NoWork)
     /\ UNCHANGED <<artifacts, registry, journal, pins, given, flight, faults, cuts>>

\* retain_operation_snapshot.
RetainSnapshot(p) ==
  /\ worker[p].step = "claimed"
  /\ pins' = pins \cup {<<worker[p].target, worker[p].op>>}
  /\ WorkerAt(p, "pinned")
  /\ UNCHANGED <<artifacts, registry, directory, journal, given, flight, faults, cuts>>

\* One append by p of a record of its operation, going on to step if it is durable.
Appends(p, state, step) ==
  LET t == worker[p].target
  IN \E outcome \in Outcomes :
       /\ Counted(outcome)
       /\ journal' = [journal EXCEPT ![t] =
            Append1(@, [op |-> worker[p].op, state |-> state, proof |-> worker[p].proof], outcome)]
       /\ IF Durable(outcome) /\ step # "idle" THEN WorkerAt(p, step) ELSE WorkerIs(p, NoWork)
       /\ UNCHANGED <<artifacts, registry, directory, pins, given, flight, cuts>>

Prepare(p) == worker[p].step = "pinned" /\ Appends(p, "prepared", "prepared")

\* Operation::dispatch, which finds the binary to be the one that was prepared.
Dispatch(p) == worker[p].step = "prepared" /\ Appends(p, "dispatched", "dispatched")

\* Any of these calls may fail: another process has a lock, the snapshot was
\* pruned, the binary has changed.  The operation is given up.
GiveUp(p) ==
  /\ worker[p].step \in {"custody", "claimed", "pinned", "prepared"} /\ faults < MaxFaults
  /\ faults' = faults + 1
  /\ WorkerIs(p, NoWork)
  /\ directory' = IF directory = p THEN Nobody ELSE directory
  /\ UNCHANGED <<artifacts, registry, journal, pins, given, flight, cuts>>

-----------------------------------------------------------------------------
(* The provider                                                            *)

Mine(p) == <<worker[p].target, worker[p].op>>

\* codex_compact and headless_compact_in_home.
Send(p) ==
  /\ worker[p].step = "dispatched"
  /\ given' = given \cup {Mine(p)} /\ flight' = flight \cup {Mine(p)}
  /\ WorkerAt(p, "sent")
  /\ UNCHANGED <<artifacts, registry, directory, journal, pins, faults, cuts>>

\* Its binary cannot be run, or refuses before the request is sent.
CannotSpawn(p) ==
  /\ worker[p].step = "dispatched"
  /\ WorkerAt(p, "answered")
  /\ UNCHANGED <<artifacts, registry, directory, journal, pins, given, flight, faults, cuts>>

TurnEnds(o) ==
  /\ o \in flight
  /\ flight' = flight \ {o}
  /\ UNCHANGED <<artifacts, registry, directory, journal, pins, worker, given, faults, cuts>>

\* The answer with its evidence, which the provider gives when the turn has ended.
Answer(p) ==
  /\ worker[p].step = "sent" /\ Mine(p) \notin flight
  /\ worker' = [worker EXCEPT ![p].step = "answered", ![p].proof = TRUE]
  /\ UNCHANGED <<artifacts, registry, directory, journal, pins, given, flight, faults, cuts>>

\* A timeout, a lost stream, an error: nothing is known of the turn.
NoAnswer(p) ==
  /\ worker[p].step = "sent"
  /\ WorkerAt(p, "answered")
  /\ UNCHANGED <<artifacts, registry, directory, journal, pins, given, flight, faults, cuts>>

\* Operation::finish.  The session's new state may show that the request was
\* applied, that it changed nothing, or neither.
Verdicts(proof) == IF proof THEN {"applied", "noop", "unknown"} ELSE {"unknown"}
Finish(p) ==
  /\ worker[p].step = "answered"
  /\ \E state \in Verdicts(worker[p].proof) : Appends(p, state, "idle")

-----------------------------------------------------------------------------
(* The reconcile command, and faults                                       *)

Reconcile(t) ==
  /\ directory = Nobody /\ Intact /\ t \in registry.lines
  /\ TargetFree(t) /\ JournalReadable(t) /\ journal[t].records # <<>>
  /\ LET last == Last(journal[t].records)
     IN /\ CanReconcile(t, last)
        /\ \E outcome \in Outcomes :
             /\ Counted(outcome)
             /\ journal' = [journal EXCEPT ![t] =
                  Append1(@, [last EXCEPT !.state = "reconciled"], outcome)]
  /\ UNCHANGED <<artifacts, registry, directory, pins, worker, given, flight, cuts>>

\* Its locks go with the process, the provider's turn does not.
KillWorker(p) ==
  /\ worker[p].step # "idle" /\ faults < MaxFaults
  /\ faults' = faults + 1
  /\ WorkerIs(p, NoWork)
  /\ directory' = IF directory = p THEN Nobody ELSE directory
  /\ UNCHANGED <<artifacts, registry, journal, pins, given, flight, cuts>>

\* What was not synced is there, or torn, or gone.
MayTear(j) == IF j.torn \/ j.synced < Len(j.records) THEN BOOLEAN ELSE {FALSE}
Survives(j) ==
  {[records |-> SubSeq(j.records, 1, k), synced |-> k, torn |-> torn] :
     k \in j.synced..Len(j.records), torn \in MayTear(j)}
PowerCut ==
  /\ cuts < MaxCuts
  /\ cuts' = cuts + 1
  /\ journal' \in {f \in [Target -> UNION {Survives(journal[t]) : t \in Target}] :
                     \A t \in Target : f[t] \in Survives(journal[t])}
  /\ \E lines \in SUBSET registry.lines, torn \in BOOLEAN :
       /\ registry.synced \subseteq lines
       /\ torn => registry.torn \/ registry.synced # registry.lines
       /\ registry' = [lines |-> lines, synced |-> lines, torn |-> torn]
  /\ worker' = [p \in Process |-> NoWork] /\ directory' = Nobody
  /\ UNCHANGED <<artifacts, pins, given, flight, faults>>

NativeNext ==
  \/ \E p \in Process :
       \/ \E t \in Target : Enter(p, t)
       \/ CreateFiles(p) \/ AddLine(p) \/ Claim(p) \/ RetainSnapshot(p) \/ Prepare(p)
       \/ Dispatch(p) \/ GiveUp(p) \/ Send(p) \/ CannotSpawn(p) \/ Answer(p) \/ NoAnswer(p)
       \/ Finish(p) \/ KillWorker(p)
  \/ \E t \in Target : Reconcile(t)
  \/ \E o \in Operation : TurnEnds(o)
  \/ PowerCut

NativeSpec == NativeInit /\ [][NativeNext]_nvars

-----------------------------------------------------------------------------
(* Properties *)

\* Whatever fails and whoever is killed, a provider never works on two
\* requests for one session.
OneInFlight ==
  \A o1, o2 \in flight : o1[1] = o2[1] => o1 = o2

\* What the provider was ever given is on the disk as dispatched, and the
\* snapshot it started from is pinned: no power loss makes it look unsent.
SentIsRecorded ==
  \A o \in given :
    /\ o \in pins
    /\ \E i \in 1..journal[o[1]].synced :
         journal[o[1]].records[i] = [op |-> o[2], state |-> "dispatched", proof |-> FALSE]

\* A request is sent only when every earlier one to the session is known to
\* have ended.
KnownEnded(o) ==
  \E i \in 1..Len(journal[o[1]].records) :
    /\ journal[o[1]].records[i].op = o[2]
    /\ journal[o[1]].records[i].state \in {"applied", "noop", "reconciled"}
NeverReplayed ==
  [][\A o \in given' \ given :
       /\ o \notin given
       /\ \A e \in given : e[1] = o[1] => KnownEnded(e) /\ e \notin flight]_nvars
=============================================================================
