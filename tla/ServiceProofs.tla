--------------------------- MODULE ServiceProofs ---------------------------
(***************************************************************************)
(* Theorems about the service around the proxy: ServiceStop, Toggle,       *)
(* Scopes and Upgrade, each for every value of its constants.              *)
(*                                                                         *)
(* ServiceStop.  What makes a late stop harmless is spread over four       *)
(* places that no lock covers together: the journal, the lease in the      *)
(* process's memory, the requests on their way, and the controller's last  *)
(* reply.  The invariant says how they agree.  A committed lease is the    *)
(* one the journal names (LeaseIsJournalled); a commit request that could  *)
(* still be accepted names the journal's operation (CommitsAreJournalled); *)
(* a controller at work works on the journal's operation, or on a token    *)
(* nobody was ever given (WorksOnJournal); and a recorded commitment is    *)
(* true of the process that serves (CommitmentIsTrue).                     *)
(*                                                                         *)
(* Toggle.  A switch works from a plan it made at the start.  ToggleInv    *)
(* says what the files still owe to the plan at each of its steps, and     *)
(* RouteInv that they are as the plan found them until it writes them.     *)
(*                                                                         *)
(* Scopes.  A decision already made, but not yet reported, can disagree    *)
(* with what others earned in the meantime: ScopesInv relates the row, the *)
(* evidence recorded since its opening, and every decision on its way.     *)
(*                                                                         *)
(* Upgrade.  At most one controller is at work, the one that the ledger    *)
(* names and that holds the operation lock.  UpgradeInv says, for each of  *)
(* its steps, what the ledger says (Knows), what the service is (Has),     *)
(* what is left of the old files (Keeps) and which locks it holds (Locks), *)
(* and, for when it is gone, what the ledger alone must tell (NamedFits,   *)
(* Mixed, ServiceFits).                                                    *)
(***************************************************************************)
EXTENDS ServiceStop, Toggle, Scopes, Upgrade, FiniteSetTheorems, SequenceTheorems, TLAPS

-----------------------------------------------------------------------------
(* ServiceStop: the invariant                                              *)

Working == {"first", "loop", "renewing", "committing", "releasing", "recheck", "reinspect"}

\* Processes are numbered as they start: nothing names one that has not
\* started, nor the one that is starting.
Names(id) == id <= proc.id /\ (proc.at = "starting" => id < proc.id)
NamesAreOld ==
  /\ journal # NoOp => Names(journal.id)
  /\ ctl.op # NoOp => Names(ctl.op.id)
  /\ \A m \in msgs : Names(m.id)

\* Tokens are of controllers that have run, and a controller's own token is
\* unknown to the world until it sends it.
Unsent == {"load", "lookup", "status"}
TokensAreOld ==
  /\ ctl.at # "idle" => ctl.run # 0
  /\ journal # NoOp => journal.owner <= ctl.run
  /\ ctl.op # NoOp => ctl.op.owner <= ctl.run
  /\ lease # NoLease => lease.owner <= ctl.run /\ (ctl.at \in Unsent => lease.owner # ctl.run)
  /\ \A m \in msgs :
       /\ m.from <= ctl.run /\ m.owner <= ctl.run
       /\ ctl.at \in Unsent => m.from # ctl.run /\ m.owner # ctl.run

\* A process that does not serve has no lease and no request.
RestsUnlessServing ==
  /\ ~legacy
  /\ ~Serving => epoch = 0 /\ lease = NoLease /\ inference = 0
  /\ proc.at = "down" => msgs = {}
  /\ proc.at # "down" => proc.id # 0

CommittedIsIdle == A!Committed => inference = 0

\* What a controller awaits an answer to is its own operation.
AsksAboutItsOwn ==
  /\ ctl.at \in Working => ctl.op # NoOp
  /\ \A m \in msgs : m.from = ctl.run /\ ctl.at \in Working =>
       m.id = ctl.op.id /\ m.owner = ctl.op.owner /\ m.epoch = ctl.op.epoch

\* A token nobody was ever given: requests under it are refused.
Unknown ==
  /\ ctl.at = "first" /\ ctl.reply = NoMsg
  /\ ctl.op.owner = ctl.run
  /\ lease # NoLease => lease.owner # ctl.run
  /\ \A m \in msgs : m.owner = ctl.run => m.action = "inspect"
WorksOnJournal ==
  /\ ctl.at \in Working => journal = ctl.op \/ Unknown
  /\ ctl.at = "releasing" => ctl.op.stage = "waiting"

\* The operation the controller was answered about has been granted.
Intended == RecordedStage \notin {"none", "waiting"}
AnswersAreGranted ==
  /\ ctl.at = "loop" => ctl.reply # NoMsg
  /\ ctl.at \in Working /\ ctl.reply # NoMsg =>
       /\ Serving /\ ctl.op.id = proc.id => ctl.op.epoch <= epoch
       /\ ctl.reply.phase = "committed" =>
            Intended /\ (Serving => ctl.op.id = proc.id /\ A!Committed)

\* A request under a lease that has ended, which no later one will honour.
Dead(m) == m.epoch < epoch \/ (m.epoch = epoch /\ (A!Current = NoLease \/ A!Current.owner # m.owner))
CommitsAreJournalled ==
  Serving =>
    /\ Intended /\ journal.id = proc.id => journal.epoch <= epoch
    /\ \A m \in msgs : m.action = "commit" /\ m.id = proc.id =>
         \/ Dead(m)
         \/ Intended /\ journal.id = m.id /\ journal.owner = m.owner /\ journal.epoch = m.epoch

LeaseIsJournalled ==
  Serving /\ A!Committed =>
    Intended /\ journal.id = proc.id /\ journal.owner = lease.owner /\ journal.epoch = epoch

CommitmentIsTrue ==
  RecordedStage \in {"committed", "stop_started", "stop_acknowledged"} /\ Serving =>
    journal.id = proc.id /\ A!Committed

\* A submitted stop is recorded, and whoever finds the record goes no further.
StopsAreRecorded ==
  /\ stops # {} => RecordedStage = "stop_started"
  /\ RecordedStage = "stop_started" => ctl.at \in {"idle", "load", "managing"}
  /\ ctl.at = "managing" =>
       /\ ctl.op # NoOp
       /\ journal = [ctl.op EXCEPT !.stage = "stop_started"]
       /\ stops \subseteq {ctl.run}

IInv ==
  /\ TypeOK
  /\ NamesAreOld /\ TokensAreOld /\ RestsUnlessServing /\ CommittedIsIdle
  /\ AsksAboutItsOwn /\ WorksOnJournal /\ AnswersAreGranted
  /\ CommitsAreJournalled /\ LeaseIsJournalled /\ CommitmentIsTrue /\ StopsAreRecorded

-----------------------------------------------------------------------------
(* What a critical section of Admission does to the lease                  *)

\* No step ends a commitment, reopens it to inference, or brings back a lease
\* under an epoch that has passed.
Moves ==
  /\ A!TypeOK' /\ legacy' = legacy
  /\ CommittedIsIdle'
  /\ epoch <= epoch'
  /\ A!Committed => A!Committed' /\ lease'.owner = lease.owner /\ epoch' = epoch
  /\ epoch' = epoch /\ A!Current' # NoLease =>
       A!Current # NoLease /\ A!Current'.owner = A!Current.owner

\* Most grant nothing: the lease is what it was, or gone.
GrantsNothing ==
  /\ Moves
  /\ epoch' = epoch
  /\ A!Committed' => A!Committed
  /\ lease' # NoLease => lease # NoLease /\ lease'.owner = lease.owner

AdmissionSound == A!TypeOK /\ CommittedIsIdle /\ ~legacy

LEMMA LesserBound ==
  ASSUME NEW a \in Nat, NEW b \in Nat
  PROVE  A!Lesser(a, b) \in Nat /\ A!Lesser(a, b) <= a /\ A!Lesser(a, b) <= b
  BY DEF A!Lesser

LEMMA CurrentTyped ==
  ASSUME AdmissionSound
  PROVE  /\ A!Current \in A!Lease \union {NoLease}
         /\ A!Current # NoLease => A!Current = lease /\ lease \in A!Lease
         /\ A!Committed => A!Current = lease /\ lease \in A!Lease
         /\ inference \in Nat /\ epoch \in Nat
         /\ NoLease \notin A!Lease
  BY AdmissionAssumption
  DEF AdmissionSound, A!TypeOK, A!Current, A!Expired, A!Committed

LEMMA ObserveGrantsNothing == AdmissionSound /\ A!Observe => GrantsNothing
<1> SUFFICES ASSUME AdmissionSound, A!Observe PROVE GrantsNothing
  OBVIOUS
<1>1. lease' = A!Current /\ UNCHANGED <<epoch, legacy, inference>>
  BY DEF A!Observe
<1>2. A!Current' # NoLease => A!Current # NoLease /\ A!Current' = A!Current
  BY <1>1, CurrentTyped DEF A!Current, A!Expired
<1>3. A!Committed' <=> A!Committed
  BY <1>1, CurrentTyped DEF A!Committed
<1>4. A!TypeOK'
  BY <1>1, CurrentTyped DEF AdmissionSound, A!TypeOK
<1> QED BY <1>1, <1>2, <1>3, <1>4, CurrentTyped DEF GrantsNothing, Moves, AdmissionSound, CommittedIsIdle

LEMMA InferenceGrantsNothing == AdmissionSound /\ (A!Admit \/ A!Finish) => GrantsNothing
<1> SUFFICES ASSUME AdmissionSound, A!Admit \/ A!Finish PROVE GrantsNothing
  OBVIOUS
<1>1. CASE A!Admit
  <2>1. A!Current = NoLease /\ lease' = NoLease /\ UNCHANGED <<epoch, legacy>>
    BY <1>1 DEF A!Admit, A!Blocked
  <2>2. ~A!Committed
    BY <2>1, CurrentTyped DEF A!Committed
  <2>3. ~A!Committed' /\ A!Current' = NoLease
    BY <2>1 DEF A!Committed, A!Current, A!Expired
  <2>4. A!TypeOK'
    BY <1>1, <2>1, AdmissionAssumption DEF AdmissionSound, A!TypeOK, A!Admit
  <2> QED BY <2>1, <2>2, <2>3, <2>4, CurrentTyped DEF GrantsNothing, Moves, CommittedIsIdle
<1>2. CASE A!Finish
  <2>1. UNCHANGED <<epoch, legacy, lease>> /\ inference' = inference - 1 /\ inference > 0
    BY <1>2 DEF A!Finish
  <2>2. A!Current' = A!Current /\ A!Committed' = A!Committed
    BY <2>1 DEF A!Committed, A!Current, A!Expired
  <2>3. A!TypeOK'
    BY <2>1, AdmissionAssumption DEF AdmissionSound, A!TypeOK
  <2> QED BY <2>1, <2>2, <2>3, CurrentTyped DEF GrantsNothing, Moves, CommittedIsIdle, AdmissionSound
<1> QED BY <1>1, <1>2

LEMMA TickGrantsNothing == AdmissionSound /\ A!Tick => GrantsNothing
<1> SUFFICES ASSUME AdmissionSound, A!Tick PROVE GrantsNothing
  OBVIOUS
<1>1. /\ lease \in A!Lease /\ lease # NoLease
      /\ lease' = [lease EXCEPT !.expires = A!OneLess(@), !.deadline = A!OneLess(@)]
      /\ UNCHANGED <<epoch, legacy, inference>>
  BY DEF A!Tick, AdmissionSound, A!TypeOK
<1>2. A!OneLess(lease.expires) \in 0..TTL /\ A!OneLess(lease.deadline) \in 0..MaxWait
  BY <1>1, AdmissionAssumption DEF A!OneLess, A!Lease
<1>3. /\ lease' \in A!Lease /\ lease'.owner = lease.owner /\ lease'.committed = lease.committed
      /\ lease'.expires = A!OneLess(lease.expires)
  BY <1>1, <1>2 DEF A!Lease
<1>4. lease' # NoLease
  BY <1>3, CurrentTyped
<1>5. A!Committed' = A!Committed
  BY <1>1, <1>3, <1>4 DEF A!Committed
<1>6. lease.expires = 0 => lease'.expires = 0
  BY <1>3 DEF A!OneLess
<1>7. A!Current' # NoLease => A!Current # NoLease /\ A!Current'.owner = A!Current.owner
  BY <1>1, <1>3, <1>4, <1>6 DEF A!Current, A!Expired
<1>8. A!TypeOK'
  BY <1>1, <1>3 DEF AdmissionSound, A!TypeOK
<1> QED BY <1>1, <1>3, <1>5, <1>7, <1>8, CurrentTyped
        DEF GrantsNothing, Moves, CommittedIsIdle, AdmissionSound

LEMMA StutterGrantsNothing == AdmissionSound /\ UNCHANGED admission => GrantsNothing
<1> SUFFICES ASSUME AdmissionSound, UNCHANGED admission PROVE GrantsNothing
  OBVIOUS
<1>1. A!Current' = A!Current /\ A!Committed' = A!Committed
  BY DEF admission, A!Committed, A!Current, A!Expired
<1>2. A!TypeOK'
  BY DEF admission, AdmissionSound, A!TypeOK
<1> QED BY <1>1, <1>2, CurrentTyped DEF admission, GrantsNothing, Moves, CommittedIsIdle, AdmissionSound

\* An accepted request names the lease it leaves in force, and only an acquire
\* grants one, only a commit commits it.
Answered(m) ==
  /\ Moves
  /\ inference' = inference
  /\ epoch' = m.epoch
  /\ m.action # "acquire" => lease # NoLease /\ lease.owner = m.owner
  /\ lease' # NoLease =>
       \/ lease # NoLease /\ lease'.owner = lease.owner
       \/ m.action = "acquire" /\ lease'.owner = m.owner
  /\ A!Committed' /\ ~A!Committed =>
       m.action = "commit" /\ lease'.owner = m.owner /\ ~Dead(m)

LEMMA AcceptedAnswers ==
  ASSUME AdmissionSound, NEW m \in Message, Accepted(m)
  PROVE  Answered(m)
<1> USE DEF Answered, Message
<1>0. m.owner \in Runs /\ m.epoch \in 1..MaxEpoch /\ MaxEpoch \in Nat
  BY AdmissionAssumption
<1>1. CASE m.action = "acquire" /\ A!Acquire(m.owner, m.epoch - 1, MaxWait)
  <2>1. /\ A!Current = NoLease /\ epoch = m.epoch - 1 /\ epoch' = epoch + 1
        /\ epoch < MaxEpoch /\ UNCHANGED <<legacy, inference>>
    BY <1>1 DEF A!Acquire, A!Grantable
  <2>2. A!Lesser(TTL, MaxWait) \in 0..TTL /\ MaxWait \in 0..MaxWait
    BY AdmissionAssumption DEF A!Lesser
  <2>3. lease' \in A!Lease /\ lease'.owner = m.owner /\ ~lease'.committed
    BY <1>0, <1>1, <2>2 DEF A!Acquire, A!Lease
  <2>4. ~A!Committed /\ ~A!Committed'
    BY <2>1, <2>3, CurrentTyped DEF A!Committed
  <2>5. A!TypeOK'
    BY <1>0, <2>1, <2>3, CurrentTyped DEF AdmissionSound, A!TypeOK
  <2> QED BY <1>0, <1>1, <2>1, <2>3, <2>4, <2>5, CurrentTyped DEF Moves, CommittedIsIdle
<1>2. CASE m.action = "acquire" /\ A!AcquireAgain(m.owner, m.epoch - 1)
  <2>1. A!Holds(m.owner, m.epoch) /\ UNCHANGED admission
    BY <1>0, <1>2 DEF A!AcquireAgain, A!Holds, A!vars, admission
  <2> QED BY <1>0, <1>2, <2>1, CurrentTyped, StutterGrantsNothing DEF GrantsNothing, Moves, admission, A!Holds
<1>3. CASE m.action = "inspect" /\ A!Inspect(m.owner, m.epoch)
  <2>1. A!Holds(m.owner, m.epoch) /\ UNCHANGED admission
    BY <1>3 DEF A!Inspect, A!vars, admission
  <2> QED BY <1>0, <1>3, <2>1, CurrentTyped, StutterGrantsNothing DEF GrantsNothing, Moves, admission, A!Holds
<1>4. CASE m.action = "renew" /\ A!Renew(m.owner, m.epoch)
  <2>1. /\ lease \in A!Lease /\ A!Current = lease /\ lease.owner = m.owner /\ epoch = m.epoch
        /\ ~lease.committed /\ lease # NoLease
    BY <1>4, CurrentTyped DEF A!Renew, A!Holds
  <2>2. lease' = [lease EXCEPT !.expires = A!Lesser(TTL, lease.deadline)]
        /\ UNCHANGED <<epoch, legacy, inference>>
    BY <1>4, <2>1 DEF A!Renew, A!Extended
  <2>3. A!Lesser(TTL, lease.deadline) \in 0..TTL
    BY <2>1, LesserBound, AdmissionAssumption DEF A!Lease
  <2>4. lease' \in A!Lease /\ lease'.owner = lease.owner /\ ~lease'.committed
    BY <2>1, <2>2, <2>3 DEF A!Lease
  <2>5. ~A!Committed' /\ ~A!Committed
    BY <2>1, <2>4 DEF A!Committed
  <2>6. A!Current' # NoLease => A!Current'.owner = A!Current.owner
    BY <2>1, <2>4 DEF A!Current, A!Expired
  <2>7. A!TypeOK'
    BY <2>2, <2>4 DEF AdmissionSound, A!TypeOK
  <2> QED BY <1>0, <1>4, <2>1, <2>2, <2>4, <2>5, <2>6, <2>7, CurrentTyped
          DEF Moves, CommittedIsIdle, AdmissionSound
<1>5. CASE m.action = "release" /\ A!Release(m.owner, m.epoch)
  <2>1. /\ A!Current = lease /\ lease.owner = m.owner /\ epoch = m.epoch
        /\ ~lease.committed /\ lease # NoLease
    BY <1>5, CurrentTyped DEF A!Release, A!Holds
  <2>2. lease' = NoLease /\ UNCHANGED <<epoch, legacy, inference>>
    BY <1>5 DEF A!Release
  <2>3. ~A!Committed' /\ ~A!Committed /\ A!Current' = NoLease
    BY <2>1, <2>2 DEF A!Committed, A!Current, A!Expired
  <2>4. A!TypeOK'
    BY <2>2 DEF AdmissionSound, A!TypeOK
  <2> QED BY <1>0, <1>5, <2>1, <2>2, <2>3, <2>4, CurrentTyped
          DEF Moves, CommittedIsIdle, AdmissionSound
<1>6. CASE m.action = "commit" /\ A!Commit(m.owner, m.epoch)
  <2>1. /\ lease \in A!Lease /\ A!Current = lease /\ lease.owner = m.owner /\ epoch = m.epoch
        /\ ~lease.committed /\ lease # NoLease /\ inference = 0
    BY <1>6, CurrentTyped DEF A!Commit, A!Holds, A!Committable
  <2>2. lease' = [lease EXCEPT !.committed = TRUE] /\ UNCHANGED <<epoch, legacy, inference>>
    BY <1>6, <2>1 DEF A!Commit
  <2>3. lease' \in A!Lease /\ lease'.owner = lease.owner /\ lease'.committed
    BY <2>1, <2>2 DEF A!Lease
  <2>4. A!Current' # NoLease => A!Current'.owner = A!Current.owner
    BY <2>1, <2>3 DEF A!Current, A!Expired
  <2>5. ~A!Committed
    BY <2>1 DEF A!Committed
  <2>6. A!TypeOK'
    BY <2>2, <2>3 DEF AdmissionSound, A!TypeOK
  <2>7. ~Dead(m)
    BY <2>1, CurrentTyped DEF Dead
  <2> QED BY <1>0, <1>6, <2>1, <2>2, <2>3, <2>4, <2>5, <2>6, <2>7, CurrentTyped
          DEF Moves, CommittedIsIdle, AdmissionSound
<1>7. CASE m.action = "commit" /\ A!CommitAgain(m.owner, m.epoch)
  <2>1. A!Holds(m.owner, m.epoch) /\ UNCHANGED admission
    BY <1>7 DEF A!CommitAgain, A!vars, admission
  <2> QED BY <1>0, <1>7, <2>1, CurrentTyped, StutterGrantsNothing DEF GrantsNothing, Moves, admission, A!Holds
<1> QED BY <1>1, <1>2, <1>3, <1>4, <1>5, <1>6, <1>7 DEF Accepted

-----------------------------------------------------------------------------
(* ServiceStop: the process, the manager and the requests                  *)

LEMMA InvSound == IInv => AdmissionSound
  BY DEF IInv, AdmissionSound, TypeOK, RestsUnlessServing

LEMMA InitIInv == Init => IInv
<1> SUFFICES ASSUME Init PROVE IInv
  OBVIOUS
<1> USE AdmissionAssumption, AbsenceAssumption, BoundsAssumption DEF Init, A!Init, Serving, RecordedStage
<1>1. TypeOK
  <2>1. A!TypeOK
    <3>1. epoch \in 0..MaxEpoch /\ inference \in 0..Slots
      OBVIOUS
    <3>2. legacy \in BOOLEAN /\ lease \in A!Lease \union {NoLease}
      OBVIOUS
    <3> QED BY <3>1, <3>2 DEF A!TypeOK
  <2>2. /\ proc \in [id: 0..MaxProcs, at: {"down", "starting", "serving"}]
        /\ ctl \in [run: 0..MaxRuns, at: Place, op: Op \union {NoOp},
                    reply: Reply \union {NoMsg}, late: BOOLEAN]
    BY DEF Place
  <2> QED BY <2>1, <2>2 DEF TypeOK
<1>2. ~A!Committed
  BY DEF A!Committed
<1> QED
  BY <1>1, <1>2 DEF IInv, NamesAreOld, TokensAreOld, Unsent, RestsUnlessServing, CommittedIsIdle,
     AsksAboutItsOwn, Working, WorksOnJournal, AnswersAreGranted, CommitsAreJournalled,
     LeaseIsJournalled, CommitmentIsTrue, StopsAreRecorded

LEMMA QuietKeeps ==
  ASSUME IInv, GrantsNothing, Serving, UNCHANGED <<proc, registered, journal, ctl, stops>>,
         msgs' \subseteq msgs
  PROVE  IInv'
<1>1. TypeOK'
  BY DEF IInv, TypeOK, GrantsNothing, Moves
<1>2. NamesAreOld' /\ TokensAreOld' /\ AsksAboutItsOwn' /\ StopsAreRecorded'
  BY DEF IInv, GrantsNothing, NamesAreOld, Names, TokensAreOld, AsksAboutItsOwn, StopsAreRecorded, RecordedStage
<1>3. RestsUnlessServing' /\ CommittedIsIdle'
  BY DEF IInv, GrantsNothing, Moves, RestsUnlessServing, Serving
<1>4. WorksOnJournal'
  BY DEF IInv, GrantsNothing, WorksOnJournal, Unknown
<1>5. AnswersAreGranted'
  BY DEF IInv, GrantsNothing, Moves, AnswersAreGranted, Serving, Intended, RecordedStage
<1>6. CommitsAreJournalled'
  BY DEF IInv, GrantsNothing, Moves, CommitsAreJournalled, Serving, Intended, RecordedStage, Dead
<1>7. LeaseIsJournalled' /\ CommitmentIsTrue'
  BY DEF IInv, GrantsNothing, Moves, LeaseIsJournalled, CommitmentIsTrue, Serving, Intended, RecordedStage
<1> QED BY <1>1, <1>2, <1>3, <1>4, <1>5, <1>6, <1>7 DEF IInv

LEMMA HandleKeeps ==
  ASSUME IInv, NEW m \in msgs, Handle(m)
  PROVE  IInv'
<1>0. /\ Serving /\ msgs' = msgs \ {m} /\ UNCHANGED <<proc, registered, journal, stops>>
      /\ m \in Message /\ AdmissionSound
  BY InvSound DEF Handle, IInv, TypeOK
<1>1. CASE GrantsNothing /\ UNCHANGED ctl
  BY <1>0, <1>1, QuietKeeps
<1>2. CASE SameInstance(m) /\ Accepted(m)
           /\ ctl' = IF Expects(m)
                     THEN [ctl EXCEPT !.reply = [phase |-> A!Phase', active |-> inference]]
                     ELSE ctl
  <2>1. Answered(m) /\ Moves /\ m.id = proc.id /\ epoch' = m.epoch
    BY <1>0, <1>2, AcceptedAnswers DEF SameInstance, Answered
  <2>2. A!Phase' \in {"open", "waiting", "committed", "legacy_idle"}
        /\ (A!Phase' = "committed" => A!Committed')
    BY DEF A!Phase
  <2>3. inference \in 0..Slots
    BY DEF IInv, TypeOK, A!TypeOK
  <2>4. /\ ctl'.run = ctl.run /\ ctl'.at = ctl.at /\ ctl'.op = ctl.op
        /\ ctl'.reply \in Reply \union {NoMsg}
        /\ ctl'.reply # ctl.reply => Expects(m) /\ ctl'.reply.phase = A!Phase'
    <3>1. [phase |-> A!Phase', active |-> inference] \in Reply
      BY <2>2, <2>3 DEF Reply
    <3>2. ctl \in [run: 0..MaxRuns, at: Place, op: Op \union {NoOp},
                   reply: Reply \union {NoMsg}, late: BOOLEAN]
      BY DEF IInv, TypeOK
    <3>3. CASE Expects(m)
      BY <1>2, <3>1, <3>2, <3>3
    <3>4. CASE ctl' = ctl
      BY <3>2, <3>4
    <3> QED BY <1>2, <3>3, <3>4
  <2>5. TypeOK'
    BY <1>0, <1>2, <2>1, <2>2, <2>3 DEF IInv, TypeOK, Moves, Reply
  <2>6. NamesAreOld' /\ AsksAboutItsOwn' /\ StopsAreRecorded'
    BY <1>0, <2>4 DEF IInv, NamesAreOld, Names, AsksAboutItsOwn, StopsAreRecorded, RecordedStage
  <2>7. TokensAreOld'
    BY <1>0, <2>1, <2>4 DEF IInv, TokensAreOld, Answered
  <2>8. RestsUnlessServing' /\ CommittedIsIdle'
    BY <1>0, <2>1 DEF IInv, Moves, RestsUnlessServing, Serving
  <2>9. ctl'.reply # ctl.reply => ctl.at \in Awaiting /\ ctl.run = m.from
    BY <2>4 DEF Expects
  <2>10. ctl'.reply # ctl.reply /\ ctl.at \in Working =>
          m.id = ctl.op.id /\ m.owner = ctl.op.owner /\ m.epoch = ctl.op.epoch
    BY <2>9 DEF IInv, AsksAboutItsOwn
  <2>11. epoch \in Nat /\ epoch' \in Nat /\ (ctl.op # NoOp => ctl.op.epoch \in Nat)
         /\ \A q \in msgs : q.epoch \in Nat
    BY <2>1, AdmissionAssumption DEF IInv, TypeOK, A!TypeOK, Moves, Op, Message
  <2>12. WorksOnJournal'
    BY <1>0, <2>1, <2>4, <2>9, <2>10 DEF IInv, WorksOnJournal, Unknown, Answered, Working
  <2>13. CommitsAreJournalled'
    <3>1. Serving' = Serving /\ Intended' = Intended
      BY <1>0 DEF Serving, Intended, RecordedStage
    <3>2. Intended /\ journal.id = proc.id => journal.epoch <= epoch'
      <4>1. Intended => journal.epoch \in Nat
        BY DEF IInv, TypeOK, Intended, RecordedStage, Op
      <4> QED BY <1>0, <2>1, <2>11, <4>1 DEF IInv, Moves, CommitsAreJournalled
    <3>3. ASSUME NEW q \in msgs, Dead(q) PROVE Dead(q)'
      BY <2>1, <2>11, <3>3 DEF Dead, Moves
    <3> QED BY <1>0, <3>1, <3>2, <3>3 DEF IInv, CommitsAreJournalled
  <2>14. LeaseIsJournalled'
    BY <1>0, <2>1 DEF IInv, Moves, LeaseIsJournalled, CommitsAreJournalled, Answered, Serving, Intended,
       RecordedStage
  <2>15. AnswersAreGranted'
    <3>1. CASE ctl'.reply = ctl.reply
      <4>1. ctl.at \in Working /\ Serving /\ ctl.reply # NoMsg /\ ctl.op.id = proc.id =>
              ctl.op.epoch <= epoch'
        BY <2>1, <2>11 DEF IInv, Moves, AnswersAreGranted, AsksAboutItsOwn
      <4> QED BY <1>0, <2>1, <2>4, <3>1, <4>1
              DEF IInv, Moves, AnswersAreGranted, Serving, Intended, RecordedStage
    <3>2. CASE ctl'.reply # ctl.reply
      <4>1. ctl.at \in Working => ctl.op.epoch <= epoch' /\ ctl.op.id = proc.id
        BY <2>1, <2>10, <2>11, <3>2
      <4>2. ctl'.reply.phase = "committed" => Intended' /\ A!Committed'
        BY <1>0, <2>2, <2>4, <2>14, <3>2 DEF LeaseIsJournalled, Serving
      <4>3. ctl'.at # "loop"
        BY <2>4, <2>9, <3>2 DEF Awaiting
      <4> QED BY <1>0, <2>4, <4>1, <4>2, <4>3 DEF AnswersAreGranted
    <3> QED BY <3>1, <3>2
  <2>16. CommitmentIsTrue'
    BY <1>0, <2>1 DEF IInv, Moves, CommitmentIsTrue, Serving, RecordedStage
  <2> QED BY <2>5, <2>6, <2>7, <2>8, <2>12, <2>13, <2>14, <2>15, <2>16 DEF IInv
<1>3. CASE SameInstance(m) /\ Refused(m) /\ UNCHANGED ctl
  BY <1>0, <1>1, <1>3, ObserveGrantsNothing DEF Refused, A!Refuse
<1>4. CASE UNCHANGED <<admission, ctl>>
  BY <1>0, <1>1, <1>4, StutterGrantsNothing
<1> QED BY <1>2, <1>3, <1>4 DEF Handle

\* What ends the process ends its lease and whatever was on its way to it.
LEMMA DownKeeps ==
  ASSUME IInv, Down, UNCHANGED journal, registered' \in BOOLEAN, stops' \subseteq stops,
         \/ UNCHANGED ctl
         \/ ctl' = [ctl EXCEPT !.at = "idle", !.op = NoOp, !.reply = NoMsg]
  PROVE  IInv'
<1>0. /\ proc'.id = proc.id /\ proc'.at = "down" /\ msgs' = {}
      /\ epoch' = 0 /\ legacy' = FALSE /\ lease' = NoLease /\ inference' = 0
      /\ ctl'.run = ctl.run /\ RecordedStage' = RecordedStage
      /\ ctl' = ctl \/ (ctl'.at = "idle" /\ ctl'.op = NoOp /\ ctl'.reply = NoMsg)
  BY DEF IInv, TypeOK, Down, RecordedStage
<1>1. ~A!Committed' /\ ~Serving'
  BY <1>0 DEF A!Committed, Serving
<1>2. TypeOK'
  <2>1. A!TypeOK'
    <3>1. epoch' \in 0..MaxEpoch /\ inference' \in 0..Slots
      BY <1>0, AdmissionAssumption
    <3>2. legacy' \in BOOLEAN /\ lease' \in A!Lease \union {NoLease}
      BY <1>0
    <3> QED BY <3>1, <3>2 DEF A!TypeOK
  <2>2. proc' \in [id: 0..MaxProcs, at: {"down", "starting", "serving"}]
    BY DEF IInv, TypeOK, Down
  <2>3. ctl' \in [run: 0..MaxRuns, at: Place, op: Op \union {NoOp},
                  reply: Reply \union {NoMsg}, late: BOOLEAN]
    BY DEF IInv, TypeOK, Place
  <2> QED BY <1>0, <2>1, <2>2, <2>3 DEF IInv, TypeOK
<1>3. NamesAreOld' /\ TokensAreOld' /\ RestsUnlessServing' /\ CommittedIsIdle'
  BY <1>0, <1>1 DEF IInv, TypeOK, NamesAreOld, Names, TokensAreOld, Unsent, RestsUnlessServing,
     CommittedIsIdle
<1>4. AsksAboutItsOwn' /\ WorksOnJournal' /\ AnswersAreGranted' /\ StopsAreRecorded'
  BY <1>0, <1>1 DEF IInv, AsksAboutItsOwn, Working, WorksOnJournal, Unknown, AnswersAreGranted,
     Intended, StopsAreRecorded
<1>5. CommitsAreJournalled' /\ LeaseIsJournalled' /\ CommitmentIsTrue'
  BY <1>1 DEF CommitsAreJournalled, LeaseIsJournalled, CommitmentIsTrue
<1> QED BY <1>2, <1>3, <1>4, <1>5 DEF IInv

LEMMA LaunchKeeps == IInv /\ Launch => IInv'
<1> SUFFICES ASSUME IInv, Launch PROVE IInv'
  OBVIOUS
<1>0. /\ proc.at = "down" /\ proc' = [id |-> proc.id + 1, at |-> "starting"] /\ proc.id < MaxProcs
      /\ UNCHANGED <<admission, registered, journal, ctl, msgs, stops>>
  BY DEF Launch
<1>1. /\ ~Serving /\ ~Serving' /\ lease = NoLease /\ msgs = {} /\ RecordedStage' = RecordedStage
      /\ UNCHANGED <<epoch, legacy, lease, inference>>
  BY <1>0 DEF IInv, RestsUnlessServing, Serving, RecordedStage, admission
<1>2. TypeOK'
  <2>1. A!TypeOK'
    BY <1>1 DEF IInv, TypeOK, A!TypeOK
  <2>2. proc' \in [id: 0..MaxProcs, at: {"down", "starting", "serving"}]
    BY <1>0, BoundsAssumption DEF IInv, TypeOK
  <2> QED BY <1>0, <2>1, <2>2 DEF IInv, TypeOK
<1>3. NamesAreOld'
  BY <1>0, <1>1, BoundsAssumption DEF IInv, TypeOK, NamesAreOld, Names, Op
<1>4. TokensAreOld' /\ AsksAboutItsOwn' /\ StopsAreRecorded'
  BY <1>0, <1>1 DEF IInv, TokensAreOld, AsksAboutItsOwn, StopsAreRecorded
<1>5. RestsUnlessServing' /\ CommittedIsIdle' /\ WorksOnJournal' /\ AnswersAreGranted'
  <2>1. proc'.id # 0 /\ proc'.at = "starting"
    BY <1>0 DEF IInv, TypeOK
  <2> QED
    BY <1>0, <1>1, <2>1
    DEF IInv, RestsUnlessServing, CommittedIsIdle, A!Committed, WorksOnJournal, Unknown,
        AnswersAreGranted, Intended
<1>6. CommitsAreJournalled' /\ LeaseIsJournalled' /\ CommitmentIsTrue'
  BY <1>1 DEF CommitsAreJournalled, LeaseIsJournalled, CommitmentIsTrue
<1> QED BY <1>2, <1>3, <1>4, <1>5, <1>6 DEF IInv

LEMMA StartupKeeps == IInv /\ StartupCheck => IInv'
<1> SUFFICES ASSUME IInv, StartupCheck PROVE IInv'
  OBVIOUS
<1>0. /\ proc.at = "starting" /\ ~Serving
      /\ proc' = [proc EXCEPT !.at = IF StartupAllowed THEN "serving" ELSE "down"]
      /\ UNCHANGED <<admission, registered, journal, ctl, stops>>
      /\ epoch = 0 /\ lease = NoLease /\ inference = 0 /\ ~legacy
      /\ UNCHANGED <<epoch, legacy, lease, inference>> /\ RecordedStage' = RecordedStage
  BY DEF StartupCheck, Serving, IInv, RestsUnlessServing, admission, RecordedStage
<1>1. CASE ~StartupAllowed
  <2>1. Down
    BY <1>0, <1>1 DEF StartupCheck, Down, IInv, TypeOK, A!TypeOK
  <2> QED BY <1>0, <2>1, DownKeeps DEF IInv, TypeOK
<1>2. CASE StartupAllowed
  <2>1. /\ proc'.id = proc.id /\ proc'.at = "serving" /\ msgs' = msgs
        /\ RecordedStage \in {"none", "waiting"}
    BY <1>0, <1>2 DEF IInv, TypeOK, StartupCheck, StartupAllowed
  <2>2. ~A!Committed /\ ~A!Committed' /\ Serving' /\ ~Intended /\ ~Intended'
    BY <1>0, <2>1 DEF A!Committed, Serving, Intended
  <2>3. TypeOK'
    BY <1>0, <2>1 DEF IInv, TypeOK, A!TypeOK
  <2>4. NamesAreOld' /\ TokensAreOld' /\ AsksAboutItsOwn' /\ StopsAreRecorded'
    BY <1>0, <2>1 DEF IInv, NamesAreOld, Names, TokensAreOld, AsksAboutItsOwn, StopsAreRecorded
  <2>5. RestsUnlessServing' /\ CommittedIsIdle' /\ WorksOnJournal' /\ LeaseIsJournalled'
        /\ CommitmentIsTrue'
    BY <1>0, <2>1, <2>2 DEF IInv, RestsUnlessServing, CommittedIsIdle, WorksOnJournal, Unknown,
       LeaseIsJournalled, CommitmentIsTrue
  <2>6. \A id \in 0..MaxProcs : Names(id) => id # proc.id
    BY <1>0, BoundsAssumption DEF Names, IInv, TypeOK
  <2>7. AnswersAreGranted'
    BY <1>0, <2>1, <2>2, <2>6, BoundsAssumption
    DEF IInv, TypeOK, AnswersAreGranted, AsksAboutItsOwn, NamesAreOld, Op
  <2>8. CommitsAreJournalled'
    BY <1>0, <2>1, <2>2, <2>6, BoundsAssumption
    DEF IInv, TypeOK, CommitsAreJournalled, NamesAreOld, Message
  <2> QED BY <2>3, <2>4, <2>5, <2>7, <2>8 DEF IInv
<1> QED BY <1>1, <1>2

LEMMA ProcessKeeps ==
  IInv /\ (Exit \/ ManagerStop \/ Reboot \/ AdmitOrFinish \/ Tick) => IInv'
<1> SUFFICES ASSUME IInv, Exit \/ ManagerStop \/ Reboot \/ AdmitOrFinish \/ Tick PROVE IInv'
  OBVIOUS
<1>1. CASE Exit
  BY <1>1, DownKeeps DEF Exit, IInv, TypeOK
<1>2. CASE ManagerStop
  BY <1>2, DownKeeps DEF ManagerStop
<1>3. CASE Reboot
  BY <1>3, DownKeeps DEF Reboot
<1>4. CASE AdmitOrFinish
  BY <1>4, InferenceGrantsNothing, InvSound, QuietKeeps DEF AdmitOrFinish
<1>5. CASE Tick
  BY <1>5, TickGrantsNothing, InvSound, QuietKeeps DEF Tick
<1> QED BY <1>1, <1>2, <1>3, <1>4, <1>5

-----------------------------------------------------------------------------
(* ServiceStop: the controller                                             *)

\* A controller reads the process at most, which drops an expired lease.
ControllerFrame ==
  /\ GrantsNothing
  /\ UNCHANGED <<inference, proc>>
  /\ ctl'.run = ctl.run

LEMMA FrameKeeps ==
  ASSUME IInv, ControllerFrame
  PROVE  /\ A!TypeOK' /\ CommittedIsIdle' /\ ~legacy'
         /\ Serving' = Serving /\ (A!Committed' <=> A!Committed)
         /\ epoch' = epoch /\ (A!Committed => lease'.owner = lease.owner)
         /\ ~Serving => epoch' = 0 /\ lease' = NoLease /\ inference' = 0
         /\ lease' # NoLease => lease # NoLease /\ lease'.owner = lease.owner
         /\ \A m \in msgs : Dead(m) => Dead(m)'
  BY DEF IInv, RestsUnlessServing, ControllerFrame, GrantsNothing, Moves, Serving, Dead

\* A controller that leaves the work to others, with the journal as it was.
LEMMA LeaveKeeps ==
  ASSUME IInv, ControllerFrame, UNCHANGED <<journal, msgs, stops>>, ctl.at # "idle",
         registered' \in BOOLEAN, ctl' \in [run: 0..MaxRuns, at: Place, op: Op \union {NoOp},
                                            reply: Reply \union {NoMsg}, late: BOOLEAN],
         ctl'.at \notin Working \union {"managing"},
         ctl'.at \in Unsent => ctl.at \in Unsent,
         ctl'.op \in {ctl.op, NoOp},
         RecordedStage = "stop_started" => ctl'.at \in {"idle", "load"}
  PROVE  IInv'
<1>0. RecordedStage' = RecordedStage /\ proc' = proc /\ ctl'.run = ctl.run
  BY DEF RecordedStage, ControllerFrame
<1>1. TypeOK'
  BY <1>0, FrameKeeps DEF IInv, TypeOK
<1>2. NamesAreOld' /\ TokensAreOld' /\ RestsUnlessServing'
  BY <1>0, FrameKeeps DEF IInv, NamesAreOld, Names, TokensAreOld, RestsUnlessServing
<1>3. AsksAboutItsOwn' /\ WorksOnJournal' /\ AnswersAreGranted' /\ StopsAreRecorded'
  BY <1>0 DEF IInv, AsksAboutItsOwn, WorksOnJournal, AnswersAreGranted, StopsAreRecorded, Working
<1>4. CommitsAreJournalled' /\ LeaseIsJournalled' /\ CommitmentIsTrue'
  BY <1>0, FrameKeeps DEF IInv, CommitsAreJournalled, LeaseIsJournalled, CommitmentIsTrue, Intended
<1> QED BY <1>1, <1>2, <1>3, <1>4, FrameKeeps DEF IInv

\* A controller that goes on with what it has, and has nothing new of it.
LEMMA ContinueKeeps ==
  ASSUME IInv, ControllerFrame, UNCHANGED <<registered, journal, msgs, stops>>, ctl.at # "idle",
         ctl' \in [run: 0..MaxRuns, at: Place, op: Op \union {NoOp},
                  reply: Reply \union {NoMsg}, late: BOOLEAN],
         ctl'.op = ctl.op, ctl'.reply = ctl.reply,
         \/ ctl'.at = ctl.at
         \/ ctl.at \in Working /\ ctl.reply # NoMsg /\ ctl'.at = "loop"
  PROVE  IInv'
<1>0. RecordedStage' = RecordedStage /\ proc' = proc /\ ctl'.run = ctl.run
  BY DEF RecordedStage, ControllerFrame
<1>1. TypeOK'
  BY <1>0, FrameKeeps DEF IInv, TypeOK
<1>2. NamesAreOld' /\ TokensAreOld' /\ RestsUnlessServing'
  BY <1>0, FrameKeeps DEF IInv, NamesAreOld, Names, TokensAreOld, Unsent, RestsUnlessServing
<1>3. AsksAboutItsOwn' /\ StopsAreRecorded'
  BY <1>0 DEF IInv, AsksAboutItsOwn, StopsAreRecorded, Working
<1>4. WorksOnJournal'
  BY <1>0, FrameKeeps DEF IInv, WorksOnJournal, Unknown, Working
<1>5. AnswersAreGranted'
  BY <1>0, FrameKeeps DEF IInv, AnswersAreGranted, Intended, Working
<1>6. CommitsAreJournalled' /\ LeaseIsJournalled' /\ CommitmentIsTrue'
  BY <1>0, FrameKeeps DEF IInv, CommitsAreJournalled, LeaseIsJournalled, CommitmentIsTrue, Intended
<1> QED BY <1>1, <1>2, <1>3, <1>4, <1>5, <1>6, FrameKeeps DEF IInv

\* The journal is cleared when its process is gone, or has let its lease go.
LEMMA ClearKeeps ==
  ASSUME IInv, ControllerFrame, journal' = NoOp, UNCHANGED <<registered, msgs, stops>>,
         ctl.at # "idle",
         ctl' \in [run: 0..MaxRuns, at: Place, op: Op \union {NoOp},
                  reply: Reply \union {NoMsg}, late: BOOLEAN],
         ctl'.at \in {"idle", "stopped"}, ctl'.op \in {ctl.op, NoOp},
         RecordedStage # "stop_started",
         proc.at = "down" \/ ~Intended
  PROVE  IInv'
<1>0. RecordedStage' = "none" /\ proc' = proc /\ ctl'.run = ctl.run
  BY DEF RecordedStage, ControllerFrame
<1>1. TypeOK'
  BY <1>0, FrameKeeps DEF IInv, TypeOK
<1>2. NamesAreOld' /\ TokensAreOld' /\ RestsUnlessServing'
  BY <1>0, FrameKeeps DEF IInv, NamesAreOld, Names, TokensAreOld, RestsUnlessServing, Unsent
<1>3. AsksAboutItsOwn' /\ WorksOnJournal' /\ AnswersAreGranted' /\ StopsAreRecorded'
  BY <1>0 DEF IInv, AsksAboutItsOwn, WorksOnJournal, AnswersAreGranted, StopsAreRecorded, Working
<1>4. CommitmentIsTrue' /\ ~Intended'
  BY <1>0 DEF CommitmentIsTrue, Intended
<1>5. CommitsAreJournalled' /\ LeaseIsJournalled'
  BY <1>0, <1>4, FrameKeeps DEF IInv, CommitsAreJournalled, LeaseIsJournalled, Serving
<1> QED BY <1>1, <1>2, <1>3, <1>4, <1>5, FrameKeeps DEF IInv

LEMMA TakeLockKeeps == IInv /\ TakeLock => IInv'
<1> SUFFICES ASSUME IInv, TakeLock PROVE IInv'
  OBVIOUS
<1>0. /\ ctl.at = "idle" /\ ctl'.at = "load" /\ ctl'.run = ctl.run + 1 /\ ctl'.op = ctl.op
      /\ ctl'.reply = ctl.reply
      /\ UNCHANGED <<admission, proc, registered, stops, journal, msgs>>
      /\ UNCHANGED <<epoch, legacy, lease, inference>> /\ RecordedStage' = RecordedStage
  BY DEF TakeLock, IInv, TypeOK, environment, admission, RecordedStage
<1>1. TypeOK'
  <2>1. ctl' \in [run: 0..MaxRuns, at: Place, op: Op \union {NoOp},
                  reply: Reply \union {NoMsg}, late: BOOLEAN]
    <3>1. ctl.run + 1 \in 0..MaxRuns /\ "load" \in Place
      BY BoundsAssumption DEF TakeLock, IInv, TypeOK, Place
    <3> QED BY <3>1 DEF TakeLock, IInv, TypeOK
  <2>2. A!TypeOK'
    BY <1>0 DEF IInv, TypeOK, A!TypeOK
  <2> QED BY <1>0, <2>1, <2>2 DEF IInv, TypeOK
<1>2. NamesAreOld'
  BY <1>0 DEF IInv, NamesAreOld, Names
<1>3. TokensAreOld'
  BY <1>0, BoundsAssumption DEF IInv, TypeOK, A!TypeOK, A!Lease, TokensAreOld, Op, Message, Runs
<1>4. RestsUnlessServing' /\ CommittedIsIdle'
  BY <1>0 DEF IInv, RestsUnlessServing, CommittedIsIdle, Serving, A!Committed
<1>5. AsksAboutItsOwn' /\ WorksOnJournal' /\ AnswersAreGranted' /\ StopsAreRecorded'
  BY <1>0 DEF IInv, AsksAboutItsOwn, WorksOnJournal, AnswersAreGranted, StopsAreRecorded, Working
<1>6. CommitsAreJournalled' /\ LeaseIsJournalled' /\ CommitmentIsTrue'
  BY <1>0 DEF IInv, CommitsAreJournalled, LeaseIsJournalled, CommitmentIsTrue, Intended, Serving,
     Dead, A!Current, A!Expired, A!Committed
<1> QED BY <1>1, <1>2, <1>3, <1>4, <1>5, <1>6 DEF IInv

\* What is sent names the operation it is sent about.
Sent(action, op) ==
  \A m \in msgs' \ msgs :
    /\ m \in Message /\ m.from = ctl.run /\ m.action = action
    /\ m.id = op.id /\ m.owner = op.owner /\ m.epoch = op.epoch
LEMMA SendSends ==
  ASSUME NEW op \in Op, NEW action \in A!Action, ctl.run \in Runs, Send(action, op)
  PROVE  /\ Sent(action, op) /\ msgs \subseteq msgs'
         /\ proc.at = "down" => msgs' = msgs
<1>1. [from |-> ctl.run, action |-> action, id |-> op.id, owner |-> op.owner, epoch |-> op.epoch]
        \in Message
  BY DEF Op, Message
<1> QED BY <1>1 DEF Send, Sent

LEMMA OpOfWorker == IInv /\ ctl.at \in Working => ctl.op \in Op /\ ctl.op # NoOp
  BY DEF IInv, TypeOK, AsksAboutItsOwn

LEMMA RunsAtWork == IInv /\ ctl.at # "idle" => ctl.run \in Runs
  BY BoundsAssumption DEF IInv, TypeOK, TokensAreOld, Runs

\* A controller at work asks again about the journal's operation.
LEMMA AskKeeps ==
  ASSUME IInv, ControllerFrame, UNCHANGED <<registered, journal, stops>>,
         ctl.at \in {"loop", "renewing", "committing", "recheck"},
         NEW place \in {"renewing", "releasing", "reinspect"}, Goto(place),
         place = "releasing" => ctl.op.stage = "waiting",
         NEW action \in A!Action \ {"commit"}, Send(action, ctl.op)
  PROVE  IInv'
<1> USE DEF Goto
<1>0. /\ RecordedStage' = RecordedStage /\ proc' = proc /\ ctl'.run = ctl.run
      /\ ctl'.op = ctl.op /\ ctl'.reply = NoMsg /\ ctl'.at = place
      /\ ctl.at \in Working /\ ctl.op \in Op /\ ctl.op # NoOp /\ ctl.run \in Runs
      /\ journal = ctl.op
  BY OpOfWorker, RunsAtWork
  DEF RecordedStage, ControllerFrame, IInv, TypeOK, Working, WorksOnJournal, Unknown
<1>1. Sent(action, ctl.op) /\ msgs \subseteq msgs' /\ (proc.at = "down" => msgs' = msgs)
  BY <1>0, SendSends
<1>2. TypeOK'
  <2>1. ctl' \in [run: 0..MaxRuns, at: Place, op: Op \union {NoOp},
                  reply: Reply \union {NoMsg}, late: BOOLEAN]
    BY DEF IInv, TypeOK, Place
  <2>2. msgs' \subseteq Message
    BY <1>1 DEF Sent, IInv, TypeOK
  <2> QED BY <1>0, <2>1, <2>2, FrameKeeps DEF IInv, TypeOK
<1>3. NamesAreOld'
  BY <1>0, <1>1 DEF IInv, NamesAreOld, Names, Sent
<1>4. TokensAreOld'
  BY <1>0, <1>1, FrameKeeps DEF IInv, TypeOK, TokensAreOld, Unsent, Sent
<1>5. RestsUnlessServing'
  BY <1>0, <1>1, FrameKeeps DEF IInv, RestsUnlessServing
<1>6. AsksAboutItsOwn' /\ StopsAreRecorded'
  BY <1>0, <1>1 DEF IInv, AsksAboutItsOwn, StopsAreRecorded, Working, Sent
<1>7. WorksOnJournal' /\ AnswersAreGranted'
  BY <1>0 DEF IInv, WorksOnJournal, AnswersAreGranted, Working
<1>8. CommitsAreJournalled' /\ LeaseIsJournalled' /\ CommitmentIsTrue'
  BY <1>0, <1>1, FrameKeeps DEF IInv, CommitsAreJournalled, LeaseIsJournalled, CommitmentIsTrue,
     Intended, Sent
<1> QED BY <1>2, <1>3, <1>4, <1>5, <1>6, <1>7, <1>8, FrameKeeps DEF IInv

LEMMA SawIdleKeeps == IInv /\ SawIdle => IInv'
<1> SUFFICES ASSUME IInv, SawIdle PROVE IInv'
  OBVIOUS
<1> DEFINE op == [ctl.op EXCEPT !.stage = "commit_intent"]
<1>0. /\ ctl.at = "loop" /\ journal' = op /\ Send("commit", op)
      /\ ctl' = [ctl EXCEPT !.at = "committing", !.op = op, !.reply = NoMsg]
      /\ UNCHANGED <<admission, proc, registered, stops>>
  BY DEF SawIdle, GotoWith, environment
<1>1. /\ ctl.op \in Op /\ ctl.op # NoOp /\ journal = ctl.op /\ ctl.run \in Runs
      /\ ctl.reply # NoMsg
  BY <1>0, OpOfWorker, RunsAtWork
  DEF IInv, TypeOK, Working, WorksOnJournal, Unknown, AnswersAreGranted
<1>2. /\ op \in Op /\ op # NoOp /\ op.id = ctl.op.id /\ op.owner = ctl.op.owner
      /\ op.epoch = ctl.op.epoch /\ op.stage = "commit_intent"
  <2>1. op \in Op /\ op.stage = "commit_intent"
    BY <1>1 DEF Op, Stage
  <2> QED BY <1>1, <2>1, AbsenceAssumption DEF Op
<1> HIDE DEF op
<1>3. /\ ctl'.run = ctl.run /\ ctl'.at = "committing" /\ ctl'.op = op /\ ctl'.reply = NoMsg
      /\ ControllerFrame /\ RecordedStage' = "commit_intent" /\ Intended'
  BY <1>0, <1>2, InvSound, StutterGrantsNothing
  DEF IInv, TypeOK, ControllerFrame, admission, RecordedStage, Intended
<1>4. Sent("commit", op) /\ msgs \subseteq msgs' /\ (proc.at = "down" => msgs' = msgs)
  BY <1>0, <1>1, <1>2, SendSends DEF A!Action
<1>5. TypeOK'
  <2>1. ctl' \in [run: 0..MaxRuns, at: Place, op: Op \union {NoOp},
                  reply: Reply \union {NoMsg}, late: BOOLEAN]
    BY <1>0, <1>2 DEF IInv, TypeOK, Place
  <2>2. msgs' \subseteq Message
    BY <1>4 DEF Sent, IInv, TypeOK
  <2> QED BY <1>0, <1>2, <1>3, <2>1, <2>2, FrameKeeps DEF IInv, TypeOK
<1>6. NamesAreOld'
  BY <1>0, <1>1, <1>2, <1>3, <1>4 DEF IInv, NamesAreOld, Names, Sent
<1>7. TokensAreOld'
  BY <1>0, <1>1, <1>2, <1>3, <1>4, FrameKeeps DEF IInv, TypeOK, TokensAreOld, Unsent, Sent, Runs
<1>8. RestsUnlessServing'
  BY <1>0, <1>3, <1>4, FrameKeeps DEF IInv, RestsUnlessServing
<1>9. AsksAboutItsOwn'
  BY <1>0, <1>1, <1>2, <1>3, <1>4 DEF IInv, AsksAboutItsOwn, Working, Sent
<1>10. WorksOnJournal' /\ AnswersAreGranted' /\ StopsAreRecorded' /\ CommitmentIsTrue'
  BY <1>0, <1>1, <1>3
  DEF IInv, WorksOnJournal, AnswersAreGranted, StopsAreRecorded, CommitmentIsTrue, Working
\* The lease the commit names has been granted, and is the journal's.
<1>11. Serving /\ ctl.op.id = proc.id => ctl.op.epoch <= epoch
  BY <1>0, <1>1 DEF IInv, AnswersAreGranted, Working
<1>12. CommitsAreJournalled'
  BY <1>0, <1>1, <1>2, <1>3, <1>4, <1>11, FrameKeeps DEF IInv, CommitsAreJournalled, Sent
<1>13. LeaseIsJournalled'
  BY <1>0, <1>1, <1>2, <1>3, FrameKeeps DEF IInv, LeaseIsJournalled
<1> QED BY <1>3, <1>5, <1>6, <1>7, <1>8, <1>9, <1>10, <1>12, <1>13, FrameKeeps DEF IInv


\* The journal's operation moves on, once it is true of the process.
Named(a, b) == a \in Op /\ b \in Op /\ a.id = b.id /\ a.owner = b.owner /\ a.epoch = b.epoch
LEMMA AdvanceKeeps ==
  ASSUME IInv, ControllerFrame, UNCHANGED <<registered, msgs>>, stops' \subseteq Runs,
         Named(journal, journal'), Intended, Intended',
         Serving => journal.id = proc.id /\ A!Committed,
         Named(ctl.op, ctl'.op), ctl.at # "idle",
         ctl' \in [run: 0..MaxRuns, at: Place, op: Op \union {NoOp},
                  reply: Reply \union {NoMsg}, late: BOOLEAN],
         ctl'.at \in {"recheck", "managing", "port"},
         ctl'.at = "recheck" => ctl.at \in Working
  PROVE  /\ TypeOK' /\ NamesAreOld' /\ TokensAreOld' /\ RestsUnlessServing' /\ CommittedIsIdle'
         /\ AsksAboutItsOwn' /\ CommitsAreJournalled' /\ LeaseIsJournalled' /\ CommitmentIsTrue'
<1>0. /\ proc' = proc /\ ctl'.run = ctl.run /\ journal # NoOp /\ journal' # NoOp
      /\ ctl.op # NoOp /\ ctl'.op # NoOp
  BY AbsenceAssumption DEF ControllerFrame, Named
<1>1. TypeOK'
  BY <1>0, FrameKeeps DEF IInv, TypeOK, Named
<1>2. NamesAreOld' /\ TokensAreOld' /\ RestsUnlessServing' /\ CommittedIsIdle'
  BY <1>0, FrameKeeps DEF IInv, NamesAreOld, Names, TokensAreOld, Unsent, RestsUnlessServing, Named
<1>3. AsksAboutItsOwn'
  BY <1>0 DEF IInv, AsksAboutItsOwn, Named, Working
<1>4. CommitsAreJournalled' /\ LeaseIsJournalled' /\ CommitmentIsTrue'
  BY <1>0, FrameKeeps DEF IInv, CommitsAreJournalled, LeaseIsJournalled, CommitmentIsTrue, Named
<1> QED BY <1>1, <1>2, <1>3, <1>4

LEMMA SawCommittedKeeps == IInv /\ SawCommitted => IInv'
<1> SUFFICES ASSUME IInv, SawCommitted PROVE IInv'
  OBVIOUS
<1> DEFINE op == [ctl.op EXCEPT !.stage = "committed"]
<1>0. /\ ctl.at = "loop" /\ ctl.reply.phase = "committed" /\ journal' = op
      /\ ctl' = [ctl EXCEPT !.at = "recheck", !.op = op, !.reply = NoMsg]
      /\ UNCHANGED <<admission, proc, registered, stops, msgs>>
  BY DEF SawCommitted, GotoWith, environment
<1>1. /\ ctl.op \in Op /\ journal = ctl.op /\ ctl.reply # NoMsg /\ ctl.at \in Working
      /\ Intended /\ (Serving => journal.id = proc.id /\ A!Committed)
  BY <1>0, OpOfWorker DEF IInv, Working, WorksOnJournal, Unknown, AnswersAreGranted
<1>2. op \in Op /\ op.stage = "committed" /\ op # NoOp /\ Named(ctl.op, op)
  <2>1. op \in Op /\ op.stage = "committed" /\ Named(ctl.op, op)
    BY <1>1 DEF Op, Stage, Named
  <2> QED BY <2>1, AbsenceAssumption
<1> HIDE DEF op
<1>3. /\ ctl'.run = ctl.run /\ ctl'.at = "recheck" /\ ctl'.op = op /\ ctl'.reply = NoMsg
      /\ ControllerFrame /\ RecordedStage' = "committed" /\ Intended'
      /\ ctl' \in [run: 0..MaxRuns, at: Place, op: Op \union {NoOp},
                  reply: Reply \union {NoMsg}, late: BOOLEAN]
  BY <1>0, <1>2, InvSound, StutterGrantsNothing
  DEF IInv, TypeOK, ControllerFrame, admission, RecordedStage, Intended, Place
<1>4. WorksOnJournal' /\ AnswersAreGranted' /\ StopsAreRecorded'
  BY <1>0, <1>1, <1>3
  DEF IInv, WorksOnJournal, AnswersAreGranted, StopsAreRecorded, Working
<1> QED BY <1>0, <1>1, <1>2, <1>3, <1>4, AdvanceKeeps DEF IInv, TypeOK

LEMMA SubmitStopKeeps == IInv /\ SubmitStop => IInv'
<1> SUFFICES ASSUME IInv, SubmitStop PROVE IInv'
  OBVIOUS
<1> DEFINE op == [ctl.op EXCEPT !.stage = "stop_started"]
<1>0. /\ ctl.at = "reinspect" /\ ctl.reply.phase = "committed" /\ ctl.reply # NoMsg /\ journal' = op
      /\ stops' = stops \union {ctl.run}
      /\ ctl' = [ctl EXCEPT !.at = "managing", !.reply = NoMsg]
      /\ UNCHANGED <<admission, proc, registered, msgs>>
  BY DEF SubmitStop, Goto
<1>1. /\ ctl.op \in Op /\ journal = ctl.op /\ ctl.at \in Working /\ ctl.run \in Runs
      /\ Intended /\ (Serving => journal.id = proc.id /\ A!Committed)
  BY <1>0, OpOfWorker, RunsAtWork DEF IInv, Working, WorksOnJournal, Unknown, AnswersAreGranted
<1>2. op \in Op /\ op.stage = "stop_started" /\ op # NoOp /\ Named(ctl.op, op)
  <2>1. op \in Op /\ op.stage = "stop_started" /\ Named(ctl.op, op)
    BY <1>1 DEF Op, Stage, Named
  <2> QED BY <2>1, AbsenceAssumption
<1>3. stops = {}
  BY <1>0 DEF IInv, StopsAreRecorded
<1>4. /\ ctl'.run = ctl.run /\ ctl'.at = "managing" /\ ctl'.op = ctl.op /\ ctl'.reply = NoMsg
      /\ ControllerFrame /\ RecordedStage' = "stop_started" /\ Intended'
      /\ ctl' \in [run: 0..MaxRuns, at: Place, op: Op \union {NoOp},
                  reply: Reply \union {NoMsg}, late: BOOLEAN]
  BY <1>0, <1>2, InvSound, StutterGrantsNothing
  DEF IInv, TypeOK, ControllerFrame, admission, RecordedStage, Intended, Place
<1>5. WorksOnJournal' /\ AnswersAreGranted'
  BY <1>4 DEF WorksOnJournal, AnswersAreGranted, Working
<1>6. StopsAreRecorded'
  BY <1>0, <1>1, <1>3, <1>4, AbsenceAssumption DEF StopsAreRecorded
<1> QED
  <2>1. Named(ctl.op, ctl'.op) /\ Named(journal, journal') /\ stops' \subseteq Runs
    BY <1>0, <1>1, <1>2, <1>3, <1>4 DEF Named
  <2> QED BY <1>0, <1>1, <1>4, <1>5, <1>6, <2>1, AdvanceKeeps DEF IInv

LEMMA AcknowledgedKeeps == IInv /\ StopAcknowledged => IInv'
<1> SUFFICES ASSUME IInv, StopAcknowledged PROVE IInv'
  OBVIOUS
<1> DEFINE op == [ctl.op EXCEPT !.stage = "stop_acknowledged"]
<1>0. /\ ctl.at = "managing" /\ journal' = op /\ ctl.run \notin stops
      /\ ctl' = [ctl EXCEPT !.at = "port", !.reply = NoMsg]
      /\ UNCHANGED <<admission, proc, registered, stops, msgs>>
  BY DEF StopAcknowledged, Goto, environment
<1>1. /\ ctl.op \in Op /\ journal = [ctl.op EXCEPT !.stage = "stop_started"] /\ stops = {}
  BY <1>0 DEF IInv, TypeOK, StopsAreRecorded
<1>2. Named(journal, op) /\ op.stage = "stop_acknowledged" /\ journal.stage = "stop_started"
  BY <1>1 DEF Op, Stage, Named
<1>3. Intended /\ (Serving => journal.id = proc.id /\ A!Committed) /\ op # NoOp
  BY <1>2, AbsenceAssumption DEF IInv, CommitmentIsTrue, Intended, RecordedStage, Named
<1> HIDE DEF op
<1>4. /\ ctl'.run = ctl.run /\ ctl'.at = "port" /\ ctl'.op = ctl.op /\ ctl'.reply = NoMsg
      /\ ControllerFrame /\ RecordedStage' = "stop_acknowledged" /\ Intended'
      /\ ctl' \in [run: 0..MaxRuns, at: Place, op: Op \union {NoOp},
                  reply: Reply \union {NoMsg}, late: BOOLEAN]
  BY <1>0, <1>2, <1>3, InvSound, StutterGrantsNothing
  DEF IInv, TypeOK, ControllerFrame, admission, RecordedStage, Intended, Place
<1>5. WorksOnJournal' /\ AnswersAreGranted' /\ StopsAreRecorded'
  BY <1>0, <1>1, <1>4 DEF WorksOnJournal, AnswersAreGranted, StopsAreRecorded, Working
<1> QED
  <2>1. Named(ctl.op, ctl'.op) /\ Named(journal, journal') /\ stops' \subseteq Runs
    BY <1>0, <1>1, <1>2, <1>4 DEF Named
  <2> QED BY <1>0, <1>3, <1>4, <1>5, <2>1, AdvanceKeeps DEF IInv

\* The operation of a process is the recorded one or a new one.
LEMMA OpForTyped ==
  ASSUME IInv, Serving, ctl.at = "status", SameProcess \/ epoch < MaxEpoch
  PROVE  /\ OpFor(EpochToCome) \in Op /\ OpFor(EpochToCome).id = proc.id
         /\ OpFor(EpochToCome).owner <= ctl.run /\ ctl.run \in Runs /\ proc.id \in 1..MaxProcs
         /\ SameProcess => journal = OpFor(EpochToCome) /\ journal # NoOp
         /\ ~SameProcess => OpFor(EpochToCome).owner = ctl.run
<1>1. proc.id \in 1..MaxProcs /\ ctl.run \in Runs
  BY RunsAtWork, BoundsAssumption DEF IInv, TypeOK, RestsUnlessServing, Serving
<1>2. CASE SameProcess
  <2>1. journal # NoOp /\ journal.id = proc.id
    BY <1>1, <1>2, BoundsAssumption DEF SameProcess, RecordedProcess
  <2> QED BY <1>1, <1>2, <2>1 DEF OpFor, IInv, TypeOK, TokensAreOld
<1>3. CASE ~SameProcess
  <2>1. EpochToCome \in 1..MaxEpoch
    BY <1>3, AdmissionAssumption DEF EpochToCome, IInv, TypeOK, A!TypeOK
  <2>2. OpFor(EpochToCome) =
          [id |-> proc.id, owner |-> ctl.run, epoch |-> EpochToCome, stage |-> "waiting"]
    BY <1>3 DEF OpFor
  <2>3. OpFor(EpochToCome) \in Op
    BY <1>1, <2>1, <2>2 DEF Op, Stage
  <2> QED BY <1>1, <1>3, <2>2, <2>3 DEF Runs
<1> QED BY <1>2, <1>3

LEMMA ReadStatusKeeps == IInv /\ ReadStatus => IInv'
<1> SUFFICES ASSUME IInv, ReadStatus PROVE IInv'
  OBVIOUS
<1> DEFINE op == [OpFor(EpochToCome) EXCEPT !.epoch = EpochToCome, !.stage = "waiting"]
<1>0. /\ ctl.at = "status" /\ Serving /\ A!Phase = "open" /\ A!Observe /\ epoch < MaxEpoch
      /\ journal' = op /\ Send("acquire", op)
      /\ ctl' = [ctl EXCEPT !.at = "first", !.op = op, !.reply = NoMsg]
      /\ UNCHANGED <<proc, registered, stops>>
  BY DEF ReadStatus, GotoWith
<1>1. /\ op \in Op /\ op.id = proc.id /\ op.owner <= ctl.run /\ op.stage = "waiting"
      /\ op # NoOp /\ ctl.run \in Runs /\ proc.at # "starting"
  <2>1. EpochToCome \in 1..MaxEpoch
    BY <1>0, AdmissionAssumption DEF EpochToCome, IInv, TypeOK, A!TypeOK
  <2>2. op \in Op /\ op.id = proc.id /\ op.owner <= ctl.run /\ op.stage = "waiting"
    BY <1>0, <2>1, OpForTyped DEF Op, Stage
  <2> QED BY <1>0, <2>2, OpForTyped, AbsenceAssumption DEF Serving
<1> HIDE DEF op
<1>2. ~A!Committed /\ A!Current = NoLease
  BY <1>0 DEF A!Phase
<1>3. /\ ctl'.run = ctl.run /\ ctl'.at = "first" /\ ctl'.op = op /\ ctl'.reply = NoMsg
      /\ ControllerFrame /\ RecordedStage' = "waiting" /\ ~Intended'
  BY <1>0, <1>1, InvSound, ObserveGrantsNothing
  DEF IInv, TypeOK, ControllerFrame, A!Observe, RecordedStage, Intended
<1>4. Sent("acquire", op) /\ msgs \subseteq msgs' /\ (proc.at = "down" => msgs' = msgs)
  BY <1>0, <1>1, SendSends DEF A!Action
<1>5. TypeOK'
  <2>1. ctl' \in [run: 0..MaxRuns, at: Place, op: Op \union {NoOp},
                  reply: Reply \union {NoMsg}, late: BOOLEAN]
    BY <1>0, <1>1 DEF IInv, TypeOK, Place
  <2>2. msgs' \subseteq Message
    BY <1>4 DEF Sent, IInv, TypeOK
  <2> QED BY <1>0, <1>1, <1>3, <2>1, <2>2, FrameKeeps DEF IInv, TypeOK
<1>6. NamesAreOld'
  BY <1>0, <1>1, <1>3, <1>4, BoundsAssumption DEF IInv, TypeOK, NamesAreOld, Names, Sent
<1>7. TokensAreOld'
  <2>1. ctl.run # 0 /\ ctl.run <= ctl.run
    BY <1>1 DEF Runs
  <2>2. \A m \in msgs' : m.from <= ctl.run /\ m.owner <= ctl.run
    BY <1>1, <1>4, <2>1 DEF IInv, TokensAreOld, Sent
  <2> QED BY <1>0, <1>1, <1>3, <2>1, <2>2, FrameKeeps DEF IInv, TokensAreOld, Unsent
<1>8. RestsUnlessServing'
  BY <1>0, <1>3, <1>4, FrameKeeps DEF IInv, RestsUnlessServing
<1>9. AsksAboutItsOwn'
  BY <1>0, <1>1, <1>3, <1>4 DEF IInv, AsksAboutItsOwn, TokensAreOld, Unsent, Sent
<1>10. WorksOnJournal' /\ AnswersAreGranted' /\ StopsAreRecorded' /\ CommitmentIsTrue'
  BY <1>0, <1>1, <1>3
  DEF IInv, WorksOnJournal, AnswersAreGranted, StopsAreRecorded, CommitmentIsTrue
\* Commits of earlier leases are dead: the process has no lease.
<1>11. ASSUME NEW m \in msgs, m.action = "commit", m.id = proc.id
       PROVE  Dead(m)
  <2>1. Dead(m) \/ m.epoch <= epoch
    BY <1>0, <1>11 DEF IInv, CommitsAreJournalled
  <2>2. m.epoch \in Nat /\ epoch \in Nat
    BY AdmissionAssumption DEF IInv, TypeOK, A!TypeOK, Message
  <2> QED BY <1>2, <2>1, <2>2 DEF Dead
<1>12. CommitsAreJournalled'
  BY <1>0, <1>3, <1>4, <1>11, FrameKeeps DEF CommitsAreJournalled, Sent
<1>13. LeaseIsJournalled'
  BY <1>2, <1>3, FrameKeeps DEF LeaseIsJournalled
<1> QED BY <1>3, <1>5, <1>6, <1>7, <1>8, <1>9, <1>10, <1>12, <1>13, FrameKeeps DEF IInv

LEMMA ReadFencedKeeps == IInv /\ ReadStatusFenced => IInv'
<1> SUFFICES ASSUME IInv, ReadStatusFenced PROVE IInv'
  OBVIOUS
<1> DEFINE op == OpFor(EpochToCome)
<1>0. /\ ctl.at = "status" /\ Serving /\ A!Observe /\ (SameProcess \/ epoch < MaxEpoch)
      /\ Send("inspect", op)
      /\ ctl' = [ctl EXCEPT !.at = "first", !.op = op, !.reply = NoMsg]
      /\ UNCHANGED <<proc, registered, journal, stops>>
  BY DEF ReadStatusFenced, GotoWith
<1>1. /\ op \in Op /\ op.id = proc.id /\ op.owner <= ctl.run /\ op # NoOp
      /\ ctl.run \in Runs /\ proc.at # "starting"
      /\ (SameProcess => journal = op) /\ (~SameProcess => op.owner = ctl.run)
  BY <1>0, OpForTyped, AbsenceAssumption DEF Serving
<1> HIDE DEF op
<1>2. /\ ctl'.run = ctl.run /\ ctl'.at = "first" /\ ctl'.op = op /\ ctl'.reply = NoMsg
      /\ ControllerFrame /\ RecordedStage' = RecordedStage
  BY <1>0, InvSound, ObserveGrantsNothing
  DEF IInv, TypeOK, ControllerFrame, A!Observe, RecordedStage
<1>3. Sent("inspect", op) /\ msgs \subseteq msgs' /\ (proc.at = "down" => msgs' = msgs)
  BY <1>0, <1>1, SendSends DEF A!Action
<1>4. TypeOK'
  <2>1. ctl' \in [run: 0..MaxRuns, at: Place, op: Op \union {NoOp},
                  reply: Reply \union {NoMsg}, late: BOOLEAN]
    BY <1>0, <1>1 DEF IInv, TypeOK, Place
  <2>2. msgs' \subseteq Message
    BY <1>3 DEF Sent, IInv, TypeOK
  <2> QED BY <1>0, <2>1, <2>2, FrameKeeps, <1>2 DEF IInv, TypeOK
<1>5. NamesAreOld'
  BY <1>0, <1>1, <1>2, <1>3, BoundsAssumption DEF IInv, TypeOK, NamesAreOld, Names, Sent
<1>6. TokensAreOld'
  <2>1. ctl.run # 0 /\ ctl.run <= ctl.run
    BY <1>1 DEF Runs
  <2>2. \A m \in msgs' : m.from <= ctl.run /\ m.owner <= ctl.run
    BY <1>1, <1>3, <2>1 DEF IInv, TokensAreOld, Sent
  <2> QED BY <1>0, <1>1, <1>2, <2>1, <2>2, FrameKeeps DEF IInv, TokensAreOld, Unsent
<1>7. RestsUnlessServing'
  BY <1>0, <1>2, <1>3, FrameKeeps DEF IInv, RestsUnlessServing
<1>8. AsksAboutItsOwn'
  BY <1>0, <1>1, <1>2, <1>3 DEF IInv, AsksAboutItsOwn, TokensAreOld, Unsent, Sent
\* Of another process's operation there is no lease, request or answer yet.
<1>9. WorksOnJournal'
  <2>1. ~SameProcess => Unknown'
    BY <1>0, <1>1, <1>2, <1>3, FrameKeeps DEF IInv, Unknown, TokensAreOld, Unsent, Sent
  <2> QED BY <1>0, <1>1, <1>2, <2>1 DEF WorksOnJournal
<1>10. AnswersAreGranted' /\ StopsAreRecorded'
  BY <1>0, <1>2 DEF IInv, AnswersAreGranted, StopsAreRecorded
<1>11. CommitsAreJournalled' /\ LeaseIsJournalled' /\ CommitmentIsTrue'
  BY <1>0, <1>2, <1>3, FrameKeeps DEF IInv, CommitsAreJournalled, LeaseIsJournalled, CommitmentIsTrue,
     Intended, Sent
<1> QED BY <1>2, <1>4, <1>5, <1>6, <1>7, <1>8, <1>9, <1>10, <1>11, FrameKeeps DEF IInv

\* Controller steps that touch neither the process nor the manager.
LEMMA StutterFrame ==
  ASSUME IInv, UNCHANGED <<environment, journal, msgs>>,
         ctl'.run = ctl.run
  PROVE  ControllerFrame /\ UNCHANGED <<admission, proc, registered, stops>> /\ registered' \in BOOLEAN
  BY InvSound, StutterGrantsNothing DEF environment, ControllerFrame, admission, IInv, TypeOK

LEMMA GotoTyped ==
  ASSUME IInv, NEW place \in Place, NEW op \in {ctl.op, NoOp},
         Goto(place) \/ GotoWith(place, op)
  PROVE  /\ ctl' \in [run: 0..MaxRuns, at: Place, op: Op \union {NoOp},
                      reply: Reply \union {NoMsg}, late: BOOLEAN]
         /\ ctl'.run = ctl.run /\ ctl'.at = place /\ ctl'.reply = NoMsg /\ ctl'.op \in {ctl.op, NoOp}
  BY DEF Goto, GotoWith, IInv, TypeOK

\* Controllers that give up, wait, or look at what they have.
LEMMA IdleKeeps ==
  IInv /\ (GiveUp \/ DeadlinePasses \/ LoadJournal \/ Replied \/ TimedOut \/ Activate) => IInv'
<1> SUFFICES ASSUME IInv, GiveUp \/ DeadlinePasses \/ LoadJournal \/ Replied \/ TimedOut \/ Activate
             PROVE  IInv'
  OBVIOUS
<1> USE DEF Place
<1>1. CASE GiveUp
  <2>1. ctl'.run = ctl.run /\ ctl'.at = "idle"
    BY <1>1, GotoTyped DEF GiveUp
  <2> QED BY <1>1, <2>1, GotoTyped, StutterFrame, LeaveKeeps DEF GiveUp, Working, Unsent
<1>2. CASE DeadlinePasses
  <2>1. /\ ctl'.run = ctl.run /\ ctl'.at = ctl.at /\ ctl'.op = ctl.op /\ ctl'.reply = ctl.reply
        /\ ctl' \in [run: 0..MaxRuns, at: Place, op: Op \union {NoOp},
                    reply: Reply \union {NoMsg}, late: BOOLEAN]
    BY <1>2 DEF DeadlinePasses, IInv, TypeOK
  <2> QED BY <1>2, <2>1, StutterFrame, ContinueKeeps DEF DeadlinePasses
<1>3. CASE LoadJournal
  <2>1. \E place \in {"port", "lookup"} : Goto(place)
    BY <1>3 DEF LoadJournal
  <2>2. ctl'.run = ctl.run /\ ctl'.at \in {"port", "lookup"}
    BY <2>1, GotoTyped
  <2> QED BY <1>3, <2>1, <2>2, GotoTyped, StutterFrame, LeaveKeeps
          DEF LoadJournal, Working, Unsent, MayContinue
<1>4. CASE Replied
  <2>1. /\ ctl'.run = ctl.run /\ ctl'.at = "loop" /\ ctl'.op = ctl.op /\ ctl'.reply = ctl.reply
        /\ ctl' \in [run: 0..MaxRuns, at: Place, op: Op \union {NoOp},
                    reply: Reply \union {NoMsg}, late: BOOLEAN]
    BY <1>4 DEF Replied, IInv, TypeOK
  <2> QED BY <1>4, <2>1, StutterFrame, ContinueKeeps DEF Replied, Working
<1>5. CASE TimedOut
  <2>1. ctl'.run = ctl.run /\ ctl'.at = "timed_out" /\ RecordedStage # "stop_started"
    BY <1>5, GotoTyped DEF TimedOut, IInv, StopsAreRecorded
  <2> QED BY <1>5, <2>1, GotoTyped, StutterFrame, LeaveKeeps DEF TimedOut, Working, Unsent
<1>6. CASE Activate
  <2>1. ctl'.run = ctl.run /\ ctl'.at = "idle" /\ ControllerFrame
    BY <1>6, GotoTyped, InvSound, StutterGrantsNothing DEF Activate, ControllerFrame, admission
  <2> QED BY <1>6, <2>1, GotoTyped, LeaveKeeps DEF Activate, Working, Unsent
<1> QED BY <1>1, <1>2, <1>3, <1>4, <1>5, <1>6

\* Controllers that find the process gone, or let it go.
LEMMA EndKeeps == IInv /\ (LookupJob \/ Released \/ PortFree) => IInv'
<1> SUFFICES ASSUME IInv, LookupJob \/ Released \/ PortFree PROVE IInv'
  OBVIOUS
<1> USE DEF Place
<1>1. CASE LookupJob
  <2>0. /\ ctl.at = "lookup" /\ RecordedStage # "stop_started"
        /\ UNCHANGED <<environment, msgs>>
    BY <1>1 DEF LookupJob, IInv, StopsAreRecorded
  <2>1. CASE Goto("status") /\ UNCHANGED journal
    <3>1. ctl'.run = ctl.run /\ ctl'.at = "status"
      BY <2>1, GotoTyped
    <3> QED BY <2>0, <2>1, <3>1, GotoTyped, StutterFrame, LeaveKeeps DEF Working, Unsent
  <2>2. CASE proc.at = "down" /\ Goto("stopped") /\ journal' = NoOp
    <3>1. ctl'.run = ctl.run /\ ctl'.at = "stopped"
      BY <2>2, GotoTyped
    <3>2. ControllerFrame
      BY <2>0, <3>1, InvSound, StutterGrantsNothing DEF environment, ControllerFrame, admission
    <3> QED BY <2>0, <2>2, <3>1, <3>2, GotoTyped, ClearKeeps DEF environment
  <2> QED BY <1>1, <2>1, <2>2 DEF LookupJob
<1>2. CASE Released
  <2>1. ctl.at = "releasing" /\ journal' = NoOp /\ UNCHANGED <<environment, msgs>> /\ ctl.reply # NoMsg
    BY <1>2 DEF Released
  <2>2. ctl'.run = ctl.run /\ ctl'.at = "idle"
    BY <1>2, GotoTyped DEF Released
  <2>3. ~Intended /\ RecordedStage # "stop_started"
    BY <2>1 DEF IInv, WorksOnJournal, Working, Unknown, Intended, RecordedStage, AsksAboutItsOwn
  <2>4. ControllerFrame
    BY <2>1, <2>2, InvSound, StutterGrantsNothing DEF environment, ControllerFrame, admission
  <2> QED BY <1>2, <2>1, <2>2, <2>3, <2>4, GotoTyped, ClearKeeps DEF environment, Released
<1>3. CASE PortFree
  <2>1. /\ ctl.at = "port" /\ journal' = NoOp /\ UNCHANGED <<environment, msgs>> /\ proc.at = "down"
        /\ RecordedStage # "stop_started"
    BY <1>3 DEF PortFree, IInv, StopsAreRecorded
  <2>2. ctl'.run = ctl.run /\ ctl'.at = "stopped"
    BY <1>3, GotoTyped DEF PortFree
  <2>3. ControllerFrame
    BY <2>1, <2>2, InvSound, StutterGrantsNothing DEF environment, ControllerFrame, admission
  <2> QED BY <1>3, <2>1, <2>2, <2>3, GotoTyped, ClearKeeps DEF environment, PortFree
<1> QED BY <1>1, <1>2, <1>3

\* Controllers that ask the process once more.
LEMMA AgainKeeps == IInv /\ (SawBusy \/ LoopFails \/ Recheck) => IInv'
<1> SUFFICES ASSUME IInv, SawBusy \/ LoopFails \/ Recheck PROVE IInv'
  OBVIOUS
<1> USE DEF Place
<1>1. CASE SawBusy
  <2>1. ctl'.run = ctl.run
    BY <1>1, GotoTyped DEF SawBusy
  <2> QED BY <1>1, <2>1, InvSound, StutterGrantsNothing, AskKeeps
          DEF SawBusy, A!Action, environment, ControllerFrame, admission
<1>2. CASE LoopFails
  <2>0. /\ ctl.at \in {"loop", "renewing", "committing"} /\ UNCHANGED <<environment, journal>>
        /\ RecordedStage # "stop_started"
    BY <1>2 DEF LoopFails, IInv, StopsAreRecorded
  <2>1. CASE ctl.op.stage = "waiting" /\ Send("release", ctl.op) /\ Goto("releasing")
    <3>1. ctl'.run = ctl.run
      BY <2>1, GotoTyped
    <3> QED BY <2>0, <2>1, <3>1, InvSound, StutterGrantsNothing, AskKeeps
            DEF A!Action, environment, ControllerFrame, admission
  <2>2. CASE GotoWith("idle", NoOp) /\ UNCHANGED msgs
    <3>1. ctl'.run = ctl.run /\ ctl'.at = "idle"
      BY <2>2, GotoTyped
    <3> QED BY <2>0, <2>2, <3>1, GotoTyped, StutterFrame, LeaveKeeps DEF Working, Unsent
  <2> QED BY <1>2, <2>1, <2>2 DEF LoopFails
<1>3. CASE Recheck
  <2>1. ctl'.run = ctl.run
    BY <1>3, GotoTyped DEF Recheck
  <2>2. ControllerFrame
    BY <1>3, <2>1, InvSound, ObserveGrantsNothing DEF Recheck, ControllerFrame, A!Observe
  <2> QED BY <1>3, <2>1, <2>2, AskKeeps DEF Recheck, A!Action
<1> QED BY <1>1, <1>2, <1>3

LEMMA NextIInv == IInv /\ [Next]_vars => IInv'
<1> SUFFICES ASSUME IInv, [Next]_vars PROVE IInv'
  OBVIOUS
<1>1. CASE Launch
  BY <1>1, LaunchKeeps
<1>2. CASE StartupCheck
  BY <1>2, StartupKeeps
<1>3. CASE Exit \/ ManagerStop \/ Reboot \/ AdmitOrFinish \/ Tick
  BY <1>3, ProcessKeeps
<1>4. CASE \E m \in msgs : Handle(m)
  BY <1>4, HandleKeeps
<1>5. CASE TakeLock
  BY <1>5, TakeLockKeeps
<1>6. CASE GiveUp \/ DeadlinePasses
  BY <1>6, IdleKeeps
<1>7. CASE Controller
  BY <1>7, IdleKeeps, EndKeeps, AgainKeeps, ReadStatusKeeps, ReadFencedKeeps, SawCommittedKeeps,
     SawIdleKeeps, SubmitStopKeeps, AcknowledgedKeeps
  DEF Controller
<1>8. CASE UNCHANGED vars
  BY <1>8
  DEF vars, IInv, TypeOK, A!TypeOK, NamesAreOld, Names, TokensAreOld, RestsUnlessServing,
      CommittedIsIdle, AsksAboutItsOwn, WorksOnJournal, Unknown, AnswersAreGranted,
      CommitsAreJournalled, Dead, LeaseIsJournalled, CommitmentIsTrue, StopsAreRecorded, Serving,
      Intended, RecordedStage, A!Committed, A!Current, A!Expired
<1> QED BY <1>1, <1>2, <1>3, <1>4, <1>5, <1>6, <1>7, <1>8 DEF Next

(* However many controllers died, however late their requests and stops    *)
(* arrive, and whatever was restarted in between: a stop the manager may   *)
(* still execute meets no inference, and no process serves under a stop    *)
(* recorded for another (proxy_agent.rs stop_until, load_drain and         *)
(* check_startup_journal against proxy_drain.rs).                          *)
THEOREM Harmless == Spec => [](TypeOK /\ StopsAreHarmless)
<1>1. IInv => TypeOK /\ StopsAreHarmless
  BY DEF IInv, StopsAreHarmless, PendingStopIsHarmless, NoServiceUnderForeignStop, StopsAreRecorded,
     CommitmentIsTrue, CommittedIsIdle
<1> QED BY <1>1, InitIInv, NextIInv, PTL DEF Spec

-----------------------------------------------------------------------------
(* Toggle: the invariant                                                   *)

PlanType ==
  [does: {"off", "on"}, at: Steps, service: Service \cup {None}, new: Service \cup {None},
   codex: Configs, newCodex: Configs, claude: Settings, newClaude: Settings, paused: Paused]

ToggleTypes ==
  /\ codex \in Configs /\ claude \in Settings
  /\ managed \in Service \cup {None} /\ paused \in Paused \cup {None}
  /\ switch \in PlanType \cup {NoSwitch}
  /\ untouched \in BOOLEAN /\ removed \in Port \cup {None}
  /\ lapses \in 0..MaxLapses /\ edits \in 0..MaxEdits

\* The URL is recorded, and gone from the settings.
UrlRecorded == removed # None => claude = "unset" /\ paused # None /\ paused.url = removed

\* What off has planned: whoever it takes out of Claude's settings is in the record
\* it is about to write, and nobody is left on the service's port.
Cut(c) ==
  c # None => c.provider # "gobstopper" /\ (c.base \in Port => c.odd \/ c.was # None)
OffIsSound ==
  switch.does = "off" =>
    /\ switch.newClaude # switch.claude =>
         switch.newClaude = "unset" /\ switch.paused.url = switch.claude
    /\ switch.service # None => switch.newClaude # switch.service.port
    /\ Cut(switch.newCodex)

\* It writes the record before the settings.
Before(steps) == switch.does = "off" /\ switch.at \in steps
OffInOrder ==
  /\ Before({"save"}) /\ removed # None => switch.paused.url = removed
  /\ Before({"codex", "write codex", "claude", "write claude"}) => paused = switch.paused
  /\ Before({"write claude"}) => switch.newClaude # switch.claude

\* What the files are if nobody else changes them.
OffAlone ==
  untouched =>
    /\ Before({"save", "codex", "write codex", "claude", "write claude", "service"}) =>
         managed = switch.service
    /\ Before({"save", "codex", "write codex"}) => codex = switch.codex
    /\ Before({"claude", "write claude", "service"}) => codex = switch.newCodex
    /\ Before({"save", "codex", "write codex", "claude", "write claude"}) => claude = switch.claude
    /\ Before({"service"}) => claude = switch.newClaude

\* on does not forget the record before it has put a URL back.
OnKeeps ==
  switch.does = "on" /\ removed # None =>
    switch.at \notin {"save", "done"} /\ switch.newClaude # switch.claude

ToggleInv == ToggleTypes /\ UrlRecorded /\ OffIsSound /\ OffInOrder /\ OffAlone /\ OnKeeps

-----------------------------------------------------------------------------
(* Toggle: plans                                                           *)

LEMMA ConfigsAre == \A c \in Configs : c # None => c \in Config /\ (c.base = None => c.was = None /\ ~c.odd)
  BY DEF Configs

LEMMA NotRunning == ~Ran => switch.does \notin {"off", "on"}
  BY DEF Ran

LEMMA RunningIsPlan ==
  ASSUME ToggleTypes
  PROVE  /\ Ran => switch \in PlanType
         /\ ~Ran => switch = NoSwitch
         /\ NoSwitch.does = "nothing"
  BY DEF ToggleTypes, Ran, PlanType, NoSwitch

LEMMA PortsTyped ==
  ASSUME ToggleTypes
  PROVE  /\ Saved \in Paused /\ (paused # None => Saved = paused)
         /\ CodexPort(codex) \in Port \cup {None} /\ OffPort \in Port /\ OnPort \in Port
         /\ managed # None => OffPort = managed.port
         /\ OffPorts \subseteq Port /\ OffPort \in OffPorts
         /\ Or(Field(managed, "to"), Or(Saved.to, Provider)) \in Upstream
         /\ Or(Field(managed, "to"), Saved.to) \in Upstream \cup {None}
         /\ Or(Saved.to, Provider) \in Upstream
<1>1. Saved \in Paused /\ (paused # None => Saved = paused)
  BY DEF ToggleTypes, Saved, Paused
<1>2. CodexPort(codex) \in Port \cup {None}
  BY DEF CodexPort
<1>3. /\ Field(managed, "port") \in Port \cup {None} /\ Field(managed, "to") \in Upstream \cup {None}
      /\ managed # None => Field(managed, "port") = managed.port /\ managed.port \in Port
  BY DEF ToggleTypes, Field, Service
<1>4. Field(codex, "was") \in Port \cup {None}
  BY ConfigsAre DEF ToggleTypes, Field, Config
<1>5. None \notin Port \cup Upstream /\ DefaultPort \in Port /\ Provider \in Upstream
  BY ToggleAssumption
<1>6. Saved.port \in Port \cup {None} /\ Saved.to \in Upstream \cup {None}
  BY <1>1 DEF Paused
<1> HIDE DEF Saved
<1>7. OffPort \in Port /\ OnPort \in Port /\ (managed # None => OffPort = managed.port)
  BY <1>2, <1>3, <1>4, <1>5, <1>6 DEF OffPort, OnPort, Or
<1>8. OffPorts \subseteq Port /\ OffPort \in OffPorts
  BY <1>2, <1>5, <1>7 DEF OffPorts
<1>9. /\ Or(Field(managed, "to"), Or(Saved.to, Provider)) \in Upstream
      /\ Or(Field(managed, "to"), Saved.to) \in Upstream \cup {None}
      /\ Or(Saved.to, Provider) \in Upstream
  BY <1>3, <1>5, <1>6 DEF Or
<1> QED BY <1>1, <1>2, <1>7, <1>8, <1>9

LEMMA CodexOffIs ==
  ASSUME NEW c \in Configs, c # None, NEW to \in Upstream
  PROVE  CodexOff(c, to) \in Configs /\ Cut(CodexOff(c, to))
<1> DEFINE repoints == c.base \in Port /\ ~c.odd /\ c.was = None
           d == CodexOff(c, to)
<1>1. c \in Config /\ (c.base = None => c.was = None /\ ~c.odd)
  BY ConfigsAre
<1>2. d = [c EXCEPT !.provider = IF @ = "gobstopper" THEN "none" ELSE @,
                    !.base = IF repoints THEN to ELSE @,
                    !.was = IF repoints THEN c.base ELSE @]
  BY DEF CodexOff
<1>3. repoints \in BOOLEAN /\ (repoints => c.base \in Port)
  OBVIOUS
<1> HIDE DEF d
<1>4. /\ d \in Config /\ d.provider = (IF c.provider = "gobstopper" THEN "none" ELSE c.provider)
      /\ d.base = (IF repoints THEN to ELSE c.base) /\ d.odd = c.odd
      /\ d.was = (IF repoints THEN c.base ELSE c.was)
  BY <1>1, <1>2, <1>3 DEF Config
<1>5. d.base = None => d.was = None /\ ~d.odd
  BY <1>1, <1>4, ToggleAssumption
<1>6. Cut(d)
  BY <1>1, <1>4, ToggleAssumption DEF Cut, Config
<1> QED BY <1>4, <1>5, <1>6 DEF Configs, d

LEMMA CodexOnIs ==
  ASSUME NEW c \in Configs, c # None, NEW port \in Port
  PROVE  CodexOn(c, port) \in Configs
<1> DEFINE d == CodexOn(c, port)
<1>1. c \in Config /\ (c.base = None => c.was = None /\ ~c.odd)
  BY ConfigsAre
<1>2. d = [c EXCEPT !.provider = IF @ = "none" /\ c.base # None THEN "gobstopper" ELSE @,
                    !.base = IF c.was # None THEN port ELSE @, !.was = None]
  BY DEF CodexOn
<1> HIDE DEF d
<1>3. /\ d \in Config /\ d.base = (IF c.was # None THEN port ELSE c.base) /\ d.odd = c.odd
      /\ d.was = None
  BY <1>1, <1>2 DEF Config
<1>4. d.base = None => d.was = None /\ ~d.odd
  BY <1>1, <1>3, ToggleAssumption
<1> QED BY <1>3, <1>4 DEF Configs, d

LEMMA PlanOffIs ==
  ASSUME ToggleInv
  PROVE  LET plan == PlanOff
         IN /\ plan \in PlanType /\ plan.does = "off" /\ plan.at = "save"
            /\ plan.service = managed /\ plan.codex = codex /\ plan.claude = claude
            /\ plan.newClaude # plan.claude => plan.newClaude = "unset" /\ plan.paused.url = claude
            /\ managed # None => plan.newClaude # managed.port
            /\ Cut(plan.newCodex)
            /\ removed # None => plan.paused.url = removed
<1> DEFINE to == Or(Field(managed, "to"), Or(Saved.to, Provider))
           new == IF codex = None THEN None ELSE CodexOff(codex, to)
           url == IF claude \in OffPorts THEN "unset" ELSE claude
           record == [port |-> OffPort, to |-> Or(Field(managed, "to"), Saved.to),
                      url |-> IF claude \in OffPorts THEN claude ELSE Saved.url]
<1>1. ToggleTypes /\ UrlRecorded
  BY DEF ToggleInv
<1>2. new \in Configs /\ Cut(new)
  <2>1. CASE codex = None
    BY <1>1, <2>1 DEF ToggleTypes, Cut
  <2>2. CASE codex # None
    BY <1>1, <2>2, PortsTyped, CodexOffIs DEF ToggleTypes
  <2> QED BY <2>1, <2>2
<1>3. url \in Settings /\ (url # claude => url = "unset" /\ claude \in OffPorts)
      /\ (managed # None => url # managed.port)
  BY <1>1, PortsTyped, ToggleAssumption DEF ToggleTypes, Settings
<1>4. /\ record \in Paused /\ (claude \in OffPorts => record.url = claude)
      /\ claude \notin OffPorts => record.url = Saved.url
  BY <1>1, PortsTyped DEF Paused
<1>5. removed # None => record.url = removed
  <2>1. claude = "unset" => claude \notin OffPorts
    BY <1>1, PortsTyped, ToggleAssumption
  <2> QED BY <1>1, <1>4, <2>1, PortsTyped DEF UrlRecorded
<1>6. PlanOff = [does |-> "off", at |-> "save", service |-> managed, new |-> None, codex |-> codex,
                 newCodex |-> new, claude |-> claude, newClaude |-> url, paused |-> record]
  BY DEF PlanOff
<1> HIDE DEF new, url, record
<1> DEFINE plan == PlanOff
<1>7. /\ plan \in PlanType /\ plan.does = "off" /\ plan.at = "save" /\ plan.service = managed
      /\ plan.codex = codex /\ plan.newCodex = new /\ plan.claude = claude
      /\ plan.newClaude = url /\ plan.paused = record
  BY <1>1, <1>2, <1>3, <1>4, <1>6 DEF PlanType, Steps, ToggleTypes
<1> QED BY <1>2, <1>3, <1>4, <1>5, <1>7

LEMMA PlanOnIs ==
  ASSUME ToggleInv
  PROVE  LET plan == PlanOn
         IN /\ plan \in PlanType /\ plan.does = "on" /\ plan.at = "service"
            /\ removed # None => plan.newClaude # plan.claude
<1> DEFINE new == IF codex = None THEN None ELSE CodexOn(codex, OnPort)
           from == IF claude = None THEN "unset" ELSE claude
           url == IF claude \in {None, "unset"} /\ Saved.url # None THEN OnPort
                  ELSE IF claude = None THEN "unset" ELSE claude
           served == [port |-> OnPort, to |-> Or(Saved.to, Provider)]
           record == [Saved EXCEPT !.url = None]
<1>1. ToggleTypes /\ UrlRecorded
  BY DEF ToggleInv
<1>2. new \in Configs
  <2>1. CASE codex = None
    BY <1>1, <2>1 DEF ToggleTypes
  <2>2. CASE codex # None
    BY <1>1, <2>2, PortsTyped, CodexOnIs DEF ToggleTypes
  <2> QED BY <2>1, <2>2
<1>3. from \in Settings /\ url \in Settings
  BY <1>1, PortsTyped DEF ToggleTypes, Settings
<1>4. served \in Service /\ record \in Paused
  BY <1>1, PortsTyped DEF Service, Paused
<1>5. removed # None => url # from
  BY <1>1, PortsTyped, ToggleAssumption DEF UrlRecorded
<1>6. PlanOn = [does |-> "on", at |-> "service", service |-> managed, new |-> served,
                codex |-> codex, newCodex |-> new, claude |-> from, newClaude |-> url,
                paused |-> record]
  BY DEF PlanOn
<1> HIDE DEF new, from, url, served, record
<1> DEFINE plan == PlanOn
<1>7. /\ plan \in PlanType /\ plan.does = "on" /\ plan.at = "service" /\ plan.claude = from
      /\ plan.newClaude = url
  BY <1>1, <1>2, <1>3, <1>4, <1>6 DEF PlanType, Steps, ToggleTypes
<1> QED BY <1>5, <1>7

-----------------------------------------------------------------------------
(* Toggle: steps                                                           *)

LEMMA InitToggleInv == ToggleInit => ToggleInv
<1> SUFFICES ASSUME ToggleInit PROVE ToggleInv
  OBVIOUS
<1>1. switch = NoSwitch /\ switch.does = "nothing" /\ removed = None
  BY DEF ToggleInit, NoSwitch
<1>2. ToggleTypes
  BY ToggleAssumption DEF ToggleInit, ToggleTypes
<1> QED BY <1>1, <1>2 DEF ToggleInv, UrlRecorded, OffIsSound, OffInOrder, OffAlone, OnKeeps, Before

LEMMA FollowingIs ==
  ASSUME Ran, ToggleTypes
  PROVE  /\ switch.does = "off" =>
              /\ Following("save") = "codex" /\ Following("codex") = "claude"
              /\ Following("claude") = "service" /\ Following("service") = "done"
         /\ switch.does = "on" =>
              /\ Following("service") = "codex" /\ Following("codex") = "claude"
              /\ Following("claude") = "save" /\ Following("save") = "done"
<1>1. ASSUME NEW order, order \in {OffOrder, OnOrder}, NEW step, NEW n \in 1..4, order[n] = step,
             \A i \in 1..4 : order[i] = step => i = n
      PROVE  (CHOOSE i \in 1..4 : order[i] = step) = n
  BY <1>1
<1>2. CASE switch.does = "off"
  <2>1. ASSUME NEW step, NEW n \in 1..4, OffOrder[n] = step,
               \A i \in 1..4 : OffOrder[i] = step => i = n
        PROVE  Following(step) = OffOrder[n + 1]
    BY <1>1, <1>2, <2>1 DEF Following
  <2>2. /\ OffOrder[1] = "save" /\ OffOrder[2] = "codex" /\ OffOrder[3] = "claude"
        /\ OffOrder[4] = "service" /\ OffOrder[5] = "done"
    BY DEF OffOrder
  <2>3. \A i \in 1..4 : i = 1 \/ i = 2 \/ i = 3 \/ i = 4
    OBVIOUS
  <2> HIDE DEF OffOrder
  <2>4. Following("save") = OffOrder[1 + 1]
    BY <2>1, <2>2, <2>3
  <2>5. Following("codex") = OffOrder[2 + 1]
    BY <2>1, <2>2, <2>3
  <2>6. Following("claude") = OffOrder[3 + 1]
    BY <2>1, <2>2, <2>3
  <2>7. Following("service") = OffOrder[4 + 1]
    BY <2>1, <2>2, <2>3
  <2> QED BY <1>2, <2>2, <2>4, <2>5, <2>6, <2>7
<1>3. CASE switch.does = "on"
  <2>1. ASSUME NEW step, NEW n \in 1..4, OnOrder[n] = step,
               \A i \in 1..4 : OnOrder[i] = step => i = n
        PROVE  Following(step) = OnOrder[n + 1]
    BY <1>1, <1>3, <2>1 DEF Following
  <2>2. /\ OnOrder[1] = "service" /\ OnOrder[2] = "codex" /\ OnOrder[3] = "claude"
        /\ OnOrder[4] = "save" /\ OnOrder[5] = "done"
    BY DEF OnOrder
  <2>3. \A i \in 1..4 : i = 1 \/ i = 2 \/ i = 3 \/ i = 4
    OBVIOUS
  <2> HIDE DEF OnOrder
  <2>4. Following("service") = OnOrder[1 + 1]
    BY <2>1, <2>2, <2>3
  <2>5. Following("codex") = OnOrder[2 + 1]
    BY <2>1, <2>2, <2>3
  <2>6. Following("claude") = OnOrder[3 + 1]
    BY <2>1, <2>2, <2>3
  <2>7. Following("save") = OnOrder[4 + 1]
    BY <2>1, <2>2, <2>3
  <2> QED BY <1>3, <2>2, <2>4, <2>5, <2>6, <2>7
<1> QED BY <1>2, <1>3

\* The plan goes on to its next step, and is otherwise as it was.
SamePlan ==
  /\ switch'.does = switch.does /\ switch'.service = switch.service /\ switch'.new = switch.new
  /\ switch'.codex = switch.codex /\ switch'.newCodex = switch.newCodex
  /\ switch'.claude = switch.claude /\ switch'.newClaude = switch.newClaude
  /\ switch'.paused = switch.paused
LEMMA ContinueIs ==
  ASSUME ToggleTypes, Ran, NEW step \in Steps, Continue(step)
  PROVE  switch' \in PlanType /\ switch'.at = step /\ SamePlan
<1>1. switch \in PlanType /\ switch' = [switch EXCEPT !.at = step]
  BY RunningIsPlan DEF Continue
<1> QED BY <1>1 DEF PlanType, SamePlan

\* A command that goes on has only to answer for where it stands.
LEMMA StepKeeps ==
  ASSUME ToggleInv, Ran, ToggleTypes', SamePlan, UrlRecorded', OffInOrder', OffAlone', OnKeeps'
  PROVE  ToggleInv'
  BY DEF ToggleInv, SamePlan, OffIsSound

LEMMA AbortKeeps ==
  ASSUME ToggleInv, Abort, UNCHANGED <<codex, claude, paused, untouched, removed, edits>>,
         managed' \in Service \cup {None}, lapses' \in 0..MaxLapses
  PROVE  ToggleInv'
<1>1. switch' = NoSwitch /\ switch'.does = "nothing"
  BY DEF Abort, NoSwitch
<1>2. ToggleTypes' /\ UrlRecorded'
  BY <1>1 DEF ToggleInv, ToggleTypes, UrlRecorded
<1> QED BY <1>1, <1>2 DEF ToggleInv, OffIsSound, OffInOrder, OffAlone, OnKeeps, Before

LEMMA TurnOffKeeps == ToggleInv /\ TurnOff => ToggleInv'
<1> SUFFICES ASSUME ToggleInv, TurnOff PROVE ToggleInv'
  OBVIOUS
<1>1. switch' = [PlanOff EXCEPT !.at = "save"] /\ untouched' = TRUE
      /\ UNCHANGED <<codex, claude, managed, paused, removed, routed, lapses, edits>>
  BY DEF TurnOff, OffOrder
<1> DEFINE plan == PlanOff
<1>2. /\ plan \in PlanType /\ plan.does = "off" /\ plan.at = "save"
      /\ plan.service = managed /\ plan.codex = codex /\ plan.claude = claude
      /\ plan.newClaude # plan.claude => plan.newClaude = "unset" /\ plan.paused.url = claude
      /\ managed # None => plan.newClaude # managed.port
      /\ Cut(plan.newCodex)
      /\ removed # None => plan.paused.url = removed
  BY PlanOffIs
<1> HIDE DEF plan
<1>3. switch' = plan
  BY <1>1, <1>2 DEF PlanType, plan
<1>4. ToggleTypes' /\ UrlRecorded'
  BY <1>1, <1>2, <1>3 DEF ToggleInv, ToggleTypes, UrlRecorded
<1>5. OffIsSound'
  BY <1>2, <1>3 DEF OffIsSound, Cut
<1>6. OffInOrder' /\ OffAlone' /\ OnKeeps'
  BY <1>1, <1>2, <1>3 DEF OffInOrder, OffAlone, OnKeeps, Before
<1> QED BY <1>4, <1>5, <1>6 DEF ToggleInv

LEMMA TurnOnKeeps == ToggleInv /\ TurnOn => ToggleInv'
<1> SUFFICES ASSUME ToggleInv, TurnOn PROVE ToggleInv'
  OBVIOUS
<1>1. switch' = [PlanOn EXCEPT !.at = "service"] /\ untouched' = TRUE
      /\ UNCHANGED <<codex, claude, managed, paused, removed, routed, lapses, edits>>
  BY DEF TurnOn, OnOrder
<1> DEFINE plan == PlanOn
<1>2. /\ plan \in PlanType /\ plan.does = "on" /\ plan.at = "service"
      /\ removed # None => plan.newClaude # plan.claude
  BY PlanOnIs
<1> HIDE DEF plan
<1>3. switch' = plan
  BY <1>1, <1>2 DEF PlanType, plan
<1>4. ToggleTypes' /\ UrlRecorded'
  BY <1>1, <1>2, <1>3 DEF ToggleInv, ToggleTypes, UrlRecorded
<1> QED BY <1>1, <1>2, <1>3, <1>4
        DEF ToggleInv, OffIsSound, OffInOrder, OffAlone, OnKeeps, Before

LEMMA SavePausedKeeps == ToggleInv /\ SavePaused => ToggleInv'
<1> SUFFICES ASSUME ToggleInv, SavePaused PROVE ToggleInv'
  OBVIOUS
<1> DEFINE next == IF switch.does = "off" THEN "codex" ELSE "done"
<1>1. /\ ToggleTypes /\ Ran /\ switch.at = "save" /\ switch \in PlanType
      /\ paused' = switch.paused /\ Continue(Following("save"))
      /\ UNCHANGED <<codex, claude, managed, untouched, removed, lapses, edits>>
  BY RunningIsPlan DEF ToggleInv, SavePaused, Stands
<1>2. Following("save") = next /\ next \in Steps
  BY <1>1, FollowingIs DEF PlanType, Steps
<1>3. switch' \in PlanType /\ switch'.at = next /\ SamePlan
  BY <1>1, <1>2, ContinueIs
<1>4. ToggleTypes'
  BY <1>1, <1>3 DEF ToggleTypes, PlanType
<1>5. UrlRecorded'
  BY <1>1, NoneIsNothing DEF ToggleInv, UrlRecorded, OffInOrder, Before, OnKeeps, PlanType
<1>6. OffInOrder' /\ OffAlone' /\ OnKeeps'
  BY <1>1, <1>3 DEF ToggleInv, OffInOrder, OffAlone, OnKeeps, Before, SamePlan, PlanType
<1> QED BY <1>1, <1>3, <1>4, <1>5, <1>6, StepKeeps

LEMMA LookCodexKeeps == ToggleInv /\ LookCodex => ToggleInv'
<1> SUFFICES ASSUME ToggleInv, LookCodex PROVE ToggleInv'
  OBVIOUS
<1>1. /\ ToggleTypes /\ Ran /\ switch.at = "codex" /\ switch \in PlanType
      /\ IF switch.newCodex = switch.codex THEN Continue(Following("codex"))
         ELSE IF codex = switch.codex THEN Continue("write codex") ELSE Abort
      /\ UNCHANGED <<codex, claude, managed, paused, untouched, removed, lapses, edits>>
  BY RunningIsPlan DEF ToggleInv, LookCodex, Stands
<1>2. CASE Abort
  BY <1>1, <1>2, AbortKeeps DEF ToggleTypes
<1>3. ASSUME NEW step \in {"claude", "write codex"}, Continue(step),
             step = "claude" => switch.newCodex = switch.codex
      PROVE  ToggleInv'
  <2>1. switch' \in PlanType /\ switch'.at = step /\ SamePlan
    BY <1>1, <1>3, ContinueIs DEF Steps
  <2>2. ToggleTypes' /\ UrlRecorded'
    BY <1>1, <2>1 DEF ToggleInv, ToggleTypes, UrlRecorded
  <2>3. OffInOrder' /\ OffAlone' /\ OnKeeps'
    BY <1>1, <1>3, <2>1 DEF ToggleInv, OffInOrder, OffAlone, OnKeeps, Before, SamePlan
  <2> QED BY <1>1, <2>1, <2>2, <2>3, StepKeeps
<1>4. Following("codex") = "claude"
  BY <1>1, FollowingIs DEF PlanType
<1> QED BY <1>1, <1>2, <1>3, <1>4

LEMMA WriteCodexKeeps == ToggleInv /\ WriteCodex => ToggleInv'
<1> SUFFICES ASSUME ToggleInv, WriteCodex PROVE ToggleInv'
  OBVIOUS
<1>1. /\ ToggleTypes /\ Ran /\ switch.at = "write codex" /\ switch \in PlanType
      /\ codex' = switch.newCodex /\ Continue(Following("codex"))
      /\ UNCHANGED <<claude, managed, paused, untouched, removed, lapses, edits>>
  BY RunningIsPlan DEF ToggleInv, WriteCodex, Stands
<1>2. Following("codex") = "claude" /\ "claude" \in Steps
  BY <1>1, FollowingIs DEF PlanType, Steps
<1>3. switch' \in PlanType /\ switch'.at = "claude" /\ SamePlan
  BY <1>1, <1>2, ContinueIs
<1>4. ToggleTypes' /\ UrlRecorded'
  BY <1>1, <1>3 DEF ToggleInv, ToggleTypes, UrlRecorded, PlanType
<1>5. OffInOrder' /\ OffAlone' /\ OnKeeps'
  BY <1>1, <1>3 DEF ToggleInv, OffInOrder, OffAlone, OnKeeps, Before, SamePlan
<1> QED BY <1>1, <1>3, <1>4, <1>5, StepKeeps

LEMMA LookClaudeKeeps == ToggleInv /\ LookClaude => ToggleInv'
<1> SUFFICES ASSUME ToggleInv, LookClaude PROVE ToggleInv'
  OBVIOUS
<1> DEFINE next == IF switch.does = "off" THEN "service" ELSE "save"
<1>1. /\ ToggleTypes /\ Ran /\ switch.at = "claude" /\ switch \in PlanType
      /\ IF switch.newClaude = switch.claude THEN Continue(Following("claude"))
         ELSE IF claude = switch.claude THEN Continue("write claude") ELSE Abort
      /\ UNCHANGED <<codex, claude, managed, paused, untouched, removed, lapses, edits>>
  BY RunningIsPlan DEF ToggleInv, LookClaude, Stands
<1>2. CASE Abort
  BY <1>1, <1>2, AbortKeeps DEF ToggleTypes
<1>3. ASSUME NEW step \in {next, "write claude"}, Continue(step),
             step = next <=> switch.newClaude = switch.claude
      PROVE  ToggleInv'
  <2>1. switch' \in PlanType /\ switch'.at = step /\ SamePlan
    BY <1>1, <1>3, ContinueIs DEF Steps
  <2>2. ToggleTypes' /\ UrlRecorded'
    BY <1>1, <2>1 DEF ToggleInv, ToggleTypes, UrlRecorded
  <2>3. OffInOrder' /\ OffAlone'
    BY <1>1, <1>3, <2>1 DEF ToggleInv, OffInOrder, OffAlone, Before, SamePlan
  <2>4. OnKeeps'
    BY <1>1, <1>3, <2>1 DEF ToggleInv, OnKeeps, SamePlan
  <2> QED BY <1>1, <2>1, <2>2, <2>3, <2>4, StepKeeps
<1>4. Following("claude") = next /\ next # "write claude"
  BY <1>1, FollowingIs DEF PlanType
<1> QED BY <1>1, <1>2, <1>3, <1>4

LEMMA WriteClaudeKeeps == ToggleInv /\ WriteClaude => ToggleInv'
<1> SUFFICES ASSUME ToggleInv, WriteClaude PROVE ToggleInv'
  OBVIOUS
<1> DEFINE next == IF switch.does = "off" THEN "service" ELSE "save"
<1>1. /\ ToggleTypes /\ Ran /\ switch.at = "write claude" /\ switch \in PlanType
      /\ claude' = switch.newClaude /\ Continue(Following("claude"))
      /\ removed' = IF switch.does = "off" THEN switch.claude ELSE None
      /\ UNCHANGED <<codex, managed, paused, untouched, lapses, edits>>
  BY RunningIsPlan DEF ToggleInv, WriteClaude, Stands
<1>2. Following("claude") = next /\ next \in Steps
  BY <1>1, FollowingIs DEF PlanType, Steps
<1>3. switch' \in PlanType /\ switch'.at = next /\ SamePlan
  BY <1>1, <1>2, ContinueIs
<1>4. switch.does = "off" =>
        /\ switch.newClaude = "unset" /\ paused = switch.paused /\ paused.url = switch.claude
        /\ switch.newClaude # switch.claude
  BY <1>1 DEF ToggleInv, OffIsSound, OffInOrder, Before
<1>5. ToggleTypes'
  BY <1>1, <1>3, <1>4 DEF ToggleTypes, PlanType, Paused
<1>6. UrlRecorded'
  BY <1>1, <1>4, NoneIsNothing DEF UrlRecorded, PlanType
<1>7. OffInOrder' /\ OffAlone' /\ OnKeeps'
  BY <1>1, <1>3 DEF ToggleInv, OffInOrder, OffAlone, OnKeeps, Before, SamePlan, PlanType
<1> QED BY <1>1, <1>3, <1>5, <1>6, <1>7, StepKeeps

LEMMA SwitchServiceKeeps == ToggleInv /\ SwitchService => ToggleInv'
<1> SUFFICES ASSUME ToggleInv, SwitchService PROVE ToggleInv'
  OBVIOUS
<1> DEFINE next == IF switch.does = "off" THEN "done" ELSE "codex"
<1>1. /\ ToggleTypes /\ Ran /\ switch.at = "service" /\ switch \in PlanType
      /\ UNCHANGED <<codex, claude, paused, untouched, removed, lapses, edits>>
      /\ managed' \in {managed, None, Or(managed, switch.new)}
      /\ Abort \/ Continue(Following("service"))
  BY RunningIsPlan DEF ToggleInv, SwitchService, Stands
<1>2. managed' \in Service \cup {None}
  BY <1>1 DEF ToggleTypes, PlanType, Or
<1>3. CASE Abort
  BY <1>1, <1>2, <1>3, AbortKeeps DEF ToggleTypes
<1>4. CASE Continue(Following("service"))
  <2>1. Following("service") = next /\ next \in Steps
    BY <1>1, FollowingIs DEF PlanType, Steps
  <2>2. switch' \in PlanType /\ switch'.at = next /\ SamePlan
    BY <1>1, <1>4, <2>1, ContinueIs
  <2>3. ToggleTypes' /\ UrlRecorded'
    BY <1>1, <1>2, <2>2 DEF ToggleInv, ToggleTypes, UrlRecorded
  <2>4. OffInOrder' /\ OffAlone' /\ OnKeeps'
    BY <1>1, <2>2 DEF ToggleInv, OffInOrder, OffAlone, OnKeeps, Before, SamePlan, PlanType
  <2> QED BY <1>1, <2>2, <2>3, <2>4, StepKeeps
<1> QED BY <1>1, <1>3, <1>4

LEMMA InterfereKeeps == ToggleInv /\ Interfere => ToggleInv'
<1> SUFFICES ASSUME ToggleInv, Interfere PROVE ToggleInv'
  OBVIOUS
<1>1. /\ edits < MaxEdits /\ edits' = edits + 1 /\ untouched' = FALSE
      /\ UNCHANGED <<paused, switch, lapses>>
      /\ codex' \in Configs /\ claude' \in Settings /\ managed' \in Service \cup {None}
      /\ removed' \in {removed, None} /\ (removed' # None => claude' = claude)
  BY DEF ToggleInv, ToggleTypes, Interfere
<1>2. ToggleTypes'
  <2>1. edits' \in 0..MaxEdits
    BY <1>1, ToggleAssumption DEF ToggleInv, ToggleTypes
  <2> QED BY <1>1, <2>1 DEF ToggleInv, ToggleTypes
<1>3. UrlRecorded' /\ OffIsSound' /\ OffInOrder' /\ OffAlone' /\ OnKeeps'
  BY <1>1 DEF ToggleInv, UrlRecorded, OffIsSound, OffInOrder, OffAlone, OnKeeps, Before
<1> QED BY <1>2, <1>3 DEF ToggleInv

LEMMA NextToggleInv == ToggleInv /\ [ToggleNext]_toggleVars => ToggleInv'
<1> SUFFICES ASSUME ToggleInv, [ToggleNext]_toggleVars PROVE ToggleInv'
  OBVIOUS
<1>1. CASE Lapse
  <2>1. lapses' \in 0..MaxLapses
    BY <1>1, ToggleAssumption DEF ToggleInv, ToggleTypes, Lapse
  <2> QED BY <1>1, <2>1, AbortKeeps DEF ToggleInv, ToggleTypes, Lapse
<1>2. CASE UNCHANGED toggleVars
  <2>1. UNCHANGED <<codex, claude, managed, paused, removed, switch, edits, lapses, untouched, routed>>
    BY <1>2 DEF toggleVars
  <2>2. ToggleTypes'
    BY <2>1 DEF ToggleInv, ToggleTypes
  <2>3. UrlRecorded'
    BY <2>1 DEF ToggleInv, UrlRecorded
  <2>4. OffIsSound'
    BY <2>1 DEF ToggleInv, OffIsSound
  <2>5. OffInOrder'
    BY <2>1 DEF ToggleInv, OffInOrder, Before
  <2>6. OffAlone'
    BY <2>1 DEF ToggleInv, OffAlone, Before
  <2>7. OnKeeps'
    BY <2>1 DEF ToggleInv, OnKeeps
  <2> QED BY <2>2, <2>3, <2>4, <2>5, <2>6, <2>7 DEF ToggleInv
<1> QED BY <1>1, <1>2, TurnOffKeeps, TurnOnKeeps, SavePausedKeeps, LookCodexKeeps,
           WriteCodexKeeps, LookClaudeKeeps, WriteClaudeKeeps, SwitchServiceKeeps,
           InterfereKeeps DEF ToggleNext

LEMMA ToggleInvariant == ToggleSpec => []ToggleInv
<1> QED BY InitToggleInv, NextToggleInv, PTL DEF ToggleSpec

\* Wherever commands fail or are killed, and whatever users edit in between: the
\* URL that off took out of Claude's settings is on record until one is there again.
THEOREM NoUrlIsLost == ToggleSpec => [](ToggleTypeOK /\ RemovedUrlIsSaved)
<1>1. ToggleInv => ToggleTypeOK /\ RemovedUrlIsSaved
  BY DEF ToggleInv, ToggleTypes, UrlRecorded, ToggleTypeOK, RemovedUrlIsSaved, PlanType
<1> QED BY <1>1, ToggleInvariant, PTL

\* off removes the service only when no settings lead to it any more, unless
\* somebody else changed them meanwhile.
THEOREM NobodyIsLeftBehind == ToggleSpec => NobodyIsStranded
<1> DEFINE Left == managed # None /\ managed' = None /\ untouched' =>
                     /\ claude # managed.port
                     /\ codex # None =>
                          /\ codex.provider # "gobstopper"
                          /\ codex.base = managed.port => codex.odd \/ codex.was # None
<1>1. ToggleInv /\ [ToggleNext]_toggleVars => [Left]_toggleVars
  <2> SUFFICES ASSUME ToggleInv, ToggleNext, managed # None, managed' = None, untouched' PROVE Left
    OBVIOUS
  <2>1. SwitchService /\ untouched
    BY DEF ToggleNext, TurnOff, TurnOn, SavePaused, LookCodex, WriteCodex, LookClaude,
           WriteClaude, SwitchService, Lapse, Interfere
  <2>2. switch.does = "off" /\ switch.at = "service" /\ managed = switch.service
    <3>1. switch.does = "off"
      BY <2>1 DEF SwitchService, Or
    <3> QED BY <2>1, <3>1 DEF SwitchService, Stands, ToggleInv, OffAlone, Before
  <2>3. codex = switch.newCodex /\ claude = switch.newClaude
    BY <2>1, <2>2 DEF ToggleInv, OffAlone, Before
  <2>4. Cut(codex) /\ claude # managed.port /\ managed.port \in Port
    BY <2>2, <2>3 DEF ToggleInv, OffIsSound, ToggleTypes, Service
  <2> QED BY <2>4 DEF Cut
<1> QED BY <1>1, ToggleInvariant, PTL DEF ToggleSpec, NobodyIsStranded

-----------------------------------------------------------------------------
(* Toggle: the routes                                                      *)

\* What is left of those who were routed leads on back to them.
CodexFound(c) ==
  /\ "sessions" \in routed => c # None /\ (c.base = paused.port \/ c.was # None)
  /\ "codex" \in routed => c # None /\ c.provider \in {"gobstopper", "none"} /\ c.base # None
ClaudeFound ==
  "claude" \in routed => claude = paused.port \/ (claude = "unset" /\ paused.url # None)
Found ==
  /\ untouched /\ paused # None /\ paused.port \in Port
  /\ managed # None => managed.port = paused.port
  /\ CodexFound(codex) /\ ClaudeFound

\* What on has planned brings them back, and it has done what it is past.
CodexBack(c) ==
  /\ "sessions" \in routed => c # None /\ c.base = paused.port
  /\ "codex" \in routed => c # None /\ c.provider = "gobstopper" /\ c.base # None
StandsAt(steps) == switch.at \in steps
OnReturns ==
  switch.does = "on" =>
    /\ switch.new # None /\ switch.new.port = paused.port /\ CodexBack(switch.newCodex)
    /\ "claude" \in routed => switch.newClaude = paused.port
    /\ StandsAt({"service"}) => managed = switch.service
    /\ StandsAt({"codex", "write codex", "claude", "write claude", "save"}) => managed # None
    /\ StandsAt({"service", "codex", "write codex"}) => codex = switch.codex
    /\ StandsAt({"claude", "write claude", "save"}) => codex = switch.newCodex
    /\ "claude" \in routed =>
         /\ StandsAt({"service", "codex", "write codex", "claude", "write claude"}) => claude = switch.claude
         /\ StandsAt({"save"}) => claude = switch.newClaude

RouteInv ==
  /\ untouched /\ Before({"save"}) => switch = PlanOff
  /\ switch.does = "off" =>
       IF switch.codex = None THEN switch.newCodex = None
       ELSE \E to \in Upstream : switch.newCodex = CodexOff(switch.codex, to)
  /\ routed # None => Found /\ OnReturns

LEMMA SamePlans ==
  ASSUME UNCHANGED <<codex, claude, managed, paused>>
  PROVE  PlanOff' = PlanOff /\ OnPort' = OnPort /\ OffPort' = OffPort
  BY DEF PlanOff, OnPort, OffPort, OffPorts, Saved, CodexPort, Field, Or, CodexOff

LEMMA PlanOffFields ==
  ASSUME ToggleTypes
  PROVE  /\ PlanOff.codex = codex
         /\ IF codex = None THEN PlanOff.newCodex = None
            ELSE \E to \in Upstream : PlanOff.newCodex = CodexOff(codex, to)
         /\ PlanOff.paused.port = OffPort
         /\ PlanOff.paused.url = (IF claude \in OffPorts THEN claude ELSE Saved.url)
  BY PortsTyped DEF PlanOff

LEMMA CodexOffFinds ==
  ASSUME NEW c \in Configs, NEW to \in Upstream, CodexFound(c), c # None
  PROVE  CodexFound(CodexOff(c, to))
<1> DEFINE repoints == c.base \in Port /\ ~c.odd /\ c.was = None
           d == CodexOff(c, to)
<1>1. c \in Config /\ (c.base = None => c.was = None /\ ~c.odd)
  BY ConfigsAre
<1>2. d = [c EXCEPT !.provider = IF @ = "gobstopper" THEN "none" ELSE @,
                    !.base = IF repoints THEN to ELSE @,
                    !.was = IF repoints THEN c.base ELSE @]
  BY DEF CodexOff
<1> HIDE DEF d
<1>3. /\ d.provider = (IF c.provider = "gobstopper" THEN "none" ELSE c.provider)
      /\ d.base = (IF repoints THEN to ELSE c.base)
      /\ d.was = (IF repoints THEN c.base ELSE c.was)
  BY <1>1, <1>2 DEF Config
<1>4. d # None
  BY NoneIsNothing, CodexOffIs, ConfigsAre, <1>1, <1>2 DEF Config
<1>5. to # None /\ (repoints => c.base # None)
  BY ToggleAssumption
<1> QED BY <1>3, <1>4, <1>5 DEF CodexFound, d

LEMMA CodexOnReturns ==
  ASSUME NEW c \in Configs, CodexFound(c), c # None, paused.port \in Port
  PROVE  CodexBack(CodexOn(c, paused.port))
<1> DEFINE d == CodexOn(c, paused.port)
<1>1. c \in Config
  BY ConfigsAre
<1>2. d = [c EXCEPT !.provider = IF @ = "none" /\ c.base # None THEN "gobstopper" ELSE @,
                    !.base = IF c.was # None THEN paused.port ELSE @, !.was = None]
  BY DEF CodexOn
<1> HIDE DEF d
<1>3. /\ d \in Config
      /\ d.provider = (IF c.provider = "none" /\ c.base # None THEN "gobstopper" ELSE c.provider)
      /\ d.base = (IF c.was # None THEN paused.port ELSE c.base)
  BY <1>1, <1>2 DEF Config
<1>4. d # None /\ paused.port # None
  BY <1>3, NoneIsNothing, ToggleAssumption
<1> QED BY <1>3, <1>4 DEF CodexFound, CodexBack, d

LEMMA BackIsFound == ASSUME NEW c, CodexBack(c) PROVE CodexFound(c)
  BY DEF CodexBack, CodexFound

\* A step that leaves the files, the service, the record and the routed alone.
LEMMA RouteMoves ==
  ASSUME ToggleInv, RouteInv, Ran, UNCHANGED <<codex, claude, managed, paused, untouched, routed>>,
         SamePlan, switch.at # "save", switch'.at # "save" \/ switch.does = "on",
         routed # None => OnReturns'
  PROVE  RouteInv'
<1>1. routed # None => Found'
  BY DEF RouteInv, Found, CodexFound, ClaudeFound
<1>2. ~Before({"save"})'
  BY DEF Before, SamePlan
<1> QED BY <1>1, <1>2 DEF RouteInv, SamePlan

LEMMA RouteAborts ==
  ASSUME RouteInv, Abort, UNCHANGED <<codex, claude, paused, untouched, routed>>,
         managed' = managed
  PROVE  RouteInv'
<1>1. switch'.does = "nothing"
  BY DEF Abort, NoSwitch
<1>2. routed # None => Found'
  BY DEF RouteInv, Found, CodexFound, ClaudeFound
<1> QED BY <1>1, <1>2 DEF RouteInv, Before, OnReturns

LEMMA InitRouteInv == ToggleInit => RouteInv
  BY DEF ToggleInit, RouteInv, NoSwitch, Before

LEMMA TurnOffRoutes == ToggleInv /\ RouteInv /\ TurnOff => RouteInv'
<1> SUFFICES ASSUME ToggleInv, RouteInv, TurnOff PROVE RouteInv'
  OBVIOUS
<1>1. switch' = [PlanOff EXCEPT !.at = "save"] /\ untouched' = TRUE
      /\ UNCHANGED <<codex, claude, managed, paused, removed, routed, lapses, edits>>
  BY DEF TurnOff, OffOrder
<1>2. PlanOff \in PlanType /\ PlanOff.does = "off" /\ PlanOff.at = "save"
  BY PlanOffIs
<1>3. switch' = PlanOff
  BY <1>1, <1>2 DEF PlanType
<1>4. switch' = PlanOff'
  BY <1>1, <1>3, SamePlans
<1>5. routed # None => Found'
  BY <1>1 DEF RouteInv, Found, CodexFound, ClaudeFound
<1>6. ToggleTypes
  BY DEF ToggleInv
<1>7. IF switch'.codex = None THEN switch'.newCodex = None
      ELSE \E to \in Upstream : switch'.newCodex = CodexOff(switch'.codex, to)
  BY <1>3, <1>6, PlanOffFields
<1> QED BY <1>1, <1>2, <1>3, <1>4, <1>5, <1>7 DEF RouteInv, OnReturns

LEMMA TurnOnRoutes == ToggleInv /\ RouteInv /\ TurnOn => RouteInv'
<1> SUFFICES ASSUME ToggleInv, RouteInv, TurnOn PROVE RouteInv'
  OBVIOUS
<1> DEFINE plan == PlanOn
<1>1. switch' = [PlanOn EXCEPT !.at = "service"] /\ untouched' = TRUE
      /\ UNCHANGED <<codex, claude, managed, paused, removed, routed, lapses, edits>>
  BY DEF TurnOn, OnOrder
<1>2. plan \in PlanType /\ plan.does = "on" /\ plan.at = "service" /\ ToggleTypes
  BY PlanOnIs DEF ToggleInv
<1>3. /\ plan.service = managed /\ plan.new = [port |-> OnPort, to |-> Or(Saved.to, Provider)]
      /\ plan.codex = codex
      /\ plan.newCodex = (IF codex = None THEN None ELSE CodexOn(codex, OnPort))
      /\ plan.claude = (IF claude = None THEN "unset" ELSE claude)
      /\ plan.newClaude = (IF claude \in {None, "unset"} /\ Saved.url # None THEN OnPort
                           ELSE IF claude = None THEN "unset" ELSE claude)
  BY DEF PlanOn
<1> HIDE DEF plan
<1>4. switch' = plan
  BY <1>1, <1>2 DEF PlanType, plan
<1>5. ASSUME routed # None PROVE Found' /\ OnReturns'
  <2>1. Found /\ Saved = paused
    BY <1>2, <1>5, PortsTyped DEF RouteInv, Found
  <2>2. OnPort = paused.port
    BY <2>1, ToggleAssumption DEF Found, OnPort, Or, Field
  <2>3. Found'
    BY <1>1, <2>1 DEF Found, CodexFound, ClaudeFound
  <2>4. plan.new # None /\ plan.new.port = paused.port
    <3>1. plan.new \in Service
      BY <1>2, <1>3, PortsTyped DEF Service
    <3> QED BY <1>3, <2>2, <3>1, NoneIsNothing
  <2>5. CodexBack(plan.newCodex)
    <3>1. CASE codex = None
      BY <1>3, <2>1, <3>1 DEF Found, CodexFound, CodexBack
    <3>2. CASE codex # None
      BY <1>2, <1>3, <2>1, <2>2, <3>2, CodexOnReturns DEF Found, ToggleTypes
    <3> QED BY <3>1, <3>2
  <2>6. "claude" \in routed => plan.newClaude = paused.port /\ plan.claude = claude
    BY <1>3, <2>1, <2>2, ToggleAssumption DEF Found, ClaudeFound
  <2>7. OnReturns'
    BY <1>1, <1>2, <1>3, <1>4, <2>4, <2>5, <2>6 DEF OnReturns, StandsAt, CodexBack
  <2> QED BY <2>3, <2>7
<1> QED BY <1>2, <1>4, <1>5, <1>1 DEF RouteInv, Before

LEMMA SavePausedRoutes == ToggleInv /\ RouteInv /\ SavePaused => RouteInv'
<1> SUFFICES ASSUME ToggleInv, RouteInv, SavePaused PROVE RouteInv'
  OBVIOUS
<1> DEFINE next == IF switch.does = "off" THEN "codex" ELSE "done"
<1>1. /\ ToggleTypes /\ Ran /\ switch.at = "save" /\ switch \in PlanType
      /\ paused' = switch.paused /\ Continue(Following("save"))
      /\ routed' = (IF switch.does = "on" THEN None
                    ELSE IF routed = None /\ untouched THEN Routed ELSE routed)
      /\ UNCHANGED <<codex, claude, managed, untouched, removed, lapses, edits>>
  BY RunningIsPlan DEF ToggleInv, SavePaused, Stands
<1>2. Following("save") = next /\ next \in Steps
  BY <1>1, FollowingIs DEF PlanType, Steps
<1>3. switch' \in PlanType /\ switch'.at = next /\ SamePlan
  BY <1>1, <1>2, ContinueIs
<1>4. ~Before({"save"})'
  BY <1>1, <1>3 DEF Before, SamePlan, PlanType
<1>5. ASSUME routed' # None PROVE Found' /\ OnReturns'
  <2>1. switch.does = "off" /\ untouched /\ switch = PlanOff
    BY <1>1, <1>5 DEF RouteInv, Found, Before, PlanType
  <2>2. /\ paused'.port = OffPort /\ OffPort \in Port /\ paused' # None
        /\ paused'.url = (IF claude \in OffPorts THEN claude ELSE Saved.url)
        /\ managed # None => managed.port = OffPort
    BY <1>1, <2>1, PlanOffFields, PortsTyped, NoneIsNothing DEF PlanType
  <2>3. CASE routed = None
    <3>1. routed' = Routed
      BY <1>1, <2>1, <2>3
    <3>2. CodexFound(codex)' /\ ClaudeFound'
      BY <1>1, <2>2, <3>1, ToggleAssumption DEF Routed, CodexFound, ClaudeFound, CodexPort
    <3>3. Found'
      BY <1>1, <2>1, <2>2, <3>2 DEF Found
    <3> QED BY <1>3, <2>1, <3>3 DEF OnReturns, SamePlan
  <2>4. CASE routed # None
    <3>1. routed' = routed /\ Found
      BY <1>1, <2>1, <2>4 DEF RouteInv
    <3>2. Saved = paused /\ paused.port \in Port
      BY <1>1, <3>1, PortsTyped DEF Found
    <3>3. OffPort = paused.port
      BY <3>1, <3>2, ToggleAssumption DEF OffPort, Or, Field, Found
    <3>4. claude = "unset" => claude \notin OffPorts
      BY <1>1, PortsTyped, ToggleAssumption
    <3>5. CodexFound(codex)'
      BY <1>1, <2>2, <3>1, <3>3 DEF Found, CodexFound
    <3>6. ClaudeFound'
      BY <1>1, <2>2, <3>1, <3>2, <3>3, <3>4 DEF Found, ClaudeFound
    <3>7. Found'
      BY <1>1, <2>1, <2>2, <3>5, <3>6 DEF Found
    <3> QED BY <1>3, <2>1, <3>7 DEF OnReturns, SamePlan
  <2> QED BY <2>3, <2>4
<1> QED BY <1>3, <1>4, <1>5 DEF RouteInv, SamePlan

LEMMA LookCodexRoutes == ToggleInv /\ RouteInv /\ LookCodex => RouteInv'
<1> SUFFICES ASSUME ToggleInv, RouteInv, LookCodex PROVE RouteInv'
  OBVIOUS
<1>1. /\ ToggleTypes /\ Ran /\ switch.at = "codex" /\ switch \in PlanType
      /\ IF switch.newCodex = switch.codex THEN Continue(Following("codex"))
         ELSE IF codex = switch.codex THEN Continue("write codex") ELSE Abort
      /\ UNCHANGED <<codex, claude, managed, paused, untouched, removed, routed, lapses, edits>>
  BY RunningIsPlan DEF ToggleInv, LookCodex, Stands
<1>2. CASE Abort
  BY <1>1, <1>2, RouteAborts
<1>3. ASSUME NEW step \in {"claude", "write codex"}, Continue(step),
             step = "claude" => switch.newCodex = switch.codex
      PROVE  RouteInv'
  <2>1. switch' \in PlanType /\ switch'.at = step /\ SamePlan
    BY <1>1, <1>3, ContinueIs DEF Steps
  <2>2. routed # None => OnReturns'
    BY <1>1, <1>3, <2>1 DEF RouteInv, OnReturns, StandsAt, CodexBack, SamePlan
  <2> QED BY <1>1, <1>3, <2>1, <2>2, RouteMoves
<1>4. Following("codex") = "claude"
  BY <1>1, FollowingIs DEF PlanType
<1> QED BY <1>1, <1>2, <1>3, <1>4

LEMMA WriteCodexRoutes == ToggleInv /\ RouteInv /\ WriteCodex => RouteInv'
<1> SUFFICES ASSUME ToggleInv, RouteInv, WriteCodex PROVE RouteInv'
  OBVIOUS
<1>1. /\ ToggleTypes /\ Ran /\ switch.at = "write codex" /\ switch \in PlanType
      /\ codex' = switch.newCodex /\ Continue(Following("codex"))
      /\ UNCHANGED <<claude, managed, paused, untouched, removed, routed, lapses, edits>>
  BY RunningIsPlan DEF ToggleInv, WriteCodex, Stands
<1>2. Following("codex") = "claude" /\ "claude" \in Steps
  BY <1>1, FollowingIs DEF PlanType, Steps
<1>3. switch' \in PlanType /\ switch'.at = "claude" /\ SamePlan
  BY <1>1, <1>2, ContinueIs
<1>4. ASSUME routed # None PROVE Found' /\ OnReturns'
  <2>1. Found /\ OnReturns
    BY <1>4 DEF RouteInv
  <2>2. CodexFound(switch.newCodex)
    <3>1. CASE switch.does = "on"
      BY <2>1, <3>1, BackIsFound DEF OnReturns
    <3>2. CASE switch.does = "off"
      <4>1. codex = switch.codex
        BY <1>1, <2>1, <3>2 DEF Found, ToggleInv, OffAlone, Before
      <4>2. CodexFound(codex) /\ codex \in Configs
        BY <1>1, <2>1 DEF Found, ToggleTypes
      <4>3. CASE codex = None
        BY <3>2, <4>1, <4>2, <4>3 DEF RouteInv
      <4>4. CASE codex # None
        BY <3>2, <4>1, <4>2, <4>4, CodexOffFinds DEF RouteInv
      <4> QED BY <4>3, <4>4
    <3> QED BY <1>1, <3>1, <3>2 DEF PlanType
  <2>3. Found'
    BY <1>1, <2>1, <2>2 DEF Found, CodexFound, ClaudeFound
  <2>4. OnReturns'
    BY <1>1, <1>3, <2>1 DEF OnReturns, StandsAt, CodexBack, SamePlan
  <2> QED BY <2>3, <2>4
<1>5. ~Before({"save"})'
  BY <1>3 DEF Before
<1> QED BY <1>1, <1>3, <1>4, <1>5 DEF RouteInv, SamePlan

LEMMA LookClaudeRoutes == ToggleInv /\ RouteInv /\ LookClaude => RouteInv'
<1> SUFFICES ASSUME ToggleInv, RouteInv, LookClaude PROVE RouteInv'
  OBVIOUS
<1> DEFINE next == IF switch.does = "off" THEN "service" ELSE "save"
<1>1. /\ ToggleTypes /\ Ran /\ switch.at = "claude" /\ switch \in PlanType
      /\ IF switch.newClaude = switch.claude THEN Continue(Following("claude"))
         ELSE IF claude = switch.claude THEN Continue("write claude") ELSE Abort
      /\ UNCHANGED <<codex, claude, managed, paused, untouched, removed, routed, lapses, edits>>
  BY RunningIsPlan DEF ToggleInv, LookClaude, Stands
<1>2. CASE Abort
  BY <1>1, <1>2, RouteAborts
<1>3. ASSUME NEW step \in {next, "write claude"}, Continue(step),
             step = next => switch.newClaude = switch.claude
      PROVE  RouteInv'
  <2>1. switch' \in PlanType /\ switch'.at = step /\ SamePlan
    BY <1>1, <1>3, ContinueIs DEF Steps
  <2>2. routed # None => OnReturns'
    BY <1>1, <1>3, <2>1 DEF RouteInv, OnReturns, StandsAt, CodexBack, SamePlan
  <2>3. switch'.at # "save" \/ switch.does = "on"
    BY <1>1, <1>3, <2>1 DEF PlanType
  <2> QED BY <1>1, <2>1, <2>2, <2>3, RouteMoves
<1>4. Following("claude") = next
  BY <1>1, FollowingIs DEF PlanType
<1> QED BY <1>1, <1>2, <1>3, <1>4

LEMMA WriteClaudeRoutes == ToggleInv /\ RouteInv /\ WriteClaude => RouteInv'
<1> SUFFICES ASSUME ToggleInv, RouteInv, WriteClaude PROVE RouteInv'
  OBVIOUS
<1> DEFINE next == IF switch.does = "off" THEN "service" ELSE "save"
<1>1. /\ ToggleTypes /\ Ran /\ switch.at = "write claude" /\ switch \in PlanType
      /\ claude' = switch.newClaude /\ Continue(Following("claude"))
      /\ UNCHANGED <<codex, managed, paused, untouched, routed, lapses, edits>>
  BY RunningIsPlan DEF ToggleInv, WriteClaude, Stands
<1>2. Following("claude") = next /\ next \in Steps
  BY <1>1, FollowingIs DEF PlanType, Steps
<1>3. switch' \in PlanType /\ switch'.at = next /\ SamePlan
  BY <1>1, <1>2, ContinueIs
<1>4. ASSUME routed # None PROVE Found' /\ OnReturns'
  <2>1. Found /\ OnReturns
    BY <1>4 DEF RouteInv
  <2>2. ClaudeFound'
    <3>1. CASE switch.does = "on"
      BY <1>1, <2>1, <3>1 DEF OnReturns, ClaudeFound
    <3>2. CASE switch.does = "off"
      <4>1. switch.newClaude = "unset" /\ paused.url = switch.claude /\ claude = switch.claude
            /\ switch.newClaude # switch.claude
        BY <1>1, <2>1, <3>2 DEF ToggleInv, OffIsSound, OffInOrder, OffAlone, Before, Found
      <4>2. "claude" \in routed => claude # None
        BY <2>1, <4>1, ToggleAssumption DEF Found, ClaudeFound
      <4> QED BY <1>1, <4>1, <4>2 DEF ClaudeFound
    <3> QED BY <1>1, <3>1, <3>2 DEF PlanType
  <2>3. Found'
    BY <1>1, <2>1, <2>2 DEF Found, CodexFound
  <2>4. OnReturns'
    BY <1>1, <1>3, <2>1 DEF OnReturns, StandsAt, CodexBack, SamePlan
  <2> QED BY <2>3, <2>4
<1>5. ~Before({"save"})'
  BY <1>3 DEF Before, SamePlan
<1> QED BY <1>1, <1>3, <1>4, <1>5 DEF RouteInv, SamePlan

LEMMA SwitchServiceRoutes == ToggleInv /\ RouteInv /\ SwitchService => RouteInv'
<1> SUFFICES ASSUME ToggleInv, RouteInv, SwitchService PROVE RouteInv'
  OBVIOUS
<1> DEFINE next == IF switch.does = "off" THEN "done" ELSE "codex"
<1>1. /\ ToggleTypes /\ Ran /\ switch.at = "service" /\ switch \in PlanType
      /\ UNCHANGED <<codex, claude, paused, untouched, removed, routed, lapses, edits>>
  BY RunningIsPlan DEF ToggleInv, SwitchService, Stands
<1>2. Following("service") = next /\ next \in Steps
  BY <1>1, FollowingIs DEF PlanType, Steps
<1>3. ASSUME NEW s, managed' = s, routed # None,
             s # None => paused # None /\ s.port = paused.port
      PROVE  Found'
  BY <1>1, <1>3 DEF RouteInv, Found, CodexFound, ClaudeFound
<1>4. CASE switch.does = "off"
  <2>1. managed' \in {managed, None} /\ Continue(next)
    BY <1>2, <1>4 DEF SwitchService
  <2>2. switch' \in PlanType /\ switch'.at = next /\ SamePlan
    BY <1>1, <1>2, <2>1, ContinueIs
  <2>3. routed # None => Found'
    BY <1>3, <2>1 DEF RouteInv, Found
  <2>4. ~Before({"save"})' /\ OnReturns'
    BY <1>4, <2>2 DEF Before, SamePlan, OnReturns
  <2> QED BY <1>1, <2>2, <2>3, <2>4 DEF RouteInv, SamePlan
<1>5. CASE switch.does = "on"
  <2>1. \/ Abort
        \/ Continue(next)
    BY <1>2, <1>5 DEF SwitchService
  <2>2. switch'.does # "off" /\ ~Before({"save"})'
    <3>1. CASE Abort
      BY <3>1 DEF Abort, NoSwitch, Before
    <3>2. CASE Continue(next)
      <4>1. SamePlan
        BY <1>1, <1>2, <3>2, ContinueIs
      <4> QED BY <1>5, <4>1 DEF SamePlan, Before
    <3> QED BY <2>1, <3>1, <3>2
  <2>3. ASSUME routed # None PROVE Found' /\ OnReturns'
    <3>1. Found /\ OnReturns /\ managed = switch.service /\ switch.new # None
          /\ switch.new.port = paused.port
      BY <1>1, <1>5, <2>3 DEF RouteInv, OnReturns, StandsAt
    <3>2. managed' \in {managed, switch.new} /\ managed' # None /\ Continue(next)
      <4>1. CASE switch.service # None
        BY <1>2, <1>5, <3>1, <4>1 DEF SwitchService
      <4>2. CASE switch.service = None
        BY <1>2, <1>5, <3>1, <4>2 DEF SwitchService, Or
      <4> QED BY <4>1, <4>2
    <3>3. switch' \in PlanType /\ switch'.at = "codex" /\ SamePlan
      BY <1>1, <1>2, <1>5, <3>2, ContinueIs
    <3>4. Found'
      BY <1>3, <2>3, <3>1, <3>2 DEF Found
    <3>5. OnReturns'
      BY <1>1, <1>5, <3>1, <3>2, <3>3 DEF OnReturns, StandsAt, CodexBack, SamePlan
    <3> QED BY <3>4, <3>5
  <2> QED BY <1>1, <2>2, <2>3 DEF RouteInv
<1> QED BY <1>1, <1>4, <1>5 DEF PlanType

LEMMA NextRouteInv == ToggleInv /\ RouteInv /\ [ToggleNext]_toggleVars => RouteInv'
<1> SUFFICES ASSUME ToggleInv, RouteInv, [ToggleNext]_toggleVars PROVE RouteInv'
  OBVIOUS
<1>1. CASE Lapse
  BY <1>1, RouteAborts DEF Lapse
<1>2. CASE Interfere
  <2>1. untouched' = FALSE /\ routed' = None /\ switch' = switch
    BY <1>2 DEF Interfere
  <2> QED BY <2>1 DEF RouteInv
<1>3. CASE UNCHANGED toggleVars
  <2>1. PlanOff' = PlanOff
    BY <1>3, SamePlans DEF toggleVars
  <2>2. UNCHANGED <<codex, claude, managed, paused, switch, untouched, routed>>
    BY <1>3 DEF toggleVars
  <2>3. Found' = Found
    BY <2>2 DEF Found, CodexFound, ClaudeFound
  <2>4. OnReturns' = OnReturns
    BY <2>2 DEF OnReturns, StandsAt, CodexBack
  <2>5. Before({"save"})' = Before({"save"})
    BY <2>2 DEF Before
  <2> QED BY <2>1, <2>2, <2>3, <2>4, <2>5 DEF RouteInv
<1> QED BY <1>1, <1>2, <1>3, TurnOffRoutes, TurnOnRoutes, SavePausedRoutes, LookCodexRoutes,
           WriteCodexRoutes, LookClaudeRoutes, WriteClaudeRoutes, SwitchServiceRoutes
           DEF ToggleNext

LEMMA RouteInvariant == ToggleSpec => [](ToggleInv /\ RouteInv)
<1>1. ToggleInit => ToggleInv /\ RouteInv
  BY InitToggleInv, InitRouteInv
<1>2. ToggleInv /\ RouteInv /\ [ToggleNext]_toggleVars => (ToggleInv /\ RouteInv)'
  BY NextToggleInv, NextRouteInv
<1> QED BY <1>1, <1>2, PTL DEF ToggleSpec

\* Whatever failed and was repeated in between: off strands nobody, and when on is
\* done, everybody who was routed when off first saved it is routed to the service.
THEOREM SwitchKeepsRoutesHolds == ToggleSpec => SwitchKeepsRoutes
<1> DEFINE Return == ~Stands("done") /\ switch'.does = "on" /\ switch'.at = "done" /\ routed # None =>
                       /\ managed # None
                       /\ "codex" \in routed => codex.provider = "gobstopper"
                       /\ "sessions" \in routed => codex.base = managed.port
                       /\ "claude" \in routed => claude = managed.port
<1>1. ToggleInv /\ RouteInv /\ [ToggleNext]_toggleVars => [Return]_toggleVars
  <2> SUFFICES ASSUME ToggleInv, RouteInv, ToggleNext, ~Stands("done"), switch'.does = "on",
                      switch'.at = "done", routed # None
               PROVE  Return
    OBVIOUS
  <2>1. ToggleTypes /\ Found /\ OnReturns
    BY DEF ToggleInv, RouteInv
  <2>2. Ran /\ switch.does = "on" /\ switch.at = "save"
    <3>1. CASE TurnOff \/ TurnOn
      <4>1. switch'.at \in {"save", "service"}
        BY <3>1, PlanOffIs, PlanOnIs DEF TurnOff, TurnOn, OffOrder, OnOrder, PlanType, ToggleInv
      <4> QED BY <4>1
    <3>2. CASE Lapse \/ Interfere
      BY <3>2 DEF Lapse, Interfere, Abort, NoSwitch, Ran, Stands
    <3>3. ASSUME Ran, NEW step \in Steps, Continue(step)
          PROVE  switch.does = "on" /\ step = "done"
      BY <2>1, <3>3, ContinueIs DEF SamePlan
    <3>4. ASSUME Abort PROVE FALSE
      BY <3>4 DEF Abort, NoSwitch
    <3>5. CASE SavePaused
      BY <2>1, <3>3, <3>5, FollowingIs, RunningIsPlan DEF SavePaused, Stands, Steps, PlanType
    <3>6. CASE LookCodex \/ WriteCodex
      <4>1. Ran /\ Following("codex") = "claude" /\ (Continue("claude") \/ Continue("write codex") \/ Abort)
        BY <2>1, <3>6, FollowingIs, RunningIsPlan DEF LookCodex, WriteCodex, Stands, PlanType
      <4> QED BY <3>3, <3>4, <4>1 DEF Steps
    <3>7. CASE LookClaude \/ WriteClaude
      <4>1. /\ Ran /\ Following("claude") = (IF switch.does = "off" THEN "service" ELSE "save")
            /\ Continue(Following("claude")) \/ Continue("write claude") \/ Abort
        BY <2>1, <3>7, FollowingIs, RunningIsPlan DEF LookClaude, WriteClaude, Stands, PlanType
      <4> QED BY <3>3, <3>4, <4>1 DEF Steps
    <3>8. CASE SwitchService
      <4>1. /\ Ran /\ Following("service") = (IF switch.does = "off" THEN "done" ELSE "codex")
            /\ Continue(Following("service")) \/ Abort
        BY <2>1, <3>8, FollowingIs, RunningIsPlan DEF SwitchService, Stands, PlanType
      <4> QED BY <3>3, <3>4, <4>1 DEF Steps
    <3> QED BY <3>1, <3>2, <3>5, <3>6, <3>7, <3>8 DEF ToggleNext
  <2>3. /\ managed # None /\ managed.port = paused.port /\ codex = switch.newCodex
        /\ CodexBack(codex) /\ ("claude" \in routed => claude = paused.port)
    BY <2>1, <2>2 DEF OnReturns, StandsAt, Found
  <2> QED BY <2>3 DEF CodexBack
<1> QED BY <1>1, RouteInvariant, NobodyIsLeftBehind, PTL DEF ToggleSpec, SwitchKeepsRoutes, RoutesReturn

-----------------------------------------------------------------------------
(* Scopes: the invariant                                                   *)

Rows ==
  [capacity: Window, threshold: Standing, adaptive: BOOLEAN, requested: Nat,
   remaining: Nat, created: Time, expires: Time, generation: 0..MaxGeneration,
   rereads: Nat, since: Time, cooldown: Time]
Evidence == [seen: Time \cup {-1}, evicted: BOOLEAN]
Calls ==
  [thread: {"none", "queued", "consuming", "decided"}, waits: BOOLEAN, decision: Decision]

\* What is left of the reservation has not been granted yet.
Allowed ==
  /\ granted.requests <= granted.allowance
  /\ row # NoScope =>
       /\ granted.requests + row.remaining <= granted.allowance
       /\ row.remaining > 0 => row.requested > 0

\* What the scope gets without a reservation.
Unreserved(r) ==
  Least(IF r.threshold # 0 THEN r.threshold ELSE Base, IF r.capacity # 0 THEN r.capacity ELSE Base)

\* A decision is older than the row, or is what the row still says.
Agrees(r, d) ==
  /\ d.generation <= r.generation
  /\ d.generation = r.generation /\ d.requested = 0 => d.effective = Unreserved(r)
DecisionsAgree ==
  row # NoScope =>
    /\ \A c \in Call : call[c].thread = "decided" => Agrees(row, call[c].decision)
    /\ \A i \in 1..Len(queue) : Agrees(row, queue[i])

\* Rereads are counted once for each result that was recorded since.
RecordedSince(seen, time) == {s \in Source : seen[s].seen >= time}
EarnedOnce == row # NoScope => row.rereads <= Cardinality(RecordedSince(evidence, row.since))

ScopesInv == ScopesTypeOK /\ Allowed /\ DecisionsAgree /\ EarnedOnce

LEMMA TimeIs ==
  /\ Time \subseteq Nat /\ 0 \in Time
  /\ \A t \in 0..MaxTime : t \in Time /\ t + Lifetime \in Time /\ t + RescueTime \in Time
                           /\ t + Recently \in Time
  BY NumberAssumption DEF Time

LEMMA RowIs == ScopesTypeOK => (row = NoScope \/ row \in Rows)
  BY DEF ScopesTypeOK, Rows

LEMMA DecideIs ==
  ASSUME NEW r \in Rows, NEW now \in Time
  PROVE  /\ Decide(r, now) \in Decision
         /\ Decide(r, now).generation = r.generation
         /\ Decide(r, now).requested = (IF Active(r, now) THEN r.requested ELSE 0)
         /\ ~Active(r, now) => Decide(r, now).effective = Unreserved(r)
<1>1. Wanted(r, now) \in Nat /\ Base \in Nat /\ r.capacity \in Nat
  BY NumberAssumption DEF Wanted, Rows
<1>2. Least(Wanted(r, now), IF r.capacity # 0 THEN r.capacity ELSE Base) \in Nat
  BY <1>1 DEF Least
<1> DEFINE effective == Least(Wanted(r, now), IF r.capacity # 0 THEN r.capacity ELSE Base)
<1>3. ~Active(r, now) => effective = Unreserved(r)
  BY DEF Unreserved, Wanted
<1>4. effective \in Nat
  BY <1>2
<1>5. Decide(r, now) = [requested |-> IF Active(r, now) THEN r.requested ELSE 0,
                        effective |-> effective, capacity |-> r.capacity,
                        generation |-> r.generation, adaptive |-> r.adaptive]
  BY DEF Decide
<1> HIDE DEF effective
<1>6. r.generation \in Nat /\ r.requested \in Nat /\ r.adaptive \in BOOLEAN
  BY DEF Rows
<1> QED BY <1>1, <1>3, <1>4, <1>5, <1>6 DEF Decision

LEMMA TargetIs ==
  ASSUME NEW d \in Decision
  PROVE  Target(d) \in Nat /\ Target(d) <= 2 * d.effective
  BY DEF Decision, Target, Least

LEMMA InitScopesInv == ScopesInit => ScopesInv
<1> SUFFICES ASSUME ScopesInit PROVE ScopesInv
  OBVIOUS
<1>1. 0 \in Nat /\ 0 \in Time /\ 0 \in 0..MaxGeneration /\ 0 \in 0..MaxTime /\ 0 \in 0..MaxSetBacks
  BY NumberAssumption, TimeIs
<1>2. row \in Rows
  BY <1>1 DEF ScopesInit, Rows
<1>3. Undecided \in Decision
  BY DEF Undecided, Decision
<1>4. ScopesTypeOK
  BY <1>1, <1>2, <1>3 DEF ScopesInit, ScopesTypeOK, Rows, Quiet
<1>5. Allowed /\ DecisionsAgree
  BY DEF ScopesInit, Allowed, DecisionsAgree, Quiet
<1>6. EarnedOnce
  <2>1. row.rereads = 0
    BY DEF ScopesInit
  <2>2. IsFiniteSet(RecordedSince(evidence, row.since))
    BY DigestAssumption, FS_Subset DEF RecordedSince
  <2> QED BY <2>1, <2>2, FS_CardinalityType DEF EarnedOnce
<1> QED BY <1>4, <1>5, <1>6 DEF ScopesInv

-----------------------------------------------------------------------------
(* Scopes: steps                                                           *)

LEMMA RecordedIs ==
  ASSUME NEW seen, NEW time
  PROVE  IsFiniteSet(RecordedSince(seen, time)) /\ Cardinality(RecordedSince(seen, time)) \in Nat
  BY DigestAssumption, FS_Subset, FS_CardinalityType DEF RecordedSince

LEMMA DecisionsAre ==
  ASSUME ScopesTypeOK
  PROVE  /\ \A c \in Call : call[c].decision \in Decision
         /\ \A i \in 1..Len(queue) : queue[i] \in Decision
  BY ElementOfSeq DEF ScopesTypeOK

\* After a reservation, a release or a rescue, all earlier decisions are old.
LEMMA AllAreOld ==
  ASSUME ScopesTypeOK, DecisionsAgree, row \in Rows, row # NoScope,
         row' \in Rows, row'.generation = row.generation + 1, call' = call,
         \A i \in 1..Len(queue') : \E j \in 1..Len(queue) : queue'[i] = queue[j]
  PROVE  DecisionsAgree'
<1>1. ASSUME NEW d \in Decision, Agrees(row, d)
      PROVE  d.generation <= row'.generation /\ d.generation # row'.generation
  BY <1>1 DEF Agrees, Decision, Rows
<1> QED BY <1>1, DecisionsAre DEF DecisionsAgree, Agrees

\* The decisions are among those that were there, and the row still says the same.
LEMMA NoneIsNew ==
  ASSUME DecisionsAgree, row # NoScope, row'.generation = row.generation,
         row'.threshold = row.threshold, row'.capacity = row.capacity,
         \A c \in Call : call'[c].thread = "decided" =>
           (call[c].thread = "decided" /\ call'[c].decision = call[c].decision),
         \A i \in 1..Len(queue') :
           \/ \E j \in 1..Len(queue) : queue'[i] = queue[j]
           \/ \E c \in Call : call[c].thread = "decided" /\ queue'[i] = call[c].decision
  PROVE  DecisionsAgree'
  BY DEF DecisionsAgree, Agrees, Unreserved

LEMMA ReserveKeeps ==
  ASSUME ScopesInv, NEW tokens \in Asked, NEW requests \in 1..Requests, Reserve(tokens, requests)
  PROVE  ScopesInv'
<1>1. row \in Rows /\ row.generation < MaxGeneration /\ clock \in 0..MaxTime /\ ScopesTypeOK
  BY RowIs DEF ScopesInv, Reserve, ScopesTypeOK
<1>2. tokens \in Nat /\ tokens > 0 /\ requests \in Nat
  BY NumberAssumption
<1>3. /\ clock \in Time /\ clock + Lifetime \in Time
      /\ row.generation \in Nat /\ row.generation + 1 \in 0..MaxGeneration
  BY <1>1, TimeIs, NumberAssumption DEF Rows
<1>4. /\ row' \in Rows /\ row'.requested = tokens /\ row'.remaining = requests
      /\ row'.generation = row.generation + 1 /\ row'.rereads = row.rereads /\ row'.since = row.since
  BY <1>1, <1>2, <1>3 DEF Reserve, Rows
<1>5. granted' = [requests |-> 0, allowance |-> requests]
      /\ UNCHANGED <<evidence, clock, setBacks, call, queue>> /\ row # NoScope
  BY DEF Reserve
<1>6. ScopesTypeOK'
  BY <1>1, <1>2, <1>4, <1>5 DEF ScopesTypeOK, Rows
<1>7. Allowed'
  BY <1>2, <1>4, <1>5 DEF Allowed
<1>8. DecisionsAgree'
  BY <1>1, <1>4, <1>5, AllAreOld DEF ScopesInv
<1>9. EarnedOnce'
  BY <1>4, <1>5 DEF ScopesInv, EarnedOnce
<1> QED BY <1>6, <1>7, <1>8, <1>9 DEF ScopesInv

LEMMA WithdrawKeeps == ScopesInv /\ Withdraw => ScopesInv'
<1> SUFFICES ASSUME ScopesInv, Withdraw PROVE ScopesInv'
  OBVIOUS
<1>1. row \in Rows /\ row.generation < MaxGeneration /\ clock \in 0..MaxTime /\ ScopesTypeOK
  BY RowIs DEF ScopesInv, Withdraw, ScopesTypeOK
<1>2. /\ 0 \in Time /\ clock + RescueTime \in Time
      /\ row.generation \in Nat /\ row.generation + 1 \in 0..MaxGeneration
  BY <1>1, TimeIs, NumberAssumption DEF Rows
<1>3. /\ row' \in Rows /\ row'.remaining = 0 /\ row'.rereads = 0
      /\ row'.generation = row.generation + 1
  BY <1>1, <1>2 DEF Withdraw, Rows
<1>4. granted' = [requests |-> 0, allowance |-> 0]
      /\ UNCHANGED <<evidence, clock, setBacks, call, queue>> /\ row # NoScope
  BY DEF Withdraw
<1>5. ScopesTypeOK'
  BY <1>1, <1>3, <1>4 DEF ScopesTypeOK, Rows
<1>6. Allowed'
  BY <1>3, <1>4 DEF Allowed
<1>7. DecisionsAgree'
  BY <1>1, <1>3, <1>4, AllAreOld DEF ScopesInv
<1>8. EarnedOnce'
  BY <1>3, RecordedIs DEF EarnedOnce
<1> QED BY <1>5, <1>6, <1>7, <1>8 DEF ScopesInv

LEMMA CloseScopeKeeps == ScopesInv /\ CloseScope => ScopesInv'
  BY DEF CloseScope, ScopesInv, ScopesTypeOK, Allowed, DecisionsAgree, EarnedOnce

\* A step of the surroundings.
LEMMA OthersKeep ==
  ASSUME ScopesInv, ScopesTypeOK', UNCHANGED <<row, evidence, granted>>,
         \A c \in Call : call'[c].thread = "decided" =>
           (call[c].thread = "decided" /\ call'[c].decision = call[c].decision),
         \A i \in 1..Len(queue') :
           \/ \E j \in 1..Len(queue) : queue'[i] = queue[j]
           \/ \E c \in Call : call[c].thread = "decided" /\ queue'[i] = call[c].decision
  PROVE  ScopesInv'
<1>1. Allowed' /\ EarnedOnce'
  BY DEF ScopesInv, Allowed, EarnedOnce
<1>2. DecisionsAgree'
  <2>1. CASE row = NoScope
    BY <2>1 DEF DecisionsAgree
  <2>2. CASE row # NoScope
    BY <2>2, NoneIsNew DEF ScopesInv
  <2> QED BY <2>1, <2>2
<1> QED BY <1>1, <1>2 DEF ScopesInv

LEMMA CallSteps ==
  ASSUME ScopesInv, NEW c \in Call, AskScope(c) \/ StopWaiting(c) \/ PassDeadline(c)
  PROVE  ScopesInv'
<1>1. /\ UNCHANGED <<row, evidence, granted, clock, setBacks, queue>>
      /\ call \in [Call -> Calls] /\ Quiet \in Calls /\ ScopesTypeOK
  BY DEF AskScope, StopWaiting, PassDeadline, ScopesInv, ScopesTypeOK, Calls, Quiet, Undecided, Decision
<1>2. \E new \in Calls : call' = [call EXCEPT ![c] = new] /\ new.thread # "decided"
  <2>1. call[c] \in Calls
    BY <1>1
  <2>2. CASE AskScope(c)
    <3> DEFINE new == [Quiet EXCEPT !.thread = "queued", !.waits = TRUE]
    <3>1. new \in Calls /\ new.thread # "decided"
      BY <1>1 DEF Calls
    <3> QED BY <2>2, <3>1 DEF AskScope
  <2>3. CASE StopWaiting(c)
    <3> DEFINE new == [call[c] EXCEPT !.waits = FALSE]
    <3>1. new \in Calls /\ new.thread # "decided"
      BY <2>1, <2>3 DEF Calls, StopWaiting
    <3> QED BY <2>3, <3>1 DEF StopWaiting
  <2>4. CASE PassDeadline(c)
    <3> DEFINE new == IF call[c].waits THEN [call[c] EXCEPT !.thread = "consuming"] ELSE Quiet
    <3>1. new \in Calls /\ new.thread # "decided"
      BY <1>1, <2>1 DEF Calls, Quiet
    <3> QED BY <2>4, <3>1 DEF PassDeadline
  <2> QED BY <2>2, <2>3, <2>4
<1>3. ScopesTypeOK'
  BY <1>1, <1>2 DEF ScopesTypeOK, Calls
<1> QED BY <1>1, <1>2, <1>3, OthersKeep

LEMMA ReportKeeps ==
  ASSUME ScopesInv, NEW c \in Call, Report(c)
  PROVE  ScopesInv'
<1>1. /\ UNCHANGED <<row, evidence, granted, clock, setBacks>>
      /\ call[c].thread = "decided" /\ call' = [call EXCEPT ![c] = Quiet]
      /\ queue' = queue \/ queue' = Append(queue, call[c].decision)
      /\ call \in [Call -> Calls] /\ Quiet \in Calls /\ ScopesTypeOK /\ queue \in Seq(Decision)
  BY DEF Report, ScopesInv, ScopesTypeOK, Calls, Quiet, Undecided, Decision
<1>2. \A e \in Call : call'[e].thread = "decided" => e # c
  BY <1>1 DEF Quiet
<1>3. call[c].decision \in Decision
  BY <1>1, DecisionsAre
<1>4. queue' \in Seq(Decision)
      /\ \A i \in 1..Len(queue') : (i \in 1..Len(queue) /\ queue'[i] = queue[i]) \/ queue'[i] = call[c].decision
  <2>1. Len(queue) \in Nat
    BY <1>1, LenProperties
  <2>2. CASE queue' = queue
    BY <1>1, <2>2
  <2>3. CASE queue' = Append(queue, call[c].decision)
    <3>1. /\ queue' \in Seq(Decision) /\ Len(queue') = Len(queue) + 1
          /\ \A i \in 1..Len(queue) : queue'[i] = queue[i]
          /\ queue'[Len(queue) + 1] = call[c].decision
      BY <1>1, <1>3, <2>3, AppendProperties
    <3>2. \A i \in 1..(Len(queue) + 1) : i \in 1..Len(queue) \/ i = Len(queue) + 1
      BY <2>1
    <3> QED BY <3>1, <3>2
  <2> QED BY <1>1, <2>2, <2>3
<1>5. ScopesTypeOK'
  BY <1>1, <1>4 DEF ScopesTypeOK, Calls
<1>6. \A e \in Call : call'[e].thread = "decided" =>
           (call[e].thread = "decided" /\ call'[e].decision = call[e].decision)
  BY <1>1, <1>2
<1>7. \A i \in 1..Len(queue') :
           \/ \E j \in 1..Len(queue) : queue'[i] = queue[j]
           \/ \E e \in Call : call[e].thread = "decided" /\ queue'[i] = call[e].decision
  <2> SUFFICES ASSUME NEW i \in 1..Len(queue')
               PROVE  \/ \E j \in 1..Len(queue) : queue'[i] = queue[j]
                      \/ \E e \in Call : call[e].thread = "decided" /\ queue'[i] = call[e].decision
    OBVIOUS
  <2>1. (i \in 1..Len(queue) /\ queue'[i] = queue[i]) \/ queue'[i] = call[c].decision
    BY <1>4
  <2>2. call[c].thread = "decided"
    BY <1>1
  <2> QED BY <2>1, <2>2
<1> QED BY <1>1, <1>5, <1>6, <1>7, OthersKeep

LEMMA TailIs ==
  ASSUME ScopesTypeOK, queue # <<>>
  PROVE  /\ Head(queue) \in Decision /\ Head(queue) = queue[1] /\ 1 \in 1..Len(queue)
         /\ Tail(queue) \in Seq(Decision) /\ Tail(queue) # queue
         /\ \A i \in 1..Len(Tail(queue)) : \E j \in 1..Len(queue) : Tail(queue)[i] = queue[j]
<1>1. queue \in Seq(Decision) /\ Len(queue) \in Nat
  BY LenProperties DEF ScopesTypeOK
<1>2. /\ Head(queue) \in Decision /\ Tail(queue) \in Seq(Decision)
      /\ Len(Tail(queue)) = Len(queue) - 1
      /\ \A i \in 1..Len(Tail(queue)) : Tail(queue)[i] = queue[i + 1]
  BY <1>1, HeadTailProperties
<1>3. Head(queue) = queue[1] /\ Len(queue) # 0
  BY <1>1
<1>4. \A i \in 1..(Len(queue) - 1) : i + 1 \in 1..Len(queue)
  BY <1>1
<1>5. 1 \in 1..Len(queue) /\ Len(queue) - 1 # Len(queue)
  BY <1>1, <1>3
<1> QED BY <1>2, <1>3, <1>4, <1>5

LEMMA SurroundingsKeep ==
  ASSUME ScopesInv, LoseBatch \/ ClockTicks \/ ClockSetBack \/ ProxyRestarts
  PROVE  ScopesInv'
<1>1. /\ UNCHANGED <<row, evidence, granted>> /\ ScopesTypeOK
      /\ clock \in 0..MaxTime /\ setBacks \in 0..MaxSetBacks
      /\ call \in [Call -> Calls] /\ Quiet \in Calls /\ queue \in Seq(Decision)
  BY DEF LoseBatch, ClockTicks, ClockSetBack, ProxyRestarts, ScopesInv, ScopesTypeOK, Calls, Quiet,
         Undecided, Decision
<1>2. clock' \in 0..MaxTime /\ setBacks' \in 0..MaxSetBacks
  <2>0. MaxTime \in Nat /\ MaxSetBacks \in Nat
    BY NumberAssumption
  <2>1. CASE LoseBatch \/ ProxyRestarts
    <3>1. clock' = clock /\ setBacks' = setBacks
      BY <2>1 DEF LoseBatch, ProxyRestarts
    <3> QED BY <1>1, <3>1
  <2>2. CASE ClockTicks
    <3>1. clock < MaxTime /\ clock' = clock + 1 /\ setBacks' = setBacks
      BY <2>2 DEF ClockTicks
    <3> QED BY <1>1, <2>0, <3>1
  <2>3. CASE ClockSetBack
    <3>1. /\ clock > 0 /\ clock' = clock - 1
          /\ setBacks < MaxSetBacks /\ setBacks' = setBacks + 1
      BY <2>3 DEF ClockSetBack
    <3> QED BY <1>1, <2>0, <3>1
  <2> QED BY <2>1, <2>2, <2>3
<1>3. call' = call \/ call' = [c \in Call |-> Quiet]
  BY DEF LoseBatch, ClockTicks, ClockSetBack, ProxyRestarts
<1>4. queue' \in Seq(Decision) /\ \A i \in 1..Len(queue') : \E j \in 1..Len(queue) : queue'[i] = queue[j]
  <2>1. CASE queue' = queue
    BY <1>1, <2>1
  <2>2. CASE queue' = <<>>
    BY <2>2
  <2>3. CASE queue # <<>> /\ queue' = Tail(queue)
    BY <1>1, <2>3, TailIs
  <2> QED BY <2>1, <2>2, <2>3 DEF LoseBatch, ClockTicks, ClockSetBack, ProxyRestarts
<1>5. ScopesTypeOK'
  BY <1>1, <1>2, <1>3, <1>4 DEF ScopesTypeOK, Calls
<1>6. \A c \in Call : call'[c].thread = "decided" =>
           (call[c].thread = "decided" /\ call'[c].decision = call[c].decision)
  BY <1>3 DEF Quiet
<1> QED BY <1>1, <1>4, <1>5, <1>6, OthersKeep

LEMMA StillAgrees ==
  ASSUME row'.generation = row.generation, row'.threshold = row.threshold,
         row'.capacity = row.capacity, NEW d, Agrees(row, d)
  PROVE  Agrees(row', d)
  BY DEF Agrees, Unreserved

LEMMA Consume1Keeps ==
  ASSUME ScopesInv, NEW c \in Call, Consume1(c)
  PROVE  ScopesInv'
<1>1. /\ ScopesTypeOK /\ Allowed /\ DecisionsAgree /\ EarnedOnce
      /\ UNCHANGED <<evidence, clock, setBacks, queue>> /\ clock \in Time
      /\ call \in [Call -> Calls] /\ Quiet \in Calls /\ granted \in [requests: Nat, allowance: Nat]
  BY TimeIs DEF ScopesInv, ScopesTypeOK, Consume1, Calls, Quiet, Undecided, Decision
<1>2. CASE row = NoScope
  <2>1. row' = row /\ granted' = granted /\ call' = [call EXCEPT ![c] = Quiet]
    BY <1>2 DEF Consume1
  <2>2. ScopesTypeOK'
    BY <1>1, <2>1 DEF ScopesTypeOK, Calls
  <2> QED BY <1>1, <1>2, <2>1, <2>2 DEF ScopesInv, Allowed, DecisionsAgree, EarnedOnce
<1>3. CASE row # NoScope
  <2> DEFINE d == Decide(row, clock)
             new == IF call[c].waits THEN [call[c] EXCEPT !.thread = "decided", !.decision = d] ELSE Quiet
  <2>1. /\ row' = (IF d.requested # 0 /\ row.remaining > 0 THEN [row EXCEPT !.remaining = @ - 1] ELSE row)
        /\ granted' = (IF d.requested # 0 THEN [granted EXCEPT !.requests = @ + 1] ELSE granted)
        /\ call' = [call EXCEPT ![c] = new]
    BY <1>3 DEF Consume1
  <2>2. /\ row \in Rows /\ d \in Decision /\ d.generation = row.generation
        /\ d.requested = (IF Active(row, clock) THEN row.requested ELSE 0)
        /\ (~Active(row, clock) => d.effective = Unreserved(row))
    BY <1>1, <1>3, RowIs, DecideIs
  <2>3. Active(row, clock) => row.remaining > 0 /\ row.requested > 0
    BY <1>1, <1>3 DEF Active, Allowed
  <2>4. d.requested # 0 <=> Active(row, clock)
    BY <2>2, <2>3 DEF Rows
  <2>5. Agrees(row, d)
    BY <2>2, <2>4 DEF Agrees, Decision
  <2> HIDE DEF d
  <2>6. call[c] \in Calls /\ new \in Calls /\ (new.thread = "decided" => new.decision = d)
    BY <1>1, <2>2 DEF Calls, Quiet
  <2> HIDE DEF new
  <2>7. /\ row' \in Rows /\ row'.generation = row.generation /\ row'.threshold = row.threshold
        /\ row'.capacity = row.capacity /\ row'.rereads = row.rereads /\ row'.since = row.since
        /\ row'.requested = row.requested
        /\ row'.remaining = (IF Active(row, clock) THEN row.remaining - 1 ELSE row.remaining)
    BY <2>1, <2>2, <2>3, <2>4 DEF Rows
  <2>8. /\ granted' \in [requests: Nat, allowance: Nat] /\ granted'.allowance = granted.allowance
        /\ granted'.requests = (IF Active(row, clock) THEN granted.requests + 1 ELSE granted.requests)
    BY <1>1, <2>1, <2>4
  <2>9. ScopesTypeOK'
    BY <1>1, <2>1, <2>6, <2>7, <2>8 DEF ScopesTypeOK, Rows, Calls
  <2>10. Allowed'
    <3>1. row.remaining \in Nat
      BY <2>2 DEF Rows
    <3> QED BY <1>1, <1>3, <2>3, <2>7, <2>8, <3>1 DEF Allowed
  <2>11. DecisionsAgree'
    <3>1. \A e \in Call : call'[e].thread = "decided" =>
            (call'[e].decision = d \/ (call[e].thread = "decided" /\ call'[e].decision = call[e].decision))
      BY <1>1, <2>1, <2>6
    <3>2. \A e : Agrees(row, e) => Agrees(row', e)
      BY <2>7, StillAgrees
    <3>3. \A e \in Call : call'[e].thread = "decided" => Agrees(row', call'[e].decision)
      BY <1>1, <1>3, <2>5, <3>1, <3>2 DEF DecisionsAgree
    <3>4. \A i \in 1..Len(queue) : Agrees(row', queue[i])
      BY <1>1, <1>3, <3>2 DEF DecisionsAgree, Agrees
    <3> QED BY <1>1, <3>3, <3>4 DEF DecisionsAgree, Agrees
  <2>12. EarnedOnce'
    BY <1>1, <1>3, <2>7 DEF EarnedOnce
  <2> QED BY <2>9, <2>10, <2>11, <2>12 DEF ScopesInv
<1> QED BY <1>2, <1>3

-----------------------------------------------------------------------------
(* Scopes: what is observed                                                *)

LEMMA NotedIs ==
  ASSUME ScopesTypeOK, NEW sources \in SUBSET Source, NEW evicted
  PROVE  /\ Noted(sources, evicted) \in [Source -> Evidence]
         /\ \A s \in Source :
              Noted(sources, evicted)[s].seen = (IF s \in New(sources) THEN clock ELSE evidence[s].seen)
<1> DEFINE e(s) == IF s \in New(sources) THEN [seen |-> clock, evicted |-> FALSE] ELSE evidence[s]
           new(s) == [e(s) EXCEPT !.evicted = @ \/ (e(s).seen # -1 /\ DigestOf[s] \in evicted)]
<1>1. \A s \in Source : e(s) \in Evidence
  BY TimeIs DEF ScopesTypeOK, Evidence
<1>2. \A s \in Source : e(s).seen = (IF s \in New(sources) THEN clock ELSE evidence[s].seen)
  OBVIOUS
<1>3. Noted(sources, evicted) = [s \in Source |-> new(s)]
  BY DEF Noted
<1> HIDE DEF e
<1>4. \A s \in Source : new(s) \in Evidence /\ new(s).seen = e(s).seen
  BY <1>1 DEF Evidence
<1> QED BY <1>2, <1>3, <1>4

LEMMA DisjointUnion ==
  ASSUME NEW a, NEW b, IsFiniteSet(a), IsFiniteSet(b), a \cap b = {}
  PROVE  Cardinality(a \cup b) = Cardinality(a) + Cardinality(b)
<1>1. Cardinality(a \cup b) = Cardinality(a) + Cardinality(b) - Cardinality(a \cap b)
  BY FS_Union
<1>2. Cardinality(a \cap b) = 0 /\ Cardinality(a) \in Nat /\ Cardinality(b) \in Nat
  BY FS_EmptySet, FS_CardinalityType
<1> QED BY <1>1, <1>2

\* The rereads that are counted are of as many different results.
LEMMA CountIs ==
  ASSUME ScopesInv, row # NoScope, NEW sources \in SUBSET Source, NEW evicted
  PROVE  /\ Hits(sources) \in Nat /\ Prior \in Nat
         /\ Prior <= Cardinality(RecordedSince(Noted(sources, evicted), row.since))
         /\ Prior + Hits(sources) <= Cardinality(RecordedSince(Noted(sources, evicted), Since(1)))
<1> DEFINE noted == Noted(sources, evicted)
           old == RecordedSince(evidence, row.since)
           hits == {s \in New(sources) : Repeats(s)}
<1>1. /\ ScopesTypeOK /\ row \in Rows /\ clock \in Nat /\ row.since \in Nat /\ row.rereads \in Nat
      /\ row.rereads <= Cardinality(old)
  BY RowIs, TimeIs DEF ScopesInv, EarnedOnce, Rows, ScopesTypeOK
<1>2. /\ \A s \in Source : noted[s].seen = (IF s \in New(sources) THEN clock ELSE evidence[s].seen)
      /\ \A s \in New(sources) : s \in Source /\ evidence[s].seen = -1
      /\ \A s \in Source : evidence[s].seen \in Int
  <2>1. \A s \in Source : evidence[s] \in Evidence
    BY <1>1 DEF ScopesTypeOK, Evidence
  <2>2. \A e \in Evidence : e.seen \in Int
    <3>1. \A t \in Time \cup {-1} : t \in Int
      BY TimeIs
    <3> QED BY <3>1 DEF Evidence
  <2>3. \A s \in New(sources) : s \in Source /\ evidence[s].seen = -1
    BY DEF New
  <2>4. \A s \in Source : noted[s].seen = (IF s \in New(sources) THEN clock ELSE evidence[s].seen)
    BY <1>1, NotedIs
  <2> QED BY <2>1, <2>2, <2>3, <2>4
<1> HIDE DEF noted
<1>3. IsFiniteSet(hits) /\ Cardinality(hits) \in Nat /\ hits \subseteq New(sources) /\ hits \subseteq Source
  BY <1>2, DigestAssumption, FS_Subset, FS_CardinalityType
<1>4. Prior \in Nat /\ (Prior # 0 => (Prior = row.rereads /\ clock >= row.since)) /\ Prior <= row.rereads
  BY <1>1 DEF Prior
<1>5. IsFiniteSet(old) /\ Cardinality(old) \in Nat
  BY RecordedIs
<1>6. ASSUME NEW a, NEW time, a \subseteq RecordedSince(noted, time)
      PROVE  Cardinality(a) <= Cardinality(RecordedSince(noted, time))
  BY <1>6, RecordedIs, FS_Subset
<1>7. old \subseteq RecordedSince(noted, row.since)
  BY <1>1, <1>2 DEF RecordedSince
<1>8. Prior <= Cardinality(RecordedSince(noted, row.since))
  BY <1>1, <1>4, <1>5, <1>6, <1>7, RecordedIs
<1>9. Prior + Cardinality(hits) <= Cardinality(RecordedSince(noted, Since(1)))
  <2>1. CASE Prior = 0
    <3>1. Since(1) = clock
      BY <2>1 DEF Since
    <3>2. hits \subseteq RecordedSince(noted, clock)
      BY <1>1, <1>2, <1>3 DEF RecordedSince
    <3> QED BY <1>3, <1>6, <2>1, <3>1, <3>2
  <2>2. CASE Prior # 0
    <3>1. Since(1) = row.since
      BY <2>2 DEF Since
    <3>2. hits \cup old \subseteq RecordedSince(noted, row.since)
      BY <1>1, <1>2, <1>3, <1>4, <1>7, <2>2 DEF RecordedSince
    <3>3. hits \cap old = {}
      BY <1>1, <1>2, <1>3 DEF RecordedSince
    <3>4. Cardinality(hits \cup old) = Cardinality(hits) + Cardinality(old)
      BY <1>3, <1>5, <3>3, DisjointUnion
    <3>5. Cardinality(hits \cup old) <= Cardinality(RecordedSince(noted, row.since))
      BY <1>6, <3>2
    <3> QED BY <1>1, <1>3, <1>4, <1>5, <3>1, <3>4, <3>5, RecordedIs
  <2> QED BY <2>1, <2>2
<1> QED BY <1>3, <1>4, <1>8, <1>9 DEF Hits, noted

LEMMA ObserveBatchKeeps ==
  ASSUME ScopesInv, NEW sources \in SUBSET Source, NEW evicted, ObserveBatch(sources, evicted)
  PROVE  ScopesInv'
<1> DEFINE d == Head(queue)
           hits == Hits(sources)
<1>1. /\ ScopesTypeOK /\ DecisionsAgree /\ Allowed /\ row \in Rows /\ row # NoScope /\ queue # <<>>
      /\ queue' = Tail(queue) /\ evidence' = Noted(sources, evicted)
      /\ UNCHANGED <<clock, setBacks, call>>
  BY RowIs DEF ScopesInv, ObserveBatch
<1>2. /\ d \in Decision /\ queue' \in Seq(Decision)
      /\ \A i \in 1..Len(queue') : \E j \in 1..Len(queue) : queue'[i] = queue[j]
  BY <1>1, TailIs
<1>3. /\ clock \in Time /\ clock + RescueTime \in Time /\ clock + Recently \in Time /\ clock \in Nat
      /\ row.generation \in Nat /\ Target(d) \in Nat /\ RescueSize \in Nat
  <2>1. clock \in 0..MaxTime /\ row.generation \in Nat
    BY <1>1 DEF ScopesTypeOK, Rows
  <2>2. Target(d) \in Nat /\ RescueSize \in Nat
    BY <1>2, TargetIs, NumberAssumption
  <2> QED BY <2>1, <2>2, TimeIs, NumberAssumption
<1>4. evidence' \in [Source -> Evidence]
  BY <1>1, NotedIs
<1>5. CASE Rescues(d, hits)
  <2>1. row.generation < MaxGeneration /\ row' = Rescued(d)
        /\ granted' = [requests |-> 0, allowance |-> RescueSize] /\ Target(d) > d.effective
    BY <1>5 DEF ObserveBatch, Rescues
  <2>2. row.generation + 1 \in 0..MaxGeneration
    BY <1>3, <2>1, NumberAssumption
  <2>3. /\ row' \in Rows /\ row'.remaining = RescueSize /\ row'.requested = Target(d)
        /\ row'.generation = row.generation + 1 /\ row'.rereads = 0
    BY <1>1, <1>3, <2>1, <2>2 DEF Rescued, Rows
  <2>4. ScopesTypeOK'
    BY <1>1, <1>2, <1>3, <1>4, <2>1, <2>3 DEF ScopesTypeOK, Rows, Evidence
  <2>5. Allowed'
    BY <1>2, <1>3, <2>1, <2>3 DEF Allowed, Decision
  <2>6. DecisionsAgree'
    BY <1>1, <1>2, <2>3, AllAreOld
  <2>7. EarnedOnce'
    BY <2>3, RecordedIs DEF EarnedOnce
  <2> QED BY <2>4, <2>5, <2>6, <2>7 DEF ScopesInv
<1>6. CASE ~Rescues(d, hits)
  <2>1. row' = [row EXCEPT !.rereads = Counted(hits), !.since = Since(hits)] /\ granted' = granted
    BY <1>6 DEF ObserveBatch
  <2>2. hits \in Nat /\ Prior \in Nat
    BY <1>1, CountIs
  <2>3. Counted(hits) \in Nat /\ Since(hits) \in Time /\ Counted(hits) <= Prior + hits
    BY <1>1, <1>3, <2>2 DEF Counted, Since, Rows
  <2>4. /\ row' \in Rows /\ row'.remaining = row.remaining /\ row'.requested = row.requested
        /\ row'.generation = row.generation /\ row'.threshold = row.threshold
        /\ row'.capacity = row.capacity /\ row'.rereads = Counted(hits) /\ row'.since = Since(hits)
    BY <1>1, <2>1, <2>3 DEF Rows
  <2>5. ScopesTypeOK'
    BY <1>1, <1>2, <1>4, <2>1, <2>4 DEF ScopesTypeOK, Rows, Evidence
  <2>6. Allowed'
    BY <1>1, <2>1, <2>4 DEF Allowed
  <2>7. DecisionsAgree'
    BY <1>1, <1>2, <2>4, NoneIsNew
  <2>8. Counted(hits) <= Cardinality(RecordedSince(evidence', Since(hits)))
    <3>1. /\ Prior <= Cardinality(RecordedSince(evidence', row.since))
          /\ Prior + hits <= Cardinality(RecordedSince(evidence', Since(1)))
      BY <1>1, CountIs
    <3>2. CASE hits = 0
      BY <2>2, <2>3, <3>1, <3>2, RecordedIs DEF Since
    <3>3. CASE hits > 0
      BY <2>2, <2>3, <3>1, <3>3, RecordedIs DEF Since
    <3> QED BY <2>2, <3>2, <3>3
  <2>9. EarnedOnce'
    BY <2>4, <2>8 DEF EarnedOnce
  <2> QED BY <2>5, <2>6, <2>7, <2>9 DEF ScopesInv
<1> QED BY <1>5, <1>6

LEMMA NextScopesInv == ScopesInv /\ [ScopesNext]_scopeVars => ScopesInv'
<1> SUFFICES ASSUME ScopesInv, [ScopesNext]_scopeVars PROVE ScopesInv'
  OBVIOUS
<1>1. CASE UNCHANGED scopeVars
  BY <1>1 DEF scopeVars, ScopesInv, ScopesTypeOK, Allowed, DecisionsAgree, Agrees, Unreserved, EarnedOnce
<1> QED BY <1>1, ReserveKeeps, WithdrawKeeps, CloseScopeKeeps, CallSteps, Consume1Keeps, ReportKeeps,
           ObserveBatchKeeps, SurroundingsKeep DEF ScopesNext

LEMMA ScopesInvariant == ScopesSpec => []ScopesInv
<1> QED BY InitScopesInv, NextScopesInv, PTL DEF ScopesSpec

\* However requests race, give up and are retried: a reservation is granted to no
\* more requests than it names.
THEOREM AllowanceHolds == ScopesSpec => [](ScopesTypeOK /\ AllowanceRespected)
<1>1. ScopesInv => ScopesTypeOK /\ AllowanceRespected
  BY DEF ScopesInv, Allowed, AllowanceRespected
<1> QED BY <1>1, ScopesInvariant, PTL

\* A rescue doubles what the scope would get now, and was earned by as many
\* different results as it takes.
THEOREM RescueIsSoundHolds == ScopesSpec => RescueIsSound
<1> DEFINE Sound ==
      queue # <<>> /\ queue' = Tail(queue) /\ row' # NoScope /\ row'.generation # row.generation =>
        LET now == Decide(row, clock)
        IN /\ now.requested = 0 /\ now.effective = Head(queue).effective
           /\ row'.requested <= 2 * now.effective
           /\ Cardinality({s \in Source : evidence'[s].seen >= Since(1)}) >= Rereads
<1>1. ScopesInv /\ [ScopesNext]_scopeVars => [Sound]_scopeVars
  <2> SUFFICES ASSUME ScopesInv, ScopesNext, queue # <<>>, queue' = Tail(queue), row' # NoScope,
                      row'.generation # row.generation
               PROVE  Sound
    OBVIOUS
  <2>1. queue' # queue /\ ScopesTypeOK /\ DecisionsAgree /\ Allowed
    BY TailIs DEF ScopesInv
  <2>2. PICK sources \in SUBSET Source, evicted \in SUBSET Digest : ObserveBatch(sources, evicted)
    BY <2>1 DEF ScopesNext, Reserve, Withdraw, CloseScope, AskScope, StopWaiting, PassDeadline,
                Consume1, Report, LoseBatch, ClockTicks, ClockSetBack, ProxyRestarts
  <2> DEFINE d == Head(queue)
             hits == Hits(sources)
             now == Decide(row, clock)
  <2>3. row # NoScope /\ row \in Rows /\ evidence' = Noted(sources, evicted) /\ clock \in Time
    BY <2>1, <2>2, RowIs, TimeIs DEF ObserveBatch, ScopesTypeOK
  <2>4. Rescues(d, hits) /\ row' = Rescued(d)
    <3>1. ~Rescues(d, hits) => row'.generation = row.generation
      BY <2>2, <2>3 DEF ObserveBatch, Rows
    <3> QED BY <2>2, <3>1 DEF ObserveBatch
  <2>5. d \in Decision /\ d.generation = row.generation /\ d.requested = 0 /\ Agrees(row, d)
    BY <2>1, <2>3, <2>4, TailIs DEF Rescues, StillCurrent, DecisionsAgree
  <2>6. ~Active(row, clock)
    BY <2>4 DEF Rescues, Active
  <2>7. now.requested = 0 /\ now.effective = d.effective
    BY <2>3, <2>5, <2>6, DecideIs DEF Agrees
  <2>8. row'.requested <= 2 * d.effective
    BY <2>3, <2>4, <2>5, TargetIs DEF Rescued, Rows
  <2>9. Cardinality(RecordedSince(evidence', Since(1))) >= Rereads
    <3>1. hits \in Nat /\ Prior \in Nat /\ Prior + hits <= Cardinality(RecordedSince(evidence', Since(1)))
      BY <2>3, CountIs
    <3>2. Counted(hits) >= Rereads /\ Counted(hits) \in {0, Prior + hits} /\ Rereads \in Nat /\ Rereads # 0
      BY <2>4, NumberAssumption DEF Rescues, Counted
    <3> QED BY <3>1, <3>2, RecordedIs
  <2> QED BY <2>7, <2>8, <2>9 DEF RecordedSince
<1> QED BY <1>1, ScopesInvariant, PTL DEF ScopesSpec, RescueIsSound

-----------------------------------------------------------------------------
(* Upgrade: the invariant                                                  *)

\* Where a controller may be.
BeforeStop == {"entered", "draining", "not_stopped", "fail_soft"}
WithService == {"stopped", "quiet", "replacing"}
Replacing == {"snapshot", "swapped", "unwind", "unwind_receipt"}
Restoring == {"restore_binary", "restore_receipt"}
Starting == {"leased", "replaced", "starting"}
Protecting == {"protect", "protected", "restart"}
Halted == WithService \cup Replacing \cup Restoring \cup Starting \cup Protecting
          \cup {"converting", "drop", "restore"}
Inner == BeforeStop \cup Halted \cup {"verify", "settle", "restarted", "discard", "fail_hard", "ending"}
Places == Inner \cup {"absent", "launched", "validated", "ended"}

Clean == {"none", "staging", "started", "healthy"}
Midway == {"draining", "stopped", "replacing", "replaced", "starting"}
Underway == Inner \ {"entered", "fail_soft", "fail_hard", "discard", "ending"}

UpgradeTypes ==
  /\ UpgradeTypeOK
  /\ owner \in [Upgrade -> {"idle", "claimed", "prepared", "started", "failing", "ended"}]
  /\ controller \in [Upgrade -> [at: Places, then: {"restart", "protect"}]]

\* A version is installed, and named, only after its upgrade was claimed, and a
\* controller is launched by its owner's last step.
Ours(v) == v \in {installed.binary, installed.receipt}
OwnersFit ==
  \A u \in Upgrade :
    /\ owner[u] = "idle" => ~Ours(u) /\ ledger.from # u /\ ledger.id # u
    /\ owner[u] # "ended" => At(u) = "absent"

LedgerFits ==
  /\ ledger.id # Nobody =>
       /\ ledger.from # ledger.id
       /\ ledger.stage # "healthy" => ledger.to = ledger.id
  /\ ledger.id = Nobody => ledger.stage = "none"
  /\ ledger.stage \in Clean => ~ledger.recovery

\* Only an update that is under way replaces the files while the service is up.
LocksFit == activity.exclusive # Nobody => activity.shared = {} /\ service.running = Nobody
Undivided == installed.binary = installed.receipt \/ activity.exclusive = "update"
Mixed == ~Undivided => ~service.registered /\ Pending(ledger)

Kept(u) ==
  /\ installed.binary = u => "previous" \in staged[u]
  /\ installed.receipt = u => "old-receipt" \in staged[u]

Startable == service.registered \/ drain
ServiceFits ==
  /\ service.well => service.registered
  /\ Startable \/ Pending(ledger)

\* The upgrade that the ledger names.
NamedFits ==
  ledger.id # Nobody =>
    /\ Early(ledger.stage) => Startable /\ ~Ours(ledger.id) /\ Undivided
    /\ ledger.stage # "healthy" => Kept(ledger.id)

\* What a controller may rely on at each step.
Knows(u) ==
  LET p == At(u)
  IN /\ ledger.id = u /\ ledger.to = u
     /\ p = "entered" => ledger.stage = "started"
     /\ p = "fail_soft" => ledger.stage \in {"started", "draining"}
     /\ p = "fail_hard" => ledger.stage \in Midway \cup {"healthy"}
     /\ p = "discard" => ledger.stage \in {"healthy", "rolled_back"}
     /\ p \in Underway => ledger.stage \in Midway
Has(u) ==
  LET p == At(u)
  IN /\ p \in BeforeStop => Startable /\ ~Ours(u) /\ Undivided
     /\ p \in {"verify", "restarted"} => service.registered
     /\ p \in Halted => ~service.registered
Keeps(u) ==
  LET p == At(u)
  IN /\ p \notin {"discard", "ending"} => Kept(u)
     /\ p = "discard" /\ ledger.stage # "healthy" => ~Ours(u)
     /\ p \in {"snapshot", "swapped"} => Backup \subseteq staged[u]
Locks(u) ==
  LET p == At(u)
  IN /\ p \in Replacing \cup Restoring => activity.exclusive = u
     /\ p \in Starting \cup {"restart"} => u \in activity.shared
     /\ p = "swapped" => installed.binary = u
     /\ p \in {"unwind_receipt", "restore_receipt"} => installed.binary = ledger.from
     /\ p \in Starting \cup {"converting", "protected", "restart"} => Undivided

ControllersFit ==
  \A u \in Upgrade : At(u) \in Inner => operation = u /\ Knows(u) /\ Has(u) /\ Keeps(u) /\ Locks(u)

UpgradeInv ==
  UpgradeTypes /\ OwnersFit /\ LedgerFits /\ LocksFit /\ Mixed /\ ServiceFits /\ NamedFits
  /\ ControllersFit

Ledgers ==
  [id: Upgrade \cup {Nobody}, stage: Stages, named: BOOLEAN, recovery: BOOLEAN,
   from: Version, to: Version]
Controllers == [Upgrade -> [at: Places, then: {"restart", "protect"}]]

LEMMA NamesAre ==
  /\ \A u \in Upgrade : u \notin {"old", "other", "update", "watcher", Nobody}
  /\ Nobody \notin {"old", "other", "update", "watcher"} /\ Nobody \notin Version
  BY UpgradeAssumption DEF Version

LEMMA PlacesAre == \A p \in Inner : p \notin {"absent", "launched", "validated", "ended"}
  BY DEF Inner, BeforeStop, Halted, WithService, Replacing, Restoring, Starting, Protecting

LEMMA StagesAre ==
  ASSUME NEW j, j.stage \in Midway
  PROVE  j.stage \in Stages /\ Pending(j) /\ ~Early(j.stage) /\ j.stage \notin Clean
         /\ j.stage # "healthy"
  BY DEF Midway, Pending, Early, Stages, Verdicts, Clean

LEMMA InitUpgradeInv == UpgradeInit => UpgradeInv
<1> SUFFICES ASSUME UpgradeInit PROVE UpgradeInv
  OBVIOUS
<1>1. UpgradeTypes
  BY DEF UpgradeInit, UpgradeTypes, UpgradeTypeOK, Stages, Version, Pair, Places, Verdicts
<1>2. OwnersFit /\ LedgerFits /\ LocksFit /\ Mixed /\ ServiceFits /\ NamedFits
  BY NamesAre DEF UpgradeInit, OwnersFit, LedgerFits, LocksFit, Mixed, ServiceFits, NamedFits, Pair, Ours,
     At, Undivided, Startable
<1>3. ControllersFit
  BY PlacesAre DEF UpgradeInit, ControllersFit, At
<1> QED BY <1>1, <1>2, <1>3 DEF UpgradeInv

-----------------------------------------------------------------------------
(* Upgrade: steps of a controller                                          *)

\* What a controller at work knows.
LEMMA AtWork ==
  ASSUME UpgradeInv, NEW u \in Upgrade, At(u) \in Inner
  PROVE  /\ operation = u /\ ledger.id = u /\ ledger.to = u /\ ledger.from # u
         /\ Knows(u) /\ Has(u) /\ Keeps(u) /\ Locks(u)
         /\ \A v \in Upgrade : At(v) \in Inner => v = u
         /\ u # Nobody /\ owner[u] = "ended"
         /\ ledger \in Ledgers /\ controller \in Controllers
<1>1. u # Nobody /\ At(u) # "absent"
  BY NamesAre, PlacesAre
<1> QED BY <1>1 DEF UpgradeInv, UpgradeTypes, UpgradeTypeOK, Ledgers, Controllers, OwnersFit, LedgerFits,
     ControllersFit, Knows

LEMMA ControllerStepKeeps ==
  ASSUME UpgradeInv, UpgradeTypes', NEW u \in Upgrade, At(u) \in Inner, owner' = owner,
         \A v \in Upgrade \ {u} : controller'[v] = controller[v],
         ledger'.id = u, ledger'.from = ledger.from, ledger'.to = u,
         \A v : Ours(v)' => Ours(v) \/ v = u \/ v = ledger.from,
         ledger'.stage \in Clean => ~ledger'.recovery,
         LocksFit', Mixed', ServiceFits', NamedFits',
         At(u)' \in Inner => operation' = u /\ Knows(u)' /\ Has(u)' /\ Keeps(u)' /\ Locks(u)'
  PROVE  UpgradeInv'
<1>1. /\ ledger.id = u /\ ledger.from # u /\ (\A v \in Upgrade : At(v) \in Inner => v = u)
      /\ u # Nobody /\ owner[u] = "ended"
  BY AtWork
<1>2. OwnersFit'
  BY <1>1 DEF UpgradeInv, OwnersFit, At
<1>3. LedgerFits'
  BY <1>1 DEF LedgerFits
<1>4. ASSUME NEW v \in Upgrade, v # u PROVE At(v)' \notin Inner
  BY <1>1, <1>4 DEF At
<1>5. ControllersFit'
  BY <1>4 DEF ControllersFit
<1> QED BY <1>2, <1>3, <1>5 DEF UpgradeInv

\* A step that only records: what it must record for the rest to hold.
LEMMA LedgerStepKeeps ==
  ASSUME UpgradeInv, NEW u \in Upgrade, At(u) \in Inner,
         UNCHANGED <<owner, operation, disk, service, drain>>,
         ledger' \in Ledgers, ledger'.id = ledger.id, ledger'.from = ledger.from, ledger'.to = ledger.to,
         controller' \in Controllers, \A v \in Upgrade \ {u} : controller'[v] = controller[v],
         ledger'.stage \in Clean => ~ledger'.recovery,
         ~Pending(ledger') => Startable /\ Undivided,
         Early(ledger'.stage) => Early(ledger.stage),
         ledger'.stage # "healthy" => Kept(u),
         At(u)' \in Inner => Knows(u)' /\ Has(u)' /\ Keeps(u)' /\ Locks(u)'
  PROVE  UpgradeInv'
<1>1. /\ operation = u /\ ledger.id = u /\ ledger.to = u /\ u # Nobody
  BY AtWork
<1>2. UNCHANGED <<installed, staged, activity>>
  BY DEF disk
<1>3. UpgradeTypes'
  BY <1>2 DEF UpgradeInv, UpgradeTypes, UpgradeTypeOK, Ledgers, Controllers
<1>4. \A v : (Ours(v)' <=> Ours(v)) /\ (Kept(v)' <=> Kept(v))
  BY <1>2 DEF Ours, Kept
<1>5. (Undivided' <=> Undivided) /\ (Startable' <=> Startable)
  BY <1>2 DEF Undivided, Startable
<1>6. LocksFit' /\ Mixed' /\ ServiceFits'
  BY <1>2, <1>5 DEF UpgradeInv, LocksFit, Mixed, ServiceFits, Startable
<1>7. NamedFits'
  BY <1>1, <1>4, <1>5 DEF UpgradeInv, NamedFits
<1> QED BY <1>1, <1>3, <1>4, <1>6, <1>7, ControllerStepKeeps

LEMMA GoesIs ==
  ASSUME controller \in Controllers, NEW u \in Upgrade, NEW p \in Places, Goes(u, p)
  PROVE  /\ controller' \in Controllers /\ At(u)' = p
         /\ \A v \in Upgrade \ {u} : controller'[v] = controller[v]
         /\ controller'[u].then = controller[u].then
  BY DEF Goes, Controllers, At

LEMMA SavesIs ==
  ASSUME ledger \in Ledgers, NEW j \in Ledgers, NEW ok \in BOOLEAN, Saves(j, ok)
  PROVE  ledger' \in {ledger, j} /\ ledger' \in Ledgers /\ (ok => ledger' = j)
  BY DEF Saves

LEMMA AdvanceIs ==
  ASSUME ledger \in Ledgers, controller \in Controllers, NEW u \in Upgrade, NEW stage \in Stages,
         NEW next \in Places, NEW otherwise \in Places, Advance(u, stage, next, otherwise)
  PROVE  /\ ledger' \in Ledgers /\ ledger'.id = ledger.id /\ ledger'.from = ledger.from /\ ledger'.to = ledger.to
         /\ controller' \in Controllers /\ \A v \in Upgrade \ {u} : controller'[v] = controller[v]
         /\ \/ /\ ledger'.stage = stage
               /\ ledger'.recovery = (ledger.recovery /\ stage \notin {"healthy", "rolled_back"})
               /\ At(u)' \in {next, otherwise}
            \/ ledger' = ledger /\ At(u)' = otherwise
<1> DEFINE j == [ledger EXCEPT !.stage = stage, !.recovery = @ /\ stage \notin {"healthy", "rolled_back"}]
<1>1. /\ j \in Ledgers /\ j.id = ledger.id /\ j.from = ledger.from /\ j.to = ledger.to /\ j.stage = stage
      /\ j.recovery = (ledger.recovery /\ stage \notin {"healthy", "rolled_back"})
  BY DEF Ledgers
<1>2. PICK ok \in BOOLEAN : Saves(j, ok) /\ Goes(u, IF ok THEN next ELSE otherwise)
  BY DEF Advance
<1> HIDE DEF j
<1>3. ledger' \in {ledger, j} /\ ledger' \in Ledgers /\ (ok => ledger' = j)
  BY <1>1, <1>2, SavesIs
<1>4. /\ controller' \in Controllers /\ At(u)' = (IF ok THEN next ELSE otherwise)
      /\ \A v \in Upgrade \ {u} : controller'[v] = controller[v]
  BY <1>2, GoesIs
<1> QED BY <1>1, <1>3, <1>4

\* The sets of places, place by place.
LEMMA WhereIs ==
  /\ \A p \in Places : p \in Inner <=> p \notin {"absent", "launched", "validated", "ended"}
  /\ \A p \in BeforeStop : p \notin Halted \cup {"verify", "restarted", "settle", "discard", "fail_hard", "ending"}
  /\ \A p \in Halted : p \in Underway
  /\ \A p \in {"verify", "settle", "restarted"} : p \in Underway \ (BeforeStop \cup Halted)
  /\ \A p \in {"discard", "fail_hard", "ending"} : p \in Inner \ (Underway \cup BeforeStop \cup Halted)
  /\ \A p \in {"entered", "fail_soft"} : p \notin Underway
  /\ \A p \in {"draining", "not_stopped"} : p \in Underway
  /\ Inner \subseteq Places
  BY DEF Places, Inner, BeforeStop, Halted, WithService, Replacing, Restoring, Starting, Protecting, Underway

LEMMA DrainKeeps ==
  ASSUME UpgradeInv, NEW u \in Upgrade, Drain(u) PROVE UpgradeInv'
<1>1. At(u) = "entered" /\ At(u) \in Inner /\ At(u) \in BeforeStop
  BY DEF Drain, Inner, BeforeStop
<1>2. /\ ledger \in Ledgers /\ controller \in Controllers /\ Knows(u) /\ Has(u) /\ Keeps(u)
      /\ ledger.stage = "started" /\ Kept(u) /\ Startable /\ ~Ours(u) /\ Undivided
  BY <1>1, AtWork, WhereIs DEF Knows, Has, Keeps
<1>3. /\ ledger' \in Ledgers /\ ledger'.id = ledger.id /\ ledger'.from = ledger.from /\ ledger'.to = ledger.to
      /\ controller' \in Controllers /\ \A v \in Upgrade \ {u} : controller'[v] = controller[v]
      /\ \/ ledger'.stage = "draining" /\ At(u)' \in {"draining", "fail_soft"}
         \/ ledger' = ledger /\ At(u)' = "fail_soft"
  <2>1. CASE Verified(u)
    <3>1. "draining" \in Stages /\ "draining" \in Places /\ "fail_soft" \in Places
      BY DEF Stages, Places, Inner, BeforeStop
    <3> QED BY <1>2, <2>1, <3>1, AdvanceIs DEF Drain
  <2>2. CASE ~Verified(u)
    <3>1. "fail_soft" \in Places
      BY DEF Places, Inner, BeforeStop
    <3> QED BY <1>2, <2>2, <3>1, GoesIs DEF Drain
  <2> QED BY <2>1, <2>2
<1>4. UNCHANGED <<owner, operation, disk, service, drain>>
  BY DEF Drain
<1>5. At(u)' \in {"draining", "fail_soft"} /\ ledger'.stage \in {"started", "draining"}
  BY <1>2, <1>3
<1>6. /\ ledger'.stage # "healthy" /\ Pending(ledger') /\ (Early(ledger'.stage) => Early(ledger.stage))
  BY <1>2, <1>5 DEF Pending, Early, Verdicts
<1>7. Knows(u)'
  BY <1>1, <1>2, <1>3, <1>5, WhereIs DEF Knows, Midway
<1>8. At(u)' \in BeforeStop
  BY <1>5 DEF BeforeStop
<1>9. Startable' /\ ~Ours(u)' /\ Undivided' /\ Kept(u)'
  BY <1>2, <1>4 DEF Startable, Ours, Undivided, Kept, disk
<1>10. Has(u)' /\ Keeps(u)'
  BY <1>5, <1>8, <1>9, WhereIs DEF Has, Keeps
<1>11. Locks(u)'
  BY <1>5 DEF Locks, Replacing, Restoring, Starting
<1>12. ledger'.stage \in Clean => ~ledger'.recovery
  <2>1. CASE ledger' = ledger
    BY <2>1 DEF UpgradeInv, LedgerFits
  <2>2. CASE ledger'.stage = "draining"
    BY <2>2 DEF Clean
  <2> QED BY <1>3, <2>1, <2>2
<1> QED BY <1>1, <1>2, <1>3, <1>4, <1>6, <1>7, <1>10, <1>11, <1>12, LedgerStepKeeps

\* What a step that leaves the files and the service alone leaves true.
LEMMA Undisturbed ==
  ASSUME UNCHANGED <<disk, service, drain>>
  PROVE  /\ UNCHANGED <<installed, staged, activity, service, drain>>
         /\ (Startable' <=> Startable) /\ (Undivided' <=> Undivided)
         /\ \A v : (Ours(v)' <=> Ours(v)) /\ (Kept(v)' <=> Kept(v))
  BY DEF Startable, Ours, Undivided, Kept, disk

LEMMA ComesTo ==
  /\ {"fail_soft", "fail_hard", "ending", "discard", "quiet", "protect", "replacing", "replaced", "drop",
      "starting", "draining", "not_stopped", "stopped", "entered", "validated", "ended"} \subseteq Places
  /\ {"failed", "stopped", "replacing", "replaced", "starting", "healthy", "rolled_back"} \subseteq Stages
  /\ {"stopped", "quiet", "leased", "replaced", "drop", "starting", "protect", "replacing"} \subseteq Halted
  BY DEF Places, Inner, BeforeStop, Halted, WithService, Replacing, Restoring, Starting, Protecting, Stages,
     Verdicts

LEMMA NotStoppedKeeps ==
  ASSUME UpgradeInv, NEW u \in Upgrade, Recorded(u, "not_stopped", "failed", "ending", "ending")
  PROVE  UpgradeInv'
<1>1. At(u) = "not_stopped" /\ At(u) \in Inner /\ At(u) \in BeforeStop
  BY DEF Recorded, Inner, BeforeStop
<1>2. /\ ledger \in Ledgers /\ controller \in Controllers /\ ledger.id = u /\ ledger.to = u
      /\ Kept(u) /\ Startable /\ Undivided /\ ledger.stage \in Midway
  BY <1>1, AtWork, WhereIs DEF Knows, Has, Keeps
<1>3. UNCHANGED <<owner, operation, disk, service, drain>>
  BY DEF Recorded
<1>4. /\ ledger' \in Ledgers /\ ledger'.id = ledger.id /\ ledger'.from = ledger.from /\ ledger'.to = ledger.to
      /\ controller' \in Controllers /\ \A v \in Upgrade \ {u} : controller'[v] = controller[v]
      /\ ledger'.stage = "failed" \/ ledger' = ledger
      /\ At(u)' = "ending"
  BY <1>2, ComesTo, AdvanceIs DEF Recorded
<1>5. ledger'.stage # "healthy" /\ ~Early(ledger'.stage) /\ ledger'.stage \notin Clean
  BY <1>2, <1>4, StagesAre DEF Early, Clean
<1>6. Knows(u)' /\ Has(u)' /\ Keeps(u)' /\ Locks(u)'
  <2>1. Knows(u)'
    BY <1>2, <1>4, WhereIs DEF Knows
  <2>2. Has(u)' /\ Keeps(u)'
    BY <1>4, WhereIs DEF Has, Keeps
  <2>3. Locks(u)'
    BY <1>4 DEF Locks, Replacing, Restoring, Starting
  <2> QED BY <2>1, <2>2, <2>3
<1> QED BY <1>1, <1>2, <1>3, <1>4, <1>5, <1>6, LedgerStepKeeps

\* The four records of an upgrade under way.
LEMMA OnwardKeeps ==
  ASSUME UpgradeInv, NEW u \in Upgrade, NEW at \in Halted, NEW stage \in Midway \cap Stages,
         NEW next \in Halted, NEW otherwise \in Halted, Recorded(u, at, stage, next, otherwise),
         otherwise \in {"protect", "drop"},
         (at \in Starting /\ next \in {"replaced", "starting"}) \/ next \in {"quiet", "replacing"}
  PROVE  UpgradeInv'
<1>1. At(u) = at /\ At(u) \in Inner
  BY DEF Recorded, Inner
<1>2. /\ ledger \in Ledgers /\ controller \in Controllers /\ ledger.id = u /\ ledger.to = u
      /\ Kept(u) /\ ~service.registered /\ ledger.stage \in Midway /\ Locks(u)
  BY <1>1, AtWork, WhereIs DEF Knows, Has, Keeps
<1>3. UNCHANGED <<owner, operation, disk, service, drain>>
  BY DEF Recorded
<1>4. next \in Places /\ otherwise \in Places
  BY DEF Places, Inner
<1>5. /\ ledger' \in Ledgers /\ ledger'.id = ledger.id /\ ledger'.from = ledger.from /\ ledger'.to = ledger.to
      /\ controller' \in Controllers /\ \A v \in Upgrade \ {u} : controller'[v] = controller[v]
      /\ ledger'.stage = stage \/ ledger' = ledger
      /\ At(u)' \in {next, otherwise}
  BY <1>2, <1>4, AdvanceIs DEF Recorded
<1>6. ledger'.stage \in Midway
  BY <1>2, <1>5
<1>7. /\ ledger'.stage # "healthy" /\ ~Early(ledger'.stage) /\ Pending(ledger')
      /\ ledger'.stage \notin Clean
  BY <1>6, StagesAre
<1>8. At(u)' \in Halted /\ Kept(u)' /\ ~service'.registered
  BY <1>2, <1>3, <1>5, Undisturbed
<1>9. Knows(u)' /\ Has(u)' /\ Keeps(u)' /\ Locks(u)'
  <2>1. Knows(u)'
    BY <1>2, <1>5, <1>6, <1>8, WhereIs DEF Knows, Midway
  <2>2. Has(u)' /\ Keeps(u)'
    BY <1>5, <1>8, WhereIs DEF Has, Keeps
  <2>3. Locks(u)'
    <3>1. UNCHANGED <<installed, activity>> /\ (Undivided' <=> Undivided)
      BY <1>3, Undisturbed
    <3>2. CASE At(u)' \in {"replaced", "starting"}
      <4>1. at \in Starting
        BY <1>5, <3>2
      <4> QED BY <1>1, <1>2, <3>1, <3>2, <4>1 DEF Locks, Replacing, Restoring, Starting
    <3>3. CASE At(u)' \in {"quiet", "replacing", "protect", "drop"}
      BY <3>3 DEF Locks, Replacing, Restoring, Starting
    <3> QED BY <1>5, <3>2, <3>3
  <2> QED BY <2>1, <2>2, <2>3
<1> QED BY <1>1, <1>2, <1>3, <1>5, <1>7, <1>8, <1>9, LedgerStepKeeps

LEMMA RecordsKeeps ==
  ASSUME UpgradeInv, NEW u \in Upgrade, Records(u) PROVE UpgradeInv'
<1>1. {"stopped", "replacing", "replaced", "starting"} \subseteq Midway \cap Stages
  BY DEF Midway, Stages
<1>2. {"leased", "replaced"} \subseteq Starting
  BY DEF Starting
<1>3. CASE Recorded(u, "not_stopped", "failed", "ending", "ending")
  BY <1>3, NotStoppedKeeps
<1>4. CASE Recorded(u, "stopped", "stopped", "quiet", "protect")
  BY <1>1, <1>4, ComesTo, OnwardKeeps
<1>5. CASE Recorded(u, "quiet", "replacing", "replacing", "protect")
  BY <1>1, <1>5, ComesTo, OnwardKeeps
<1>6. CASE Recorded(u, "leased", "replaced", "replaced", "drop")
  BY <1>1, <1>2, <1>6, ComesTo, OnwardKeeps
<1>7. CASE Recorded(u, "replaced", "starting", "starting", "drop")
  BY <1>1, <1>2, <1>7, ComesTo, OnwardKeeps
<1> QED BY <1>3, <1>4, <1>5, <1>6, <1>7 DEF Records

\* The last record of an upgrade, and of a restoration, or the way to neither.
LEMMA VerdictKeeps ==
  ASSUME UpgradeInv, NEW u \in Upgrade, Whole(u) \/ Restored(u) PROVE UpgradeInv'
<1>1. At(u) \in {"verify", "restarted"} /\ At(u) \in Inner
  BY DEF Whole, Restored, Inner
<1>2. /\ ledger \in Ledgers /\ controller \in Controllers /\ ledger.id = u /\ ledger.to = u
      /\ ledger.from # u /\ Kept(u) /\ service.registered /\ ledger.stage \in Midway
  BY <1>1, AtWork, WhereIs DEF Knows, Has, Keeps
<1>3. UNCHANGED <<owner, operation, disk, service, drain>>
  BY DEF Whole, Restored
<1>4. /\ ledger' \in Ledgers /\ ledger'.id = ledger.id /\ ledger'.from = ledger.from /\ ledger'.to = ledger.to
      /\ controller' \in Controllers /\ \A v \in Upgrade \ {u} : controller'[v] = controller[v]
      /\ \/ /\ ledger'.stage = "healthy" /\ ~ledger'.recovery /\ At(u)' \in {"discard", "fail_hard"}
            /\ installed = Pair(u)
         \/ /\ ledger'.stage = "rolled_back" /\ At(u)' \in {"discard", "ending"}
            /\ installed = Pair(ledger.from)
         \/ ledger' = ledger /\ At(u)' \in {"fail_hard", "ending"}
  <2>1. CASE Whole(u) /\ installed = Pair(ledger.to)
    <3>1. Advance(u, "healthy", "discard", "fail_hard")
      BY <2>1 DEF Whole
    <3>2. installed = Pair(u)
      BY <1>2, <2>1
    <3>3. /\ ledger' \in Ledgers /\ ledger'.id = ledger.id /\ ledger'.from = ledger.from
          /\ ledger'.to = ledger.to
          /\ controller' \in Controllers /\ \A v \in Upgrade \ {u} : controller'[v] = controller[v]
          /\ \/ /\ ledger'.stage = "healthy"
                /\ ledger'.recovery = (ledger.recovery /\ "healthy" \notin {"healthy", "rolled_back"})
                /\ At(u)' \in {"discard", "fail_hard"}
             \/ ledger' = ledger /\ At(u)' = "fail_hard"
      BY <1>2, <3>1, ComesTo, AdvanceIs
    <3> QED BY <3>2, <3>3
  <2>2. CASE Restored(u) /\ installed = Pair(ledger.from)
    BY <1>2, <2>2, ComesTo, AdvanceIs DEF Restored
  <2>3. CASE \/ Whole(u) /\ installed # Pair(ledger.to)
             \/ Restored(u) /\ installed # Pair(ledger.from)
    <3>1. Goes(u, "fail_hard") /\ ledger' = ledger
      BY <2>3 DEF Whole, Restored
    <3> QED BY <1>2, <3>1, ComesTo, GoesIs
  <2> QED BY <2>1, <2>2, <2>3
<1>5. ~Early(ledger'.stage) /\ (ledger'.stage \in Clean => ~ledger'.recovery)
  BY <1>2, <1>4, StagesAre DEF Early, Clean
<1>6. ~Pending(ledger') => Startable /\ Undivided
  BY <1>2, <1>4, StagesAre DEF Startable, Undivided, Pair
<1>7. At(u)' \in {"discard", "fail_hard", "ending"}
  BY <1>4
<1>8. Knows(u)'
  BY <1>2, <1>4, <1>7, WhereIs DEF Knows
<1>9. Has(u)'
  BY <1>7, WhereIs DEF Has
<1>10. Keeps(u)'
  <2>1. Kept(u)' /\ (Ours(u)' <=> Ours(u))
    BY <1>2, <1>3, Undisturbed
  <2>2. ledger'.stage = "rolled_back" => ~Ours(u)
    BY <1>2, <1>4 DEF Ours, Pair, Midway
  <2> QED BY <1>4, <1>7, <2>1, <2>2 DEF Keeps
<1>11. Locks(u)'
  BY <1>7 DEF Locks, Replacing, Restoring, Starting
<1> QED BY <1>1, <1>2, <1>3, <1>4, <1>5, <1>6, <1>8, <1>9, <1>10, <1>11, LedgerStepKeeps

LEMMA FailKeeps ==
  ASSUME UpgradeInv, NEW u \in Upgrade, Fail(u) PROVE UpgradeInv'
<1>1. At(u) \in {"fail_soft", "fail_hard"} /\ At(u) \in Inner
  BY DEF Fail, Inner, BeforeStop
<1>2. /\ ledger \in Ledgers /\ controller \in Controllers /\ ledger.id = u /\ ledger.to = u /\ Kept(u)
  BY <1>1, AtWork, WhereIs DEF Keeps
<1>3. UNCHANGED <<owner, operation, disk, service, drain>>
  BY DEF Fail
<1>4. controller' \in Controllers /\ At(u)' = "ending" /\ \A v \in Upgrade \ {u} : controller'[v] = controller[v]
  BY <1>2, ComesTo, GoesIs DEF Fail
<1> DEFINE j == [ledger EXCEPT !.stage = "failed", !.recovery = NeedsRecovery(u)]
<1>5. /\ j \in Ledgers /\ j.id = ledger.id /\ j.from = ledger.from /\ j.to = ledger.to
      /\ j.stage = "failed" /\ j.recovery = NeedsRecovery(u)
  BY <1>2, ComesTo DEF Ledgers, NeedsRecovery
<1>6. PICK ok \in BOOLEAN : Saves(j, ok)
  BY DEF Fail
<1> HIDE DEF j
<1>7. ledger' \in {ledger, j} /\ ledger' \in Ledgers
  BY <1>2, <1>5, <1>6, SavesIs
<1>8. ~Pending(ledger') => Startable /\ Undivided
  <2>1. CASE ledger' = ledger
    BY <2>1 DEF UpgradeInv, ServiceFits, Mixed
  <2>2. CASE ledger' = j /\ At(u) = "fail_hard"
    BY <1>5, <2>2 DEF Pending, NeedsRecovery
  <2>3. CASE At(u) = "fail_soft"
    BY <1>1, <2>3, AtWork DEF Has, BeforeStop
  <2> QED BY <1>1, <1>7, <2>1, <2>2, <2>3
<1>9. /\ ledger'.stage \in Clean => ~ledger'.recovery
      /\ Early(ledger'.stage) => Early(ledger.stage)
  BY <1>5, <1>7 DEF UpgradeInv, LedgerFits, Early, Clean
<1>10. Knows(u)' /\ Has(u)' /\ Keeps(u)' /\ Locks(u)'
  <2>1. Knows(u)'
    BY <1>2, <1>4, <1>5, <1>7, WhereIs DEF Knows
  <2>2. Has(u)' /\ Keeps(u)'
    BY <1>4, WhereIs DEF Has, Keeps
  <2>3. Locks(u)'
    BY <1>4 DEF Locks, Replacing, Restoring, Starting
  <2> QED BY <2>1, <2>2, <2>3
<1> QED BY <1>1, <1>2, <1>3, <1>4, <1>5, <1>7, <1>8, <1>9, <1>10, LedgerStepKeeps

LEMMA IdleIs ==
  ASSUME UpgradeInv, operation = Nobody
  PROVE  \A v \in Upgrade : At(v) \notin Inner
  BY NamesAre DEF UpgradeInv, ControllersFit

\* A step that only moves a controller, to a place where nothing is asked of it.
LEMMA MoveKeeps ==
  ASSUME UpgradeInv, NEW u \in Upgrade, UNCHANGED <<ledger, owner, operation, disk, service, drain>>,
         controller' \in Controllers, \A v \in Upgrade \ {u} : controller'[v] = controller[v],
         owner[u] = "ended" \/ At(u)' = "absent",
         At(u)' \in Inner => At(u) \in Inner /\ Knows(u)' /\ Has(u)' /\ Keeps(u)' /\ Locks(u)'
  PROVE  UpgradeInv'
<1>1. /\ UNCHANGED <<installed, staged, activity, service, drain>>
      /\ (Startable' <=> Startable) /\ (Undivided' <=> Undivided)
      /\ \A v : (Ours(v)' <=> Ours(v)) /\ (Kept(v)' <=> Kept(v))
  BY Undisturbed
<1>2. UpgradeTypes'
  BY <1>1 DEF UpgradeInv, UpgradeTypes, UpgradeTypeOK, Controllers
<1>3. OwnersFit' /\ LedgerFits' /\ LocksFit'
  BY <1>1 DEF UpgradeInv, OwnersFit, LedgerFits, LocksFit, At
<1>4. Mixed' /\ ServiceFits' /\ NamedFits'
  BY <1>1 DEF UpgradeInv, Mixed, ServiceFits, NamedFits
<1>5. ASSUME NEW v \in Upgrade, At(v)' \in Inner, v # u
      PROVE  operation' = v /\ Knows(v)' /\ Has(v)' /\ Keeps(v)' /\ Locks(v)'
  <2>1. At(v)' = At(v)
    BY <1>5 DEF At
  <2>2. operation = v /\ Knows(v) /\ Has(v) /\ Keeps(v) /\ Locks(v)
    BY <1>5, <2>1, AtWork
  <2>3. Knows(v)' /\ Has(v)'
    BY <1>1, <2>1, <2>2 DEF Knows, Has
  <2>4. Keeps(v)' /\ Locks(v)'
    BY <1>1, <2>1, <2>2 DEF Keeps, Locks
  <2> QED BY <2>2, <2>3, <2>4
<1>6. ControllersFit'
  BY <1>5, AtWork DEF ControllersFit
<1> QED BY <1>2, <1>3, <1>4, <1>6 DEF UpgradeInv

LEMMA ValidateKeeps ==
  ASSUME UpgradeInv, NEW u \in Upgrade, Validate(u) PROVE UpgradeInv'
<1>1. controller \in Controllers /\ At(u) # "absent" /\ owner[u] = "ended"
  BY DEF UpgradeInv, UpgradeTypes, Controllers, OwnersFit, Validate
<1>2. At(u)' \in {"validated", "ended"} /\ controller' \in Controllers
      /\ \A v \in Upgrade \ {u} : controller'[v] = controller[v]
  BY <1>1, ComesTo, GoesIs DEF Validate
<1>3. At(u)' \notin Inner
  BY <1>2, PlacesAre
<1> QED BY <1>1, <1>2, <1>3, MoveKeeps DEF Validate

LEMMA WaitKeeps ==
  ASSUME UpgradeInv, NEW u \in Upgrade, Busy(u) \/ Protect(u) PROVE UpgradeInv'
<1>1. At(u) \in {"replacing", "protect"} /\ At(u) \in Inner /\ At(u) \in Halted
  BY DEF Busy, Protect, Inner, Halted, WithService, Protecting
<1>2. /\ ledger \in Ledgers /\ controller \in Controllers /\ ledger.id = u /\ ledger.to = u /\ Kept(u)
      /\ owner[u] = "ended" /\ ledger.stage \in Midway /\ ~service.registered
  BY <1>1, AtWork, WhereIs DEF Knows, Has, Keeps
<1>3. /\ controller' \in Controllers /\ \A v \in Upgrade \ {u} : controller'[v] = controller[v]
      /\ \/ At(u)' \in {"protect", "fail_hard"}
         \/ At(u)' = "protected" /\ installed = Pair(ledger.from)
  <2>1. {"protect", "fail_hard", "protected"} \subseteq Places
    BY DEF Places, Inner, Halted, Protecting
  <2> QED BY <1>2, <2>1, GoesIs DEF Busy, Protect
<1>4. UNCHANGED <<ledger, owner, operation, disk, service, drain>>
  BY DEF Busy, Protect
<1>5. /\ UNCHANGED <<installed, staged, activity, service, drain>> /\ Kept(u)'
      /\ (At(u)' = "protected" => Undivided')
  BY <1>2, <1>3, <1>4, Undisturbed DEF Undivided, Pair
<1>6. At(u)' \in {"protect", "protected"} \/ At(u)' = "fail_hard"
  BY <1>3
<1>7. {"protect", "protected"} \subseteq Halted
  BY DEF Halted, Protecting
<1>8. Knows(u)' /\ Has(u)' /\ Keeps(u)' /\ Locks(u)'
  <2>1. Knows(u)'
    BY <1>2, <1>4, <1>6, <1>7, WhereIs DEF Knows
  <2>2. Has(u)' /\ Keeps(u)'
    BY <1>2, <1>5, <1>6, <1>7, WhereIs DEF Has, Keeps
  <2>3. Locks(u)'
    BY <1>5, <1>6 DEF Locks, Replacing, Restoring, Starting
  <2> QED BY <2>1, <2>2, <2>3
<1> QED BY <1>1, <1>2, <1>3, <1>4, <1>8, MoveKeeps

LEMMA EnterKeeps ==
  ASSUME UpgradeInv, NEW u \in Upgrade, Enter(u) PROVE UpgradeInv'
<1>1. controller \in Controllers /\ ledger \in Ledgers /\ At(u) # "absent" /\ owner[u] = "ended" /\ u # Nobody
  BY NamesAre DEF UpgradeInv, UpgradeTypes, UpgradeTypeOK, Controllers, Ledgers, OwnersFit, Enter
<1>2. UNCHANGED <<owner, disk, service, drain>>
  BY DEF Enter
<1>3. CASE ~(operation = Nobody /\ Valid(u))
  <2>1. Goes(u, "ended") /\ UNCHANGED <<ledger, operation>>
    BY <1>3 DEF Enter
  <2>2. /\ At(u)' = "ended" /\ controller' \in Controllers
        /\ \A v \in Upgrade \ {u} : controller'[v] = controller[v]
    BY <1>1, <2>1, ComesTo, GoesIs
  <2>3. At(u)' \notin Inner
    BY <2>2, PlacesAre
  <2> QED BY <1>1, <1>2, <2>1, <2>2, <2>3, MoveKeeps
<1>4. CASE operation = Nobody /\ Valid(u)
  <2> DEFINE j == [ledger EXCEPT !.named = TRUE]
  <2>1. /\ j \in Ledgers /\ j.id = ledger.id /\ j.from = ledger.from /\ j.to = ledger.to
        /\ j.stage = ledger.stage /\ j.recovery = ledger.recovery
    BY <1>1 DEF Ledgers
  <2>2. PICK ok \in BOOLEAN : /\ Saves(j, ok) /\ Goes(u, IF ok THEN "entered" ELSE "ended")
                              /\ operation' = IF ok THEN u ELSE Nobody
    BY <1>4 DEF Enter
  <2> HIDE DEF j
  <2>3. /\ ledger' \in Ledgers /\ ledger'.id = ledger.id /\ ledger'.from = ledger.from
        /\ ledger'.to = ledger.to /\ ledger'.stage = ledger.stage /\ ledger'.recovery = ledger.recovery
    BY <1>1, <2>1, <2>2, SavesIs
  <2>4. /\ controller' \in Controllers /\ \A v \in Upgrade \ {u} : controller'[v] = controller[v]
        /\ At(u)' = IF ok THEN "entered" ELSE "ended"
    BY <1>1, <2>2, ComesTo, GoesIs
  <2>5. /\ UNCHANGED <<installed, staged, activity, service, drain>>
        /\ (Startable' <=> Startable) /\ (Undivided' <=> Undivided)
        /\ \A v : (Ours(v)' <=> Ours(v)) /\ (Kept(v)' <=> Kept(v))
    BY <1>2, Undisturbed
  <2>6. UpgradeTypes'
    BY <1>1, <1>2, <2>2, <2>3, <2>4, <2>5 DEF UpgradeInv, UpgradeTypes, UpgradeTypeOK, Ledgers, Controllers
  <2>7. OwnersFit'
    BY <1>1, <1>2, <2>3, <2>4, <2>5 DEF UpgradeInv, OwnersFit, At
  <2>8. LedgerFits' /\ LocksFit' /\ Mixed' /\ ServiceFits'
    BY <2>3, <2>5 DEF UpgradeInv, LedgerFits, LocksFit, Mixed, ServiceFits, Pending
  <2>9. NamedFits'
    BY <2>3, <2>5 DEF UpgradeInv, NamedFits
  <2>10. \A v \in Upgrade : At(v) \notin Inner
    BY <1>4, IdleIs
  <2>11. \A v \in Upgrade : At(v)' \in Inner => v = u /\ ok
    BY <2>4, <2>10, PlacesAre DEF At
  <2>12. ASSUME ok PROVE operation' = u /\ Knows(u)' /\ Has(u)' /\ Keeps(u)' /\ Locks(u)'
    <3>1. At(u)' = "entered" /\ At(u)' \in BeforeStop
      BY <2>4, <2>12 DEF BeforeStop
    <3>2. ledger.id = u /\ ledger.stage = "started" /\ ledger.to = u
      BY <1>1, <1>4 DEF Valid, UpgradeInv, LedgerFits
    <3>3. Startable /\ ~Ours(u) /\ Undivided /\ Kept(u)
      BY <1>1, <3>2 DEF UpgradeInv, NamedFits, Early
    <3>4. Knows(u)'
      BY <2>3, <3>1, <3>2, WhereIs DEF Knows
    <3>5. Has(u)' /\ Keeps(u)'
      BY <2>5, <3>1, <3>3, WhereIs DEF Has, Keeps
    <3>6. Locks(u)'
      BY <3>1 DEF Locks, Replacing, Restoring, Starting
    <3> QED BY <2>2, <2>12, <3>4, <3>5, <3>6
  <2>13. ControllersFit'
    BY <2>11, <2>12 DEF ControllersFit
  <2> QED BY <2>6, <2>7, <2>8, <2>9, <2>13 DEF UpgradeInv
<1> QED BY <1>3, <1>4

\* A process's locks go with it, and the files stay as they are.
LEMMA LeavesKeeps ==
  ASSUME UpgradeInv, NEW u \in Upgrade, At(u) # "absent", Leaves(u),
         UNCHANGED <<ledger, owner, installed, staged, service, drain>>
  PROVE  UpgradeInv'
<1>1. /\ controller \in Controllers /\ owner[u] = "ended" /\ u \notin {"update", Nobody}
  BY NamesAre DEF UpgradeInv, UpgradeTypes, Controllers, OwnersFit
<1>2. /\ controller' \in Controllers /\ \A v \in Upgrade \ {u} : controller'[v] = controller[v]
      /\ At(u)' = "ended" /\ At(u)' \notin Inner
  BY <1>1, ComesTo, GoesIs, PlacesAre DEF Leaves
<1>3. /\ activity'.exclusive = (IF activity.exclusive = u THEN Nobody ELSE activity.exclusive)
      /\ activity'.shared = activity.shared \ {u}
      /\ operation' = IF operation = u THEN Nobody ELSE operation
      /\ activity' \in [exclusive: Upgrade \cup {"update", Nobody}, shared: SUBSET (Upgrade \cup {"watcher"})]
  BY DEF Leaves, UpgradeInv, UpgradeTypes, UpgradeTypeOK
<1>4. /\ (Startable' <=> Startable) /\ (Undivided' <=> Undivided)
      /\ \A v : (Ours(v)' <=> Ours(v)) /\ (Kept(v)' <=> Kept(v))
  BY <1>1, <1>3, NamesAre DEF Startable, Undivided, Ours, Kept
<1>5. UpgradeTypes'
  BY <1>2, <1>3 DEF UpgradeInv, UpgradeTypes, UpgradeTypeOK, Controllers
<1>6. OwnersFit' /\ LedgerFits' /\ LocksFit'
  BY <1>1, <1>2, <1>3, <1>4 DEF UpgradeInv, OwnersFit, LedgerFits, LocksFit, At
<1>7. Mixed' /\ ServiceFits' /\ NamedFits'
  BY <1>4 DEF UpgradeInv, Mixed, ServiceFits, NamedFits
<1>8. ASSUME NEW v \in Upgrade, At(v)' \in Inner
      PROVE  operation' = v /\ Knows(v)' /\ Has(v)' /\ Keeps(v)' /\ Locks(v)'
  <2>1. v # u /\ At(v)' = At(v)
    BY <1>2, <1>8 DEF At
  <2>2. operation = v /\ Knows(v) /\ Has(v) /\ Keeps(v) /\ Locks(v)
    BY <1>8, <2>1, AtWork
  <2>3. Knows(v)' /\ Has(v)' /\ Keeps(v)'
    BY <1>4, <2>1, <2>2 DEF Knows, Has, Keeps
  <2>4. Locks(v)'
    BY <1>3, <1>4, <2>1, <2>2 DEF Locks
  <2> QED BY <1>3, <2>1, <2>2, <2>3, <2>4
<1>9. ControllersFit'
  BY <1>8 DEF ControllersFit
<1> QED BY <1>5, <1>6, <1>7, <1>9 DEF UpgradeInv

-----------------------------------------------------------------------------
(* Upgrade: the files                                                      *)

Activities == [exclusive: Upgrade \cup {"update", Nobody}, shared: SUBSET (Upgrade \cup {"watcher"})]
Installations == [binary: Version, receipt: Version]

\* A step between the stop and the start, with the service down.
LEMMA DiskStepKeeps ==
  ASSUME UpgradeInv, NEW u \in Upgrade, At(u) \in Halted,
         UNCHANGED <<ledger, owner, operation, service, drain>>,
         controller' \in Controllers, \A v \in Upgrade \ {u} : controller'[v] = controller[v],
         At(u)' \in Halted \/ At(u)' = "fail_hard",
         installed' \in Installations, \A v : Ours(v)' => Ours(v) \/ v = u \/ v = ledger.from,
         staged' \in [Upgrade -> SUBSET Files], activity' \in Activities, LocksFit', Kept(u)',
         At(u)' \in {"snapshot", "swapped"} => Backup \subseteq staged'[u],
         Locks(u)'
  PROVE  UpgradeInv'
<1>1. /\ At(u) \in Inner /\ operation = u /\ ledger.id = u /\ ledger.to = u /\ ledger \in Ledgers
      /\ ledger.stage \in Midway /\ ~service.registered
  BY AtWork, WhereIs DEF Knows, Has, Inner
<1>2. UpgradeTypes'
  BY DEF UpgradeInv, UpgradeTypes, UpgradeTypeOK, Controllers, Installations, Activities
<1>3. Pending(ledger) /\ ~Early(ledger.stage) /\ ledger.stage # "healthy" /\ ledger.stage \notin Clean
  BY <1>1, StagesAre
<1>4. Mixed' /\ ServiceFits' /\ NamedFits'
  BY <1>1, <1>3 DEF UpgradeInv, Mixed, ServiceFits, NamedFits
<1>5. Knows(u)'
  BY <1>1, WhereIs DEF Knows
<1>6. Has(u)' /\ Keeps(u)'
  BY <1>1, <1>3, WhereIs DEF Has, Keeps
<1> QED BY <1>1, <1>2, <1>3, <1>4, <1>5, <1>6, ControllerStepKeeps

LEMMA HaltedSteps ==
  /\ {"snapshot", "swapped", "unwind", "unwind_receipt", "converting", "restore", "restore_binary",
      "restore_receipt", "protect", "protected", "restart", "leased", "replacing", "drop"} \subseteq Halted
  /\ {"snapshot", "swapped", "unwind", "unwind_receipt"} = Replacing
  /\ {"restore_binary", "restore_receipt"} = Restoring
  /\ {"leased", "replaced", "starting"} = Starting
  /\ Halted \subseteq Inner /\ "fail_hard" \in Inner /\ Inner \subseteq Places
  BY DEF Halted, WithService, Replacing, Restoring, Starting, Protecting, Inner, Places

\* What those steps know, and the shapes of what they write.
LEMMA HaltedKnows ==
  ASSUME UpgradeInv, NEW u \in Upgrade, At(u) \in Halted
  PROVE  /\ ledger.id = u /\ ledger.to = u /\ ledger.from # u /\ u \in Version /\ ledger.from \in Version
         /\ u \notin {"old", "other", "update", "watcher", Nobody}
         /\ Kept(u) /\ Locks(u) /\ LocksFit /\ controller \in Controllers
         /\ installed \in Installations /\ staged \in [Upgrade -> SUBSET Files] /\ activity \in Activities
         /\ At(u) \in {"snapshot", "swapped"} => Backup \subseteq staged[u]
<1>1. Knows(u) /\ Has(u) /\ Keeps(u) /\ Locks(u) /\ ledger.from # u /\ controller \in Controllers
  BY AtWork, HaltedSteps
<1> QED BY <1>1, WhereIs, NamesAre DEF Knows, Keeps, UpgradeInv, UpgradeTypes, UpgradeTypeOK, Installations,
     Activities, Version

LEMMA FreeIs ==
  ASSUME activity \in Activities, Free, NEW u \in Upgrade
  PROVE  /\ Locked(u) \in Activities /\ Locked(u).exclusive = u /\ Locked(u).shared = {}
         /\ service.running = Nobody
  BY DEF Activities, Free, Locked

LEMMA UnlockedIs ==
  ASSUME activity \in Activities
  PROVE  /\ Unlocked \in Activities /\ Unlocked.exclusive = Nobody /\ Unlocked.shared = activity.shared
         /\ \A u : /\ Without(u) \in Activities /\ Without(u).exclusive = activity.exclusive
                   /\ Without(u).shared = activity.shared \ {u}
  BY DEF Activities, Unlocked, Without

LEMMA LockKeeps ==
  ASSUME UpgradeInv, NEW u \in Upgrade, Lock(u) PROVE UpgradeInv'
<1>1. At(u) = "replacing" /\ At(u) \in Halted /\ Free
  BY HaltedSteps DEF Lock
<1>2. /\ ledger.id = u /\ ledger.to = u /\ ledger.from # u /\ Kept(u) /\ LocksFit /\ controller \in Controllers
      /\ installed \in Installations /\ staged \in [Upgrade -> SUBSET Files] /\ activity \in Activities
  BY <1>1, HaltedKnows
<1>3. UNCHANGED <<ledger, owner, operation, installed, service, drain>>
  BY DEF Lock
<1>4. \A v : Ours(v)' <=> Ours(v)
  BY <1>3 DEF Ours
<1>5. CASE Verified(u)
  <2>1. /\ activity' = Locked(u) /\ staged' = [staged EXCEPT ![u] = @ \cup Backup] /\ Goes(u, "snapshot")
    BY <1>5 DEF Lock
  <2>2. /\ controller' \in Controllers /\ \A v \in Upgrade \ {u} : controller'[v] = controller[v]
        /\ At(u)' = "snapshot"
    BY <1>2, <2>1, HaltedSteps, GoesIs
  <2>3. /\ staged' \in [Upgrade -> SUBSET Files] /\ Backup \subseteq staged'[u] /\ staged[u] \subseteq staged'[u]
    BY <1>2, <2>1 DEF Files, Backup
  <2>4. activity' \in Activities /\ activity'.exclusive = u /\ activity'.shared = {} /\ service.running = Nobody
    BY <1>1, <1>2, <2>1, FreeIs
  <2>5. LocksFit' /\ Kept(u)'
    BY <1>2, <1>3, <2>3, <2>4 DEF LocksFit, Kept
  <2>6. Locks(u)'
    BY <2>2, <2>4, HaltedSteps DEF Locks
  <2> QED BY <1>1, <1>2, <1>3, <1>4, <2>2, <2>3, <2>4, <2>5, <2>6, HaltedSteps, DiskStepKeeps
<1>6. CASE ~Verified(u)
  <2>1. Goes(u, "protect") /\ UNCHANGED <<staged, activity>>
    BY <1>6 DEF Lock
  <2>2. /\ controller' \in Controllers /\ \A v \in Upgrade \ {u} : controller'[v] = controller[v]
        /\ At(u)' = "protect"
    BY <1>2, <2>1, HaltedSteps, GoesIs
  <2>3. LocksFit' /\ Kept(u)'
    BY <1>2, <1>3, <2>1 DEF LocksFit, Kept
  <2>4. Locks(u)'
    BY <2>2, HaltedSteps DEF Locks
  <2> QED BY <1>1, <1>2, <1>3, <1>4, <2>1, <2>2, <2>3, <2>4, HaltedSteps, DiskStepKeeps
<1> QED BY <1>5, <1>6

LEMMA SwapKeeps ==
  ASSUME UpgradeInv, NEW u \in Upgrade, Swap(u) PROVE UpgradeInv'
<1>1. At(u) = "snapshot" /\ At(u) \in Halted /\ At(u) \in Replacing
  BY HaltedSteps DEF Swap
<1>2. /\ ledger.id = u /\ ledger.to = u /\ ledger.from # u /\ Kept(u) /\ LocksFit /\ controller \in Controllers
      /\ installed \in Installations /\ staged \in [Upgrade -> SUBSET Files] /\ activity \in Activities
      /\ Backup \subseteq staged[u] /\ u \in Version /\ Locks(u)
  BY <1>1, HaltedKnows
<1>3. UNCHANGED <<ledger, owner, operation, activity, service, drain>>
  BY DEF Swap
<1>4. activity.exclusive = u /\ LocksFit'
  BY <1>1, <1>2, <1>3 DEF Locks, LocksFit
<1>5. CASE /\ installed' = [installed EXCEPT !.binary = ledger.to] /\ Goes(u, "swapped")
           /\ staged' = [staged EXCEPT ![u] = @ \ {"gobstopper"}]
  <2>1. /\ installed' \in Installations /\ installed'.binary = u /\ installed'.receipt = installed.receipt
    BY <1>2, <1>5 DEF Installations
  <2>2. /\ controller' \in Controllers /\ \A v \in Upgrade \ {u} : controller'[v] = controller[v]
        /\ At(u)' = "swapped"
    BY <1>2, <1>5, HaltedSteps, GoesIs
  <2>3. /\ staged' \in [Upgrade -> SUBSET Files] /\ Backup \subseteq staged'[u]
    BY <1>2, <1>5 DEF Files, Backup
  <2>4. Kept(u)'
    BY <2>3 DEF Kept, Backup
  <2>5. Locks(u)'
    BY <1>3, <1>4, <2>1, <2>2, HaltedSteps DEF Locks
  <2>6. \A v : Ours(v)' => Ours(v) \/ v = u \/ v = ledger.from
    BY <2>1 DEF Ours
  <2> QED BY <1>1, <1>2, <1>3, <1>4, <2>1, <2>2, <2>3, <2>4, <2>5, <2>6, HaltedSteps, DiskStepKeeps
<1>6. CASE Goes(u, "unwind") /\ UNCHANGED <<installed, staged>>
  <2>1. /\ controller' \in Controllers /\ \A v \in Upgrade \ {u} : controller'[v] = controller[v]
        /\ At(u)' = "unwind"
    BY <1>2, <1>6, HaltedSteps, GoesIs
  <2>2. Kept(u)' /\ \A v : Ours(v)' <=> Ours(v)
    BY <1>2, <1>6 DEF Kept, Ours
  <2>3. Locks(u)'
    BY <1>3, <1>4, <2>1, HaltedSteps DEF Locks
  <2> QED BY <1>1, <1>2, <1>3, <1>4, <1>6, <2>1, <2>2, <2>3, HaltedSteps, DiskStepKeeps
<1> QED BY <1>5, <1>6 DEF Swap

LEMMA PublishKeeps ==
  ASSUME UpgradeInv, NEW u \in Upgrade, Publish(u) PROVE UpgradeInv'
<1>1. At(u) = "swapped" /\ At(u) \in Halted /\ At(u) \in Replacing
  BY HaltedSteps DEF Publish
<1>2. /\ ledger.id = u /\ ledger.to = u /\ ledger.from # u /\ Kept(u) /\ LocksFit /\ controller \in Controllers
      /\ installed \in Installations /\ staged \in [Upgrade -> SUBSET Files] /\ activity \in Activities
      /\ Backup \subseteq staged[u] /\ u \in Version /\ Locks(u)
  BY <1>1, HaltedKnows
<1>3. UNCHANGED <<ledger, owner, operation, staged, service, drain>>
  BY DEF Publish
<1>4. activity.exclusive = u /\ installed.binary = u
  BY <1>1, <1>2 DEF Locks
<1>5. installed' \in {installed, [installed EXCEPT !.receipt = ledger.to]}
  BY DEF Publish
<1>6. /\ installed' \in Installations /\ installed'.binary = u /\ installed'.receipt \in {installed.receipt, u}
  BY <1>2, <1>4, <1>5 DEF Installations
<1>7. Kept(u)' /\ \A v : Ours(v)' => Ours(v) \/ v = u \/ v = ledger.from
  BY <1>2, <1>3, <1>6 DEF Kept, Backup, Ours
<1>8. CASE /\ installed' = [installed EXCEPT !.receipt = ledger.to]
           /\ Goes(u, "converting") /\ activity' = Unlocked
  <2>1. /\ controller' \in Controllers /\ \A v \in Upgrade \ {u} : controller'[v] = controller[v]
        /\ At(u)' = "converting"
    BY <1>2, <1>8, HaltedSteps, GoesIs
  <2>2. activity' \in Activities /\ LocksFit'
    BY <1>2, <1>8, UnlockedIs DEF LocksFit
  <2>3. Undivided'
    BY <1>2, <1>6, <1>8 DEF Undivided, Installations
  <2>4. Locks(u)'
    BY <2>1, <2>3, HaltedSteps DEF Locks
  <2> QED BY <1>1, <1>2, <1>3, <1>6, <1>7, <2>1, <2>2, <2>4, HaltedSteps, DiskStepKeeps
<1>9. CASE Goes(u, "unwind") /\ UNCHANGED activity
  <2>1. /\ controller' \in Controllers /\ \A v \in Upgrade \ {u} : controller'[v] = controller[v]
        /\ At(u)' = "unwind"
    BY <1>2, <1>9, HaltedSteps, GoesIs
  <2>2. LocksFit'
    BY <1>2, <1>3, <1>9 DEF LocksFit
  <2>3. Locks(u)'
    BY <1>4, <1>9, <2>1, HaltedSteps DEF Locks
  <2> QED BY <1>1, <1>2, <1>3, <1>6, <1>7, <1>9, <2>1, <2>2, <2>3, HaltedSteps, DiskStepKeeps
<1> QED BY <1>8, <1>9 DEF Publish

\* A step that puts an old file back, in either order of the two.
LEMMA PutBackKeeps ==
  ASSUME UpgradeInv, NEW u \in Upgrade, At(u) \in Replacing \cup Restoring,
         NEW p \in {"unwind_receipt", "restore_receipt", "protect", "protected"}, Goes(u, p),
         UNCHANGED <<ledger, owner, operation, service, drain>>,
         \/ /\ installed' = [installed EXCEPT !.binary = ledger.from] /\ UNCHANGED activity
            /\ p \in {"unwind_receipt", "restore_receipt"}
         \/ /\ installed' = [installed EXCEPT !.receipt = ledger.from] /\ activity' = Unlocked
            /\ p \in {"protect", "protected"} /\ installed.binary = ledger.from,
         staged' \in [Upgrade -> SUBSET Files],
         installed'.receipt = u => "old-receipt" \in staged'[u]
  PROVE  UpgradeInv'
<1>1. At(u) \in Halted /\ p \in Halted /\ p \in Places
  BY HaltedSteps
<1>2. /\ ledger.id = u /\ ledger.to = u /\ ledger.from # u /\ ledger.from \in Version
      /\ LocksFit /\ controller \in Controllers /\ Locks(u)
      /\ installed \in Installations /\ activity \in Activities
  BY <1>1, HaltedKnows
<1>3. /\ controller' \in Controllers /\ \A v \in Upgrade \ {u} : controller'[v] = controller[v]
      /\ At(u)' = p
  BY <1>1, <1>2, GoesIs
<1>4. /\ installed' \in Installations /\ installed'.binary = ledger.from
      /\ installed'.receipt \in {installed.receipt, ledger.from}
  BY <1>2 DEF Installations
<1>5. Kept(u)' /\ \A v : Ours(v)' => Ours(v) \/ v = u \/ v = ledger.from
  BY <1>2, <1>4 DEF Kept, Ours
<1>6. activity' \in Activities /\ LocksFit'
  BY <1>2, UnlockedIs DEF LocksFit
<1>7. Locks(u)'
  <2>1. CASE p \in {"unwind_receipt", "restore_receipt"}
    <3>1. activity'.exclusive = u
      BY <1>2, <2>1 DEF Locks
    <3> QED BY <1>3, <1>4, <2>1, <3>1, HaltedSteps DEF Locks
  <2>2. CASE p \in {"protect", "protected"}
    <3>1. Undivided'
      BY <1>2, <1>4, <2>2 DEF Undivided, Installations
    <3> QED BY <1>3, <2>2, <3>1, HaltedSteps DEF Locks
  <2> QED BY <2>1, <2>2
<1> QED BY <1>1, <1>2, <1>3, <1>4, <1>5, <1>6, <1>7, DiskStepKeeps

\* A step that leaves the files alone.
LEMMA FilesKeep ==
  ASSUME UpgradeInv, NEW u \in Upgrade, At(u) \in Halted,
         UNCHANGED <<ledger, owner, operation, installed, staged, service, drain>>,
         controller' \in Controllers, \A v \in Upgrade \ {u} : controller'[v] = controller[v],
         At(u)' \in Halted \/ At(u)' = "fail_hard", At(u)' \notin {"snapshot", "swapped"},
         activity' \in Activities, LocksFit', Locks(u)'
  PROVE  UpgradeInv'
<1>1. installed \in Installations /\ staged \in [Upgrade -> SUBSET Files] /\ Kept(u)
  BY HaltedKnows
<1>2. Kept(u)' /\ \A v : Ours(v)' <=> Ours(v)
  BY <1>1 DEF Kept, Ours
<1> QED BY <1>1, <1>2, DiskStepKeeps

LEMMA UnwindKeeps ==
  ASSUME UpgradeInv, NEW u \in Upgrade, Unwind(u) PROVE UpgradeInv'
<1>1. At(u) \in {"unwind", "unwind_receipt"} /\ At(u) \in Replacing /\ At(u) \in Halted
  BY HaltedSteps DEF Unwind
<1>2. /\ ledger.from # u /\ Kept(u) /\ Locks(u) /\ installed \in Installations
      /\ staged \in [Upgrade -> SUBSET Files]
  BY <1>1, HaltedKnows
<1>3. UNCHANGED <<ledger, owner, operation, service, drain>>
  BY DEF Unwind
<1>4. CASE At(u) = "unwind"
  <2>1. /\ installed' = [installed EXCEPT !.binary = ledger.from] /\ UNCHANGED activity
        /\ staged' = [staged EXCEPT ![u] = @ \ {"previous"}] /\ Goes(u, "unwind_receipt")
    BY <1>4 DEF Unwind
  <2>2. staged' \in [Upgrade -> SUBSET Files] /\ (installed'.receipt = u => "old-receipt" \in staged'[u])
    BY <1>2, <2>1 DEF Kept, Installations
  <2> QED BY <1>1, <1>3, <2>1, <2>2, PutBackKeeps
<1>5. CASE At(u) = "unwind_receipt"
  <2>1. /\ installed' = [installed EXCEPT !.receipt = ledger.from] /\ activity' = Unlocked
        /\ staged' = [staged EXCEPT ![u] = @ \ {"old-receipt"}] /\ Goes(u, "protect")
    BY <1>5 DEF Unwind
  <2>2. staged' \in [Upgrade -> SUBSET Files] /\ (installed'.receipt = u => "old-receipt" \in staged'[u])
    BY <1>2, <2>1 DEF Installations
  <2>3. installed.binary = ledger.from
    BY <1>2, <1>5 DEF Locks
  <2> QED BY <1>1, <1>3, <2>1, <2>2, <2>3, PutBackKeeps
<1> QED BY <1>1, <1>4, <1>5

LEMMA RestoreFilesKeeps ==
  ASSUME UpgradeInv, NEW u \in Upgrade, RestoreFiles(u) PROVE UpgradeInv'
<1>1. At(u) \in {"restore_binary", "restore_receipt"} /\ At(u) \in Restoring /\ At(u) \in Halted
  BY HaltedSteps DEF RestoreFiles
<1>2. /\ ledger.from # u /\ Kept(u) /\ Locks(u) /\ installed \in Installations
      /\ staged \in [Upgrade -> SUBSET Files]
  BY <1>1, HaltedKnows
<1>3. UNCHANGED <<ledger, owner, operation, staged, service, drain>>
  BY DEF RestoreFiles
<1>4. CASE At(u) = "restore_binary"
  <2>1. /\ installed' = [installed EXCEPT !.binary = ledger.from] /\ UNCHANGED activity
        /\ Goes(u, "restore_receipt")
    BY <1>4 DEF RestoreFiles
  <2>2. installed'.receipt = u => "old-receipt" \in staged'[u]
    BY <1>2, <1>3, <2>1 DEF Kept, Installations
  <2> QED BY <1>1, <1>2, <1>3, <2>1, <2>2, PutBackKeeps
<1>5. CASE At(u) = "restore_receipt"
  <2>1. /\ installed' = [installed EXCEPT !.receipt = ledger.from] /\ activity' = Unlocked
        /\ Goes(u, IF controller[u].then = "protect" THEN "protect" ELSE "protected")
    BY <1>5 DEF RestoreFiles
  <2>2. installed'.receipt = u => "old-receipt" \in staged'[u]
    BY <1>2, <2>1 DEF Installations
  <2>3. installed.binary = ledger.from
    BY <1>2, <1>5 DEF Locks
  <2> QED BY <1>1, <1>2, <1>3, <2>1, <2>2, <2>3, PutBackKeeps
<1> QED BY <1>1, <1>4, <1>5

LEMMA GiveUpKeeps ==
  ASSUME UpgradeInv, NEW u \in Upgrade, UnwindFails(u) \/ RestoreFails(u) \/ DropLease(u) PROVE UpgradeInv'
<1>1. At(u) \in Halted
  BY HaltedSteps DEF UnwindFails, RestoreFails, DropLease
<1>2. LocksFit /\ controller \in Controllers /\ activity \in Activities
  BY <1>1, HaltedKnows
<1>3. UNCHANGED <<ledger, owner, operation, installed, staged, service, drain>>
  BY DEF UnwindFails, RestoreFails, DropLease
<1>4. PICK p \in {"protect", "fail_hard", "restore"} : Goes(u, p)
  BY DEF UnwindFails, RestoreFails, DropLease, Lost, Drop
<1>5. p \in Places
  BY HaltedSteps
<1>6. /\ controller' \in Controllers /\ \A v \in Upgrade \ {u} : controller'[v] = controller[v]
      /\ At(u)' = p
  BY <1>2, <1>4, <1>5, GoesIs
<1>7. activity' \in {Unlocked, Without(u)}
  BY DEF UnwindFails, RestoreFails, DropLease, Drop
<1>8. activity' \in Activities /\ LocksFit'
  BY <1>2, <1>3, <1>7, UnlockedIs DEF LocksFit
<1>9. Locks(u)'
  BY <1>6, HaltedSteps DEF Locks
<1> QED BY <1>1, <1>3, <1>6, <1>8, <1>9, HaltedSteps, FilesKeep

LEMMA ConvertKeeps ==
  ASSUME UpgradeInv, NEW u \in Upgrade, Convert(u) PROVE UpgradeInv'
<1>1. At(u) = "converting" /\ At(u) \in Halted
  BY HaltedSteps DEF Convert
<1>2. /\ LocksFit /\ Locks(u) /\ controller \in Controllers /\ activity \in Activities
  BY <1>1, HaltedKnows
<1>3. UNCHANGED <<ledger, owner, operation, installed, staged, service, drain>>
  BY DEF Convert
<1>4. Undivided
  BY <1>1, <1>2 DEF Locks
<1>5. CASE /\ activity.exclusive = Nobody
           /\ activity' = [activity EXCEPT !.shared = @ \cup {u}] /\ Goes(u, "leased")
  <2>1. /\ controller' \in Controllers /\ \A v \in Upgrade \ {u} : controller'[v] = controller[v]
        /\ At(u)' = "leased"
    BY <1>2, <1>5, HaltedSteps, GoesIs
  <2>2. activity' \in Activities /\ activity'.exclusive = Nobody /\ u \in activity'.shared
    BY <1>2, <1>5 DEF Activities
  <2>3. Undivided' /\ LocksFit'
    BY <1>3, <1>4, <1>5, <2>2 DEF LocksFit, Undivided
  <2>4. Locks(u)'
    BY <2>1, <2>2, <2>3, HaltedSteps DEF Locks
  <2> QED BY <1>1, <1>3, <2>1, <2>2, <2>3, <2>4, HaltedSteps, FilesKeep
<1>6. CASE /\ UNCHANGED activity
           /\ Goes(u, "replacing") \/ controller' = [controller EXCEPT ![u] = [at |-> "restore", then |-> "protect"]]
  <2>1. /\ controller' \in Controllers /\ \A v \in Upgrade \ {u} : controller'[v] = controller[v]
        /\ At(u)' \in {"replacing", "restore"}
    <3>1. CASE Goes(u, "replacing")
      BY <1>2, <3>1, HaltedSteps, GoesIs
    <3>2. CASE controller' = [controller EXCEPT ![u] = [at |-> "restore", then |-> "protect"]]
      BY <1>2, <3>2, HaltedSteps DEF Controllers, At
    <3> QED BY <1>6, <3>1, <3>2
  <2>2. LocksFit' /\ activity' \in Activities
    BY <1>2, <1>3, <1>6 DEF LocksFit
  <2>3. Locks(u)'
    BY <2>1, HaltedSteps DEF Locks
  <2> QED BY <1>1, <1>3, <2>1, <2>2, <2>3, HaltedSteps, FilesKeep
<1> QED BY <1>5, <1>6 DEF Convert

LEMMA RestoreKeeps ==
  ASSUME UpgradeInv, NEW u \in Upgrade, Restore(u) PROVE UpgradeInv'
<1>1. At(u) \in Halted
  BY HaltedSteps DEF Restore
<1>2. LocksFit /\ controller \in Controllers /\ activity \in Activities
  BY <1>1, HaltedKnows
<1>3. UNCHANGED <<ledger, owner, operation, installed, staged, service, drain>>
  BY DEF Restore
<1>4. CASE Free /\ activity' = Locked(u) /\ Goes(u, "restore_binary")
  <2>1. /\ controller' \in Controllers /\ \A v \in Upgrade \ {u} : controller'[v] = controller[v]
        /\ At(u)' = "restore_binary"
    BY <1>2, <1>4, HaltedSteps, GoesIs
  <2>2. activity' \in Activities /\ activity'.exclusive = u /\ activity'.shared = {} /\ service.running = Nobody
    BY <1>2, <1>4, FreeIs
  <2>3. LocksFit' /\ Locks(u)'
    BY <1>3, <2>1, <2>2, HaltedSteps DEF LocksFit, Locks
  <2> QED BY <1>1, <1>3, <2>1, <2>2, <2>3, HaltedSteps, FilesKeep
<1>5. CASE Goes(u, Lost(u)) /\ UNCHANGED activity
  <2>1. Lost(u) \in {"protect", "fail_hard"} /\ Lost(u) \in Places
    BY HaltedSteps DEF Lost
  <2>2. /\ controller' \in Controllers /\ \A v \in Upgrade \ {u} : controller'[v] = controller[v]
        /\ At(u)' \in {"protect", "fail_hard"}
    BY <1>2, <1>5, <2>1, GoesIs
  <2>3. LocksFit' /\ activity' \in Activities
    BY <1>2, <1>3, <1>5 DEF LocksFit
  <2>4. Locks(u)'
    BY <2>2, HaltedSteps DEF Locks
  <2> QED BY <1>1, <1>3, <2>2, <2>3, <2>4, HaltedSteps, FilesKeep
<1> QED BY <1>4, <1>5 DEF Restore

LEMMA SharedKeeps ==
  ASSUME UpgradeInv, NEW u \in Upgrade, Shared(u) PROVE UpgradeInv'
<1>1. At(u) = "protected" /\ At(u) \in Halted
  BY HaltedSteps DEF Shared
<1>2. LocksFit /\ Locks(u) /\ controller \in Controllers /\ activity \in Activities
  BY <1>1, HaltedKnows
<1>3. UNCHANGED <<ledger, owner, operation, installed, staged, service, drain>>
  BY DEF Shared
<1>4. Undivided
  BY <1>1, <1>2 DEF Locks
<1>5. CASE /\ activity.exclusive = Nobody
           /\ activity' = [activity EXCEPT !.shared = @ \cup {u}] /\ Goes(u, "restart")
  <2>1. /\ controller' \in Controllers /\ \A v \in Upgrade \ {u} : controller'[v] = controller[v]
        /\ At(u)' = "restart"
    BY <1>2, <1>5, HaltedSteps, GoesIs
  <2>2. activity' \in Activities /\ activity'.exclusive = Nobody /\ u \in activity'.shared
    BY <1>2, <1>5 DEF Activities
  <2>3. Undivided' /\ LocksFit'
    BY <1>3, <1>4, <1>5, <2>2 DEF LocksFit, Undivided
  <2>4. Locks(u)'
    BY <2>1, <2>2, <2>3, HaltedSteps DEF Locks
  <2> QED BY <1>1, <1>3, <2>1, <2>2, <2>3, <2>4, HaltedSteps, FilesKeep
<1>6. CASE Goes(u, "fail_hard") /\ UNCHANGED activity
  <2>1. /\ controller' \in Controllers /\ \A v \in Upgrade \ {u} : controller'[v] = controller[v]
        /\ At(u)' = "fail_hard"
    BY <1>2, <1>6, HaltedSteps, GoesIs
  <2>2. LocksFit' /\ activity' \in Activities
    BY <1>2, <1>3, <1>6 DEF LocksFit
  <2>3. Locks(u)'
    BY <2>1, HaltedSteps DEF Locks
  <2> QED BY <1>1, <1>3, <2>1, <2>2, <2>3, HaltedSteps, FilesKeep
<1> QED BY <1>5, <1>6 DEF Shared

LEMMA DiscardKeeps ==
  ASSUME UpgradeInv, NEW u \in Upgrade, Discard(u) PROVE UpgradeInv'
<1>1. At(u) = "discard" /\ At(u) \in Inner
  BY DEF Discard, Inner
<1>2. /\ operation = u /\ ledger.id = u /\ ledger.to = u /\ controller \in Controllers
      /\ ledger.stage # "healthy" => ~Ours(u)
  BY <1>1, AtWork DEF Keeps
<1>3. UNCHANGED <<ledger, owner, operation, installed, activity, service, drain>>
  BY DEF Discard
<1>4. /\ controller' \in Controllers /\ \A v \in Upgrade \ {u} : controller'[v] = controller[v]
      /\ At(u)' = "ending"
  BY <1>2, ComesTo, GoesIs DEF Discard
<1>5. staged' \in [Upgrade -> SUBSET Files]
  BY DEF Discard, UpgradeInv, UpgradeTypes, UpgradeTypeOK
<1>6. UpgradeTypes'
  BY <1>3, <1>4, <1>5 DEF UpgradeInv, UpgradeTypes, UpgradeTypeOK, Controllers
<1>7. /\ (Startable' <=> Startable) /\ (Undivided' <=> Undivided) /\ \A v : Ours(v)' <=> Ours(v)
  BY <1>3 DEF Startable, Undivided, Ours
<1>8. LocksFit' /\ Mixed' /\ ServiceFits'
  BY <1>3, <1>7 DEF UpgradeInv, LocksFit, Mixed, ServiceFits, Startable
<1>9. NamedFits'
  <2>1. ~Ours(u) => Kept(u)'
    BY <1>3 DEF Ours, Kept
  <2> QED BY <1>2, <1>3, <1>7, <2>1 DEF UpgradeInv, NamedFits
<1>10. Knows(u)'
  BY <1>2, <1>3, <1>4, WhereIs DEF Knows
<1>11. Has(u)' /\ Keeps(u)'
  BY <1>4, WhereIs DEF Has, Keeps
<1>12. Locks(u)'
  BY <1>4 DEF Locks, Replacing, Restoring, Starting
<1>13. ledger'.stage \in Clean => ~ledger'.recovery
  BY <1>3 DEF UpgradeInv, LedgerFits
<1> QED BY <1>1, <1>2, <1>3, <1>4, <1>6, <1>7, <1>8, <1>9, <1>10, <1>11, <1>12, <1>13, ControllerStepKeeps

-----------------------------------------------------------------------------
(* Upgrade: the service                                                    *)

Services == [registered: BOOLEAN, running: Version \cup {Nobody}, well: BOOLEAN]

\* A controller's step that stops or starts the service, and may give up its lease.
LEMMA ServiceStepKeeps ==
  ASSUME UpgradeInv, NEW u \in Upgrade, At(u) \in Underway,
         UNCHANGED <<owner, operation, installed, staged>>,
         ledger' \in Ledgers, ledger'.id = ledger.id, ledger'.from = ledger.from, ledger'.to = ledger.to,
         ledger'.stage = ledger.stage,
         controller' \in Controllers, \A v \in Upgrade \ {u} : controller'[v] = controller[v],
         activity' \in {activity, Without(u)}, service' \in Services, drain' \in BOOLEAN, LocksFit',
         service'.well => service'.registered, ~Undivided => ~service'.registered,
         At(u)' \in Underway \cup {"fail_hard", "ending"}, At(u)' \notin {"snapshot", "swapped"},
         Has(u)', Locks(u)'
  PROVE  UpgradeInv'
<1>1. At(u) \in Inner /\ At(u) \notin {"discard", "ending"}
  BY DEF Underway
<1>2. /\ operation = u /\ ledger.id = u /\ ledger.to = u /\ ledger.from # u /\ Kept(u)
      /\ ledger.stage \in Midway
  BY <1>1, AtWork DEF Knows, Keeps
<1>3. activity \in Activities
  BY DEF UpgradeInv, UpgradeTypes, UpgradeTypeOK, Activities
<1>4. activity' \in Activities /\ activity'.exclusive = activity.exclusive
  BY <1>3, UnlockedIs
<1>5. UpgradeTypes'
  BY <1>4 DEF UpgradeInv, UpgradeTypes, UpgradeTypeOK, Ledgers, Controllers, Services, Activities
<1>6. /\ ledger'.stage \in Midway /\ Pending(ledger') /\ ~Early(ledger'.stage) /\ ledger'.stage # "healthy"
      /\ ledger'.stage \notin Clean
  BY <1>2, StagesAre
<1>7. Kept(u)' /\ (Undivided' <=> Undivided) /\ \A v : Ours(v)' <=> Ours(v)
  BY <1>2, <1>4 DEF Kept, Undivided, Ours
<1>8. Mixed' /\ ServiceFits' /\ NamedFits'
  BY <1>2, <1>6, <1>7 DEF Mixed, ServiceFits, NamedFits
<1>9. Knows(u)'
  <2>1. At(u)' \notin {"entered", "fail_soft", "discard"}
    BY WhereIs DEF Underway
  <2> QED BY <1>2, <1>6, <2>1 DEF Knows
<1>10. Keeps(u)'
  <2>1. At(u)' \notin {"discard"}
    BY DEF Underway
  <2> QED BY <1>7, <2>1 DEF Keeps
<1> QED BY <1>1, <1>2, <1>5, <1>6, <1>7, <1>8, <1>9, <1>10, ControllerStepKeeps

LEMMA ServicePlaces ==
  /\ {"draining", "not_stopped", "stopped", "starting", "settle", "verify", "restore", "restart", "restarted"}
       \subseteq Underway
  /\ Underway \subseteq Places /\ {"fail_hard", "ending"} \subseteq Places
  /\ {"draining", "not_stopped"} \subseteq BeforeStop /\ {"stopped", "restore", "starting", "restart"} \subseteq Halted
  /\ \A p \in {"verify", "settle", "restarted", "fail_hard", "ending"} : p \notin Halted \cup BeforeStop
  /\ \A p \in {"stopped", "not_stopped", "verify", "settle", "restore", "restarted", "fail_hard", "ending"} :
       p \notin Replacing \cup Restoring \cup Starting
                \cup {"restart", "swapped", "converting", "protected", "snapshot"}
  BY DEF Underway, Inner, Places, BeforeStop, Halted, WithService, Replacing, Restoring, Starting, Protecting

LEMMA StartedIs ==
  ASSUME UpgradeInv, NEW u, NEW well \in BOOLEAN, Started(u, well)
  PROVE  /\ service' \in Services /\ service'.registered /\ service'.running = installed.binary
         /\ service'.well = well
  BY DEF UpgradeInv, UpgradeTypes, UpgradeTypeOK, Started, Services

LEMMA UnregisteredIs ==
  /\ Unregistered \in Services /\ ~Unregistered.registered /\ ~Unregistered.well
  /\ Unregistered.running = Nobody
  /\ [Unregistered EXCEPT !.registered = TRUE] \in Services
  /\ ~[Unregistered EXCEPT !.registered = TRUE].well
  /\ [Unregistered EXCEPT !.registered = TRUE].running = Nobody
  BY DEF Unregistered, Services

\* What the controllers that stop and start the service know.
LEMMA ServiceKnows ==
  ASSUME UpgradeInv, NEW u \in Upgrade, At(u) \in Underway
  PROVE  /\ At(u) \in Inner /\ Has(u) /\ Locks(u) /\ LocksFit /\ activity \in Activities
         /\ controller \in Controllers /\ ledger \in Ledgers /\ service \in Services /\ drain \in BOOLEAN
         /\ service.well => service.registered
         /\ ~Undivided => ~service.registered
<1>1. At(u) \in Inner
  BY DEF Underway
<1> QED BY <1>1, AtWork DEF UpgradeInv, UpgradeTypes, UpgradeTypeOK, Activities, Controllers, Ledgers, Services,
     ServiceFits, Mixed

LEMMA StopKeeps ==
  ASSUME UpgradeInv, NEW u \in Upgrade, Stop(u) PROVE UpgradeInv'
<1>1. At(u) = "draining" /\ At(u) \in Underway /\ At(u) \in BeforeStop
  BY ServicePlaces DEF Stop
<1>2. /\ LocksFit /\ controller \in Controllers /\ ledger \in Ledgers /\ service \in Services /\ drain \in BOOLEAN
      /\ Startable /\ ~Ours(u) /\ Undivided /\ (service.well => service.registered)
  BY <1>1, ServiceKnows DEF Has
<1>3. UNCHANGED <<ledger, owner, operation, installed, staged, activity>>
  BY DEF Stop, disk
<1>4. PICK p \in {"stopped", "not_stopped"} : Goes(u, p) /\ (p = "stopped" => service' = Unregistered)
  BY DEF Stop
<1>5. p \in Places
  BY ServicePlaces
<1>6. /\ controller' \in Controllers /\ \A v \in Upgrade \ {u} : controller'[v] = controller[v]
      /\ At(u)' = p
  BY <1>2, <1>4, <1>5, GoesIs
<1>7. service' \in {service, Unregistered} /\ drain' \in BOOLEAN /\ service' \in Services
      /\ (service'.well => service'.registered)
  BY <1>2, UnregisteredIs DEF Stop
<1>8. LocksFit'
  BY <1>2, <1>3, <1>7, UnregisteredIs DEF LocksFit
<1>9. /\ Undivided' <=> Undivided
      /\ Ours(u)' <=> Ours(u)
  BY <1>3 DEF Undivided, Ours
<1>10. Has(u)'
  <2>1. CASE p = "stopped"
    <3>1. ~service'.registered
      BY <1>4, <2>1, UnregisteredIs
    <3> QED BY <1>6, <2>1, <3>1, ServicePlaces, WhereIs DEF Has
  <2>2. CASE p = "not_stopped"
    <3>1. Goes(u, "not_stopped") /\ At(u)' # "stopped"
      BY <1>4, <1>6, <2>2
    <3>2. \/ UNCHANGED <<service, drain>>
          \/ service' = Unregistered /\ drain' = TRUE
          \/ Goes(u, "stopped")
      BY DEF Stop
    <3>3. "stopped" \in Places
      BY ServicePlaces
    <3>4. ~Goes(u, "stopped")
      BY <1>2, <3>1, <3>3, GoesIs
    <3>5. Startable'
      BY <1>2, <3>2, <3>4 DEF Startable
    <3> QED BY <1>2, <1>6, <1>9, <2>2, <3>5, ServicePlaces, WhereIs DEF Has
  <2> QED BY <2>1, <2>2
<1>11. Locks(u)'
  BY <1>6, ServicePlaces DEF Locks
<1> QED BY <1>1, <1>2, <1>3, <1>6, <1>7, <1>8, <1>10, <1>11, ServicePlaces, ServiceStepKeeps

\* The service starts, or is known to have been started.
LEMMA StartKeeps ==
  ASSUME UpgradeInv, NEW u \in Upgrade, At(u) \in {"starting", "restart"},
         UNCHANGED <<ledger, owner, operation, installed, staged, drain>>,
         NEW p \in {"verify", "settle", "restarted", "fail_hard"}, Goes(u, p),
         NEW well \in BOOLEAN, Started(u, well), activity' \in {activity, Without(u)}
  PROVE  UpgradeInv'
<1>1. At(u) \in Underway
  BY ServicePlaces
<1>2. /\ LocksFit /\ Locks(u) /\ controller \in Controllers /\ ledger \in Ledgers /\ drain \in BOOLEAN
      /\ activity \in Activities
  BY <1>1, ServiceKnows
<1>3. Undivided /\ u \in activity.shared
  BY <1>2, HaltedSteps DEF Locks
<1>4. activity.exclusive = Nobody /\ activity'.exclusive = Nobody
  BY <1>2, <1>3, UnlockedIs DEF LocksFit
<1>5. p \in Places
  BY ServicePlaces
<1>6. /\ controller' \in Controllers /\ \A v \in Upgrade \ {u} : controller'[v] = controller[v]
      /\ At(u)' = p
  BY <1>2, <1>5, GoesIs
<1>7. service' \in Services /\ service'.registered
  BY StartedIs
<1>8. LocksFit' /\ Has(u)' /\ Locks(u)'
  BY <1>4, <1>6, <1>7, ServicePlaces DEF LocksFit, Has, Locks
<1> QED BY <1>1, <1>2, <1>3, <1>6, <1>7, <1>8, ServicePlaces, ServiceStepKeeps

LEMMA StartNewKeeps ==
  ASSUME UpgradeInv, NEW u \in Upgrade, StartNew(u) PROVE UpgradeInv'
<1>1. At(u) = "starting" /\ At(u) \in Underway /\ At(u) \in Halted
  BY ServicePlaces DEF StartNew
<1>2. /\ LocksFit /\ Locks(u) /\ controller \in Controllers /\ ledger \in Ledgers /\ drain \in BOOLEAN
      /\ activity \in Activities /\ service \in Services /\ ~service.registered
      /\ (service.well => service.registered) /\ Undivided
  <2>1. Has(u) /\ Locks(u)
    BY <1>1, ServiceKnows
  <2> QED BY <1>1, <2>1, ServiceKnows, HaltedSteps DEF Has, Locks
<1>3. UNCHANGED <<owner, operation, installed, staged, drain>>
  BY DEF StartNew
<1>4. CASE Started(u, TRUE) /\ Goes(u, "verify") /\ UNCHANGED <<ledger, activity>>
  BY <1>1, <1>3, <1>4, StartKeeps
<1>5. CASE Drop(u, "restore") /\ UNCHANGED <<ledger, service>>
  <2>1. /\ controller' \in Controllers /\ \A v \in Upgrade \ {u} : controller'[v] = controller[v]
        /\ At(u)' = "restore" /\ activity' = Without(u)
    BY <1>2, <1>5, HaltedSteps, GoesIs DEF Drop
  <2>2. LocksFit'
    BY <1>2, <1>5, <2>1, UnlockedIs DEF LocksFit
  <2>3. Has(u)' /\ Locks(u)'
    BY <1>2, <1>5, <2>1, ServicePlaces, WhereIs DEF Has, Locks
  <2> QED BY <1>1, <1>2, <1>3, <1>5, <2>1, <2>2, <2>3, ServicePlaces, ServiceStepKeeps
<1>6. CASE Drop(u, "settle") /\ (\E well \in BOOLEAN : Started(u, well)) /\ UNCHANGED ledger
  BY <1>1, <1>3, <1>6, StartKeeps DEF Drop
<1>7. CASE /\ service' \in {Unregistered, [Unregistered EXCEPT !.registered = TRUE]}
           /\ ledger' = [ledger EXCEPT !.recovery = TRUE]
           /\ Goes(u, "ending") /\ UNCHANGED activity
  <2>1. /\ controller' \in Controllers /\ \A v \in Upgrade \ {u} : controller'[v] = controller[v]
        /\ At(u)' = "ending"
    BY <1>2, <1>7, ServicePlaces, GoesIs
  <2>2. /\ ledger' \in Ledgers /\ ledger'.id = ledger.id /\ ledger'.from = ledger.from /\ ledger'.to = ledger.to
        /\ ledger'.stage = ledger.stage
    BY <1>2, <1>7 DEF Ledgers
  <2>3. service' \in Services /\ ~service'.well /\ service'.running = Nobody
    BY <1>7, UnregisteredIs
  <2>4. LocksFit'
    BY <1>2, <1>7, <2>3 DEF LocksFit
  <2>5. Has(u)' /\ Locks(u)'
    BY <2>1, ServicePlaces DEF Has, Locks
  <2> QED BY <1>1, <1>2, <1>3, <1>7, <2>1, <2>2, <2>3, <2>4, <2>5, ServicePlaces, ServiceStepKeeps
<1> QED BY <1>4, <1>5, <1>6, <1>7 DEF StartNew

LEMMA SettleKeeps ==
  ASSUME UpgradeInv, NEW u \in Upgrade, Settle(u) PROVE UpgradeInv'
<1>1. At(u) = "settle" /\ At(u) \in Underway
  BY ServicePlaces DEF Settle
<1>2. /\ LocksFit /\ controller \in Controllers /\ ledger \in Ledgers /\ drain \in BOOLEAN
      /\ service \in Services /\ (service.well => service.registered) /\ (~Undivided => ~service.registered)
  BY <1>1, ServiceKnows
<1>3. UNCHANGED <<ledger, owner, operation, installed, staged, activity, drain>>
  BY DEF Settle, disk
<1>4. PICK p \in {"verify", "restore", "fail_hard"} :
        /\ Goes(u, p)
        /\ p = "verify" => service' = service /\ service.well
        /\ p = "restore" => service' = Unregistered
        /\ p = "fail_hard" => service' = service
  BY DEF Settle
<1>5. p \in Places
  BY ServicePlaces
<1>6. /\ controller' \in Controllers /\ \A v \in Upgrade \ {u} : controller'[v] = controller[v]
      /\ At(u)' = p
  BY <1>2, <1>4, <1>5, GoesIs
<1>7. /\ service' \in Services /\ (service'.well => service'.registered)
      /\ ~Undivided => ~service'.registered
  BY <1>2, <1>4, UnregisteredIs
<1>8. LocksFit'
  BY <1>2, <1>3, <1>4, UnregisteredIs DEF LocksFit
<1>9. Has(u)'
  BY <1>2, <1>4, <1>6, ServicePlaces, WhereIs, UnregisteredIs DEF Has
<1>10. Locks(u)'
  BY <1>6, ServicePlaces DEF Locks
<1> QED BY <1>1, <1>2, <1>3, <1>6, <1>7, <1>8, <1>9, <1>10, ServicePlaces, ServiceStepKeeps

LEMMA RestartKeeps ==
  ASSUME UpgradeInv, NEW u \in Upgrade, Restart(u) PROVE UpgradeInv'
<1>1. At(u) = "restart" /\ At(u) \in Underway
  BY ServicePlaces DEF Restart
<1>2. /\ LocksFit /\ controller \in Controllers /\ ledger \in Ledgers /\ drain \in BOOLEAN
      /\ service \in Services /\ (service.well => service.registered) /\ (~Undivided => ~service.registered)
  BY <1>1, ServiceKnows
<1>3. UNCHANGED <<ledger, owner, operation, installed, staged, activity, drain>>
  BY DEF Restart, disk
<1>4. CASE Goes(u, "restarted") /\ Started(u, TRUE)
  BY <1>1, <1>3, <1>4, StartKeeps
<1>5. CASE Goes(u, "fail_hard") /\ Started(u, FALSE)
  BY <1>1, <1>3, <1>5, StartKeeps
<1>6. CASE Goes(u, "fail_hard") /\ UNCHANGED service
  <2>1. /\ controller' \in Controllers /\ \A v \in Upgrade \ {u} : controller'[v] = controller[v]
        /\ At(u)' = "fail_hard"
    BY <1>2, <1>6, ServicePlaces, GoesIs
  <2>2. LocksFit' /\ Has(u)' /\ Locks(u)'
    BY <1>2, <1>3, <1>6, <2>1, ServicePlaces DEF LocksFit, Has, Locks
  <2> QED BY <1>1, <1>2, <1>3, <1>6, <2>1, <2>2, ServicePlaces, ServiceStepKeeps
<1> QED BY <1>4, <1>5, <1>6 DEF Restart

-----------------------------------------------------------------------------
(* Upgrade: owners, repair, and everyone else                              *)

Owners == [Upgrade -> {"idle", "claimed", "prepared", "started", "failing", "ended"}]

\* A step under the operation lock, when no controller is at work.
LEMMA AloneKeeps ==
  ASSUME UpgradeInv, operation = Nobody,
         UNCHANGED <<controller, operation, installed, activity, service, drain>>,
         owner' \in Owners,
         \A v \in Upgrade : owner'[v] = "idle" => owner[v] = "idle" /\ ledger'.id \in {ledger.id} \cup (Upgrade \ {v}),
         \A v \in Upgrade : owner'[v] # "ended" => owner[v] # "ended",
         ledger' \in Ledgers, ledger'.from \in {ledger.from, installed.receipt}, LedgerFits',
         ~Pending(ledger') => Startable /\ Undivided,
         ledger'.id # Nobody /\ Early(ledger'.stage) => Startable /\ ~Ours(ledger'.id) /\ Undivided,
         staged' \in [Upgrade -> SUBSET Files],
         \A v \in Upgrade : ledger'.id = v /\ ledger'.stage # "healthy" => Kept(v)'
  PROVE  UpgradeInv'
<1>1. UpgradeTypes'
  BY DEF UpgradeInv, UpgradeTypes, UpgradeTypeOK, Ledgers, Owners
<1>2. /\ (Startable' <=> Startable) /\ (Undivided' <=> Undivided) /\ \A v : Ours(v)' <=> Ours(v)
  BY DEF Startable, Undivided, Ours
<1>3. OwnersFit'
  BY <1>2 DEF UpgradeInv, OwnersFit, Ours, At
<1>4. LocksFit' /\ Mixed' /\ ServiceFits'
  BY <1>2 DEF UpgradeInv, LocksFit, Mixed, ServiceFits, Startable
<1>5. NamedFits'
  <2>1. ledger'.id # Nobody => ledger'.id \in Upgrade
    BY DEF Ledgers
  <2>2. Early(ledger.stage)' <=> Early(ledger'.stage)
    BY DEF Early
  <2> QED BY <1>2, <2>1, <2>2 DEF NamedFits, Kept, Ours
<1>6. \A v \in Upgrade : At(v) \notin Inner
  BY IdleIs
<1>7. ControllersFit'
  BY <1>6 DEF ControllersFit, At
<1> QED BY <1>1, <1>3, <1>4, <1>5, <1>7 DEF UpgradeInv

LEMMA OwnerIs ==
  ASSUME owner \in Owners, NEW u \in Upgrade,
         NEW at \in {"claimed", "prepared", "started", "failing", "ended"}, OwnerGoes(u, at)
  PROVE  /\ owner' \in Owners /\ owner'[u] = at
         /\ \A v \in Upgrade \ {u} : owner'[v] = owner[v]
  BY DEF OwnerGoes, Owners

LEMMA UpgradeShapes ==
  ASSUME UpgradeInv
  PROVE  /\ ledger \in Ledgers /\ owner \in Owners /\ controller \in Controllers /\ service \in Services
         /\ installed \in Installations /\ staged \in [Upgrade -> SUBSET Files] /\ activity \in Activities
  BY DEF UpgradeInv, UpgradeTypes, UpgradeTypeOK, Ledgers, Owners, Controllers, Services, Installations, Activities

\* A copy of the ledger with another stage.
LEMMA StageIs ==
  ASSUME ledger \in Ledgers, NEW stage \in Stages
  PROVE  LET j == [ledger EXCEPT !.stage = stage]
         IN j \in Ledgers /\ j.id = ledger.id /\ j.from = ledger.from /\ j.to = ledger.to /\ j.stage = stage
            /\ j.recovery = ledger.recovery
  BY DEF Ledgers

LEMMA ClaimKeeps ==
  ASSUME UpgradeInv, NEW u \in Upgrade, Claim(u) PROVE UpgradeInv'
<1>1. /\ ledger \in Ledgers /\ owner \in Owners /\ installed \in Installations
      /\ staged \in [Upgrade -> SUBSET Files]
  BY UpgradeShapes
<1>2. UNCHANGED <<controller, operation, installed, staged, activity, service, drain>>
  BY DEF Claim, disk
<1>3. /\ operation = Nobody /\ owner[u] = "idle" /\ ~Pending(ledger) /\ Startable /\ Undivided
      /\ ~Ours(u) /\ u # Nobody /\ u \in Version /\ ledger.id # u
  BY NamesAre DEF Claim, UpgradeInv, ServiceFits, Startable, Undivided, Pair, OwnersFit, Version
<1> DEFINE j == [id |-> u, stage |-> "staging", named |-> FALSE, recovery |-> FALSE,
                 from |-> installed.receipt, to |-> u]
<1>4. /\ j \in Ledgers /\ j.id = u /\ j.from = installed.receipt /\ j.to = u /\ j.stage = "staging"
      /\ j.recovery = FALSE
  BY <1>1, <1>3 DEF Ledgers, Stages, Installations
<1>5. PICK ok \in BOOLEAN : Saves(j, ok) /\ OwnerGoes(u, IF ok THEN "claimed" ELSE "ended")
  BY DEF Claim
<1> HIDE DEF j
<1>6. ledger' \in {ledger, j} /\ ledger' \in Ledgers
  BY <1>1, <1>4, <1>5, SavesIs
<1>7. /\ owner' \in Owners /\ owner'[u] \in {"claimed", "ended"}
      /\ \A v \in Upgrade \ {u} : owner'[v] = owner[v]
  BY <1>1, <1>5, OwnerIs
<1>8. LedgerFits'
  <2>1. CASE ledger' = ledger
    BY <2>1 DEF UpgradeInv, LedgerFits
  <2>2. CASE ledger' = j
    BY <1>3, <1>4, <2>2 DEF LedgerFits, Ours
  <2> QED BY <1>6, <2>1, <2>2
<1>9. ledger'.id # Nobody /\ Early(ledger'.stage) => Startable /\ ~Ours(ledger'.id) /\ Undivided
  BY <1>3, <1>4, <1>6 DEF UpgradeInv, NamedFits
<1>10. ASSUME NEW v \in Upgrade, ledger'.id = v, ledger'.stage # "healthy" PROVE Kept(v)'
  <2>1. Kept(v)' <=> Kept(v)
    BY <1>2 DEF Kept
  <2>2. CASE ledger' = ledger
    BY <1>10, <2>1, <2>2, NamesAre DEF UpgradeInv, NamedFits
  <2>3. CASE ledger' = j
    BY <1>3, <1>4, <1>10, <2>1, <2>3 DEF Kept, Ours
  <2> QED BY <1>6, <2>2, <2>3
<1>11. \A v \in Upgrade : owner'[v] = "idle" => owner[v] = "idle" /\ ledger'.id \in {ledger.id} \cup (Upgrade \ {v})
  BY <1>4, <1>6, <1>7
<1>12. \A v \in Upgrade : owner'[v] # "ended" => owner[v] # "ended"
  BY <1>3, <1>7
<1>13. ledger'.from \in {ledger.from, installed.receipt}
  BY <1>4, <1>6
<1>14. staged' \in [Upgrade -> SUBSET Files]
  BY <1>1, <1>2
<1> QED BY <1>2, <1>3, <1>6, <1>7, <1>8, <1>9, <1>10, <1>11, <1>12, <1>13, <1>14, AloneKeeps

\* What an owner under the operation lock knows of its own ledger.
LEMMA MineKnows ==
  ASSUME UpgradeInv, NEW u \in Upgrade, Mine(u)
  PROVE  /\ ledger.id = u /\ ledger.id # Nobody /\ ledger.stage = "staging" /\ ~ledger.recovery
         /\ ledger.from # u /\ ledger.to = u /\ Startable /\ ~Ours(u) /\ Undivided /\ u # Nobody
  BY NamesAre DEF UpgradeInv, Mine, NamedFits, LedgerFits, Early, Clean

\* An owner's step on its own ledger and staging directory.
LEMMA OwnKeeps ==
  ASSUME UpgradeInv, NEW u \in Upgrade, Mine(u), operation = Nobody, owner[u] \notin {"idle", "ended"},
         UNCHANGED <<controller, operation, installed, activity, service, drain>>,
         NEW at \in {"prepared", "started", "failing", "ended"}, OwnerGoes(u, at),
         ledger' \in Ledgers, ledger'.id = ledger.id, ledger'.from = ledger.from,
         ledger'.to = ledger.to \/ ledger'.stage = "healthy", ledger'.recovery = ledger.recovery,
         staged' \in [Upgrade -> SUBSET Files]
  PROVE  UpgradeInv'
<1>1. owner \in Owners
  BY UpgradeShapes
<1>2. /\ ledger.id = u /\ ledger.id # Nobody /\ ~ledger.recovery
      /\ ledger.from # u /\ ledger.to = u /\ Startable /\ ~Ours(u) /\ Undivided /\ u # Nobody
  BY MineKnows
<1>3. /\ owner' \in Owners /\ owner'[u] = at
      /\ \A v \in Upgrade \ {u} : owner'[v] = owner[v]
  BY <1>1, OwnerIs
<1>4. LedgerFits'
  BY <1>2 DEF LedgerFits
<1>5. Kept(u)'
  BY <1>2 DEF Kept, Ours
<1>6. \A v \in Upgrade : owner'[v] = "idle" => owner[v] = "idle" /\ ledger'.id \in {ledger.id} \cup (Upgrade \ {v})
  BY <1>3
<1>7. \A v \in Upgrade : owner'[v] # "ended" => owner[v] # "ended"
  BY <1>3
<1> QED BY <1>2, <1>3, <1>4, <1>5, <1>6, <1>7, AloneKeeps

LEMMA CurrentKeeps ==
  ASSUME UpgradeInv, NEW u \in Upgrade, Current(u) PROVE UpgradeInv'
<1>1. ledger \in Ledgers /\ installed \in Installations /\ staged \in [Upgrade -> SUBSET Files]
  BY UpgradeShapes
<1> DEFINE j == [ledger EXCEPT !.stage = "healthy", !.to = installed.receipt]
<1>2. /\ j \in Ledgers /\ j.id = ledger.id /\ j.from = ledger.from /\ j.stage = "healthy"
      /\ j.recovery = ledger.recovery
  BY <1>1, ComesTo DEF Ledgers, Installations
<1>3. PICK ok \in BOOLEAN : Saves(j, ok) /\ OwnerGoes(u, IF ok THEN "ended" ELSE "failing")
  BY DEF Current
<1> HIDE DEF j
<1>4. ledger' \in {ledger, j} /\ ledger' \in Ledgers
  BY <1>1, <1>2, <1>3, SavesIs
<1>5. PICK at \in {"ended", "failing"} : OwnerGoes(u, at)
  BY <1>3
<1>6. UNCHANGED <<controller, operation, installed, staged, activity, service, drain>>
  BY DEF Current, disk
<1>7. /\ ledger'.id = ledger.id /\ ledger'.from = ledger.from /\ ledger'.recovery = ledger.recovery
      /\ ledger'.to = ledger.to \/ ledger'.stage = "healthy"
  BY <1>2, <1>4
<1> QED BY <1>1, <1>4, <1>5, <1>6, <1>7, OwnKeeps DEF Current

LEMMA PrepareKeeps ==
  ASSUME UpgradeInv, NEW u \in Upgrade, Prepare(u) PROVE UpgradeInv'
<1>1. ledger \in Ledgers /\ staged \in [Upgrade -> SUBSET Files]
  BY UpgradeShapes
<1>2. staged' \in [Upgrade -> SUBSET Files]
  BY <1>1 DEF Prepare, Files
<1> QED BY <1>1, <1>2, OwnKeeps DEF Prepare

LEMMA OwnerStartKeeps ==
  ASSUME UpgradeInv, NEW u \in Upgrade, Start(u) PROVE UpgradeInv'
<1>1. ledger \in Ledgers /\ staged \in [Upgrade -> SUBSET Files] /\ "started" \in Stages
  BY UpgradeShapes DEF Stages
<1> DEFINE j == [ledger EXCEPT !.stage = "started"]
<1>2. /\ j \in Ledgers /\ j.id = ledger.id /\ j.from = ledger.from /\ j.to = ledger.to
      /\ j.recovery = ledger.recovery
  BY <1>1, StageIs
<1>3. PICK ok \in BOOLEAN : Saves(j, ok) /\ OwnerGoes(u, IF ok THEN "started" ELSE "failing")
  BY DEF Start
<1> HIDE DEF j
<1>4. ledger' \in {ledger, j} /\ ledger' \in Ledgers
  BY <1>1, <1>2, <1>3, SavesIs
<1>5. PICK at \in {"started", "failing"} : OwnerGoes(u, at)
  BY <1>3
<1>6. UNCHANGED <<controller, operation, installed, staged, activity, service, drain>>
  BY DEF Start, disk
<1>7. /\ ledger'.id = ledger.id /\ ledger'.from = ledger.from /\ ledger'.recovery = ledger.recovery
      /\ ledger'.to = ledger.to
  BY <1>2, <1>4
<1> QED BY <1>1, <1>4, <1>5, <1>6, <1>7, OwnKeeps DEF Start

\* A step that only moves an owner, and may launch its controller.
LEMMA OwnerMoveKeeps ==
  ASSUME UpgradeInv, NEW u \in Upgrade, UNCHANGED <<ledger, operation, disk, service, drain>>,
         owner[u] \notin {"idle", "ended"}, NEW at \in {"failing", "ended"}, OwnerGoes(u, at),
         \/ UNCHANGED controller
         \/ at = "ended" /\ Goes(u, "launched")
  PROVE  UpgradeInv'
<1>1. owner \in Owners /\ controller \in Controllers
  BY UpgradeShapes
<1>2. /\ owner' \in Owners /\ owner'[u] = at
      /\ \A v \in Upgrade \ {u} : owner'[v] = owner[v]
  BY <1>1, OwnerIs
<1>3. "launched" \in Places /\ "launched" \notin Inner /\ "absent" \notin Inner
  BY PlacesAre DEF Places
<1>4. /\ controller' \in Controllers /\ \A v \in Upgrade \ {u} : controller'[v] = controller[v]
      /\ controller'[u] = controller[u] \/ (at = "ended" /\ At(u)' = "launched")
  <2>1. CASE UNCHANGED controller
    BY <1>1, <2>1
  <2>2. CASE at = "ended" /\ Goes(u, "launched")
    BY <1>1, <1>3, <2>2, GoesIs
  <2> QED BY <2>1, <2>2
<1>5. At(u) = "absent"
  BY DEF UpgradeInv, OwnersFit
<1>6. /\ UNCHANGED <<installed, staged, activity, service, drain>>
      /\ (Startable' <=> Startable) /\ (Undivided' <=> Undivided)
      /\ \A v : (Ours(v)' <=> Ours(v)) /\ (Kept(v)' <=> Kept(v))
  BY Undisturbed
<1>7. UpgradeTypes'
  BY <1>2, <1>4, <1>6 DEF UpgradeInv, UpgradeTypes, UpgradeTypeOK, Owners, Controllers
<1>8. OwnersFit'
  BY <1>2, <1>4, <1>5, <1>6 DEF UpgradeInv, OwnersFit, At
<1>9. LedgerFits' /\ LocksFit' /\ Mixed' /\ ServiceFits' /\ NamedFits'
  BY <1>6 DEF UpgradeInv, LedgerFits, LocksFit, Mixed, ServiceFits, NamedFits
<1>10. ASSUME NEW v \in Upgrade, At(v)' \in Inner
       PROVE  operation' = v /\ Knows(v)' /\ Has(v)' /\ Keeps(v)' /\ Locks(v)'
  <2>1. v # u /\ At(v)' = At(v)
    BY <1>3, <1>4, <1>5, <1>10 DEF At
  <2>2. operation = v /\ Knows(v) /\ Has(v) /\ Keeps(v) /\ Locks(v)
    BY <1>10, <2>1, AtWork
  <2>3. Knows(v)' /\ Has(v)'
    BY <1>6, <2>1, <2>2 DEF Knows, Has
  <2>4. Keeps(v)' /\ Locks(v)'
    BY <1>6, <2>1, <2>2 DEF Keeps, Locks
  <2> QED BY <2>2, <2>3, <2>4
<1>11. ControllersFit'
  BY <1>10 DEF ControllersFit
<1> QED BY <1>7, <1>8, <1>9, <1>11 DEF UpgradeInv

LEMMA OwnerMovesKeep ==
  ASSUME UpgradeInv, NEW u \in Upgrade, LaunchController(u) \/ OwnerFails(u) \/ OwnerDies(u)
  PROVE  UpgradeInv'
<1>1. CASE LaunchController(u)
  BY <1>1, OwnerMoveKeeps DEF LaunchController, Goes
<1>2. CASE OwnerFails(u)
  BY <1>2, OwnerMoveKeeps DEF OwnerFails
<1>3. CASE OwnerDies(u)
  BY <1>3, OwnerMoveKeeps DEF OwnerDies, Alive
<1> QED BY <1>1, <1>2, <1>3

LEMMA RecordFailureKeeps ==
  ASSUME UpgradeInv, NEW u \in Upgrade, RecordFailure(u) PROVE UpgradeInv'
<1>1. ledger \in Ledgers /\ staged \in [Upgrade -> SUBSET Files] /\ "failed" \in Stages
  BY UpgradeShapes, ComesTo
<1>2. /\ UNCHANGED <<controller, operation, installed, activity, service, drain>>
      /\ OwnerGoes(u, "ended") /\ owner[u] = "failing"
  BY DEF RecordFailure
<1>3. CASE operation = Nobody /\ Mine(u) /\ ~ledger.named
  <2> DEFINE j == [ledger EXCEPT !.stage = "failed"]
  <2>1. /\ j \in Ledgers /\ j.id = ledger.id /\ j.from = ledger.from /\ j.to = ledger.to
        /\ j.recovery = ledger.recovery
    BY <1>1, StageIs
  <2>2. PICK ok \in BOOLEAN : Saves(j, ok)
    BY <1>3 DEF RecordFailure
  <2> HIDE DEF j
  <2>3. ledger' \in {ledger, j} /\ ledger' \in Ledgers
    BY <1>1, <2>1, <2>2, SavesIs
  <2>4. staged' = [staged EXCEPT ![u] = {}]
    BY <1>3 DEF RecordFailure
  <2>5. staged' \in [Upgrade -> SUBSET Files]
    BY <1>1, <2>4
  <2> QED BY <1>2, <1>3, <2>1, <2>3, <2>5, OwnKeeps
<1>4. CASE ~(operation = Nobody /\ Mine(u) /\ ~ledger.named)
  <2>1. UNCHANGED <<ledger, disk>>
    BY <1>2, <1>4 DEF RecordFailure, disk
  <2> QED BY <1>2, <2>1, OwnerMoveKeeps
<1> QED BY <1>3, <1>4

LEMMA ReconcileKeeps ==
  ASSUME UpgradeInv, Reconcile PROVE UpgradeInv'
<1> DEFINE u == ledger.id
<1>1. /\ ledger \in Ledgers /\ owner \in Owners /\ installed \in Installations
      /\ staged \in [Upgrade -> SUBSET Files] /\ LedgerFits
  BY UpgradeShapes DEF UpgradeInv
<1>2. /\ operation = Nobody /\ Pending(ledger)
      /\ UNCHANGED <<owner, controller, operation, installed, activity, service, drain>>
  BY DEF Reconcile
<1>3. u # Nobody
  BY <1>1, <1>2 DEF LedgerFits, Pending, Clean
<1>4. u \in Upgrade
  BY <1>1, <1>3 DEF Ledgers
<1> HIDE DEF u
<1>5. /\ ledger.from # u /\ (ledger.stage # "healthy" => ledger.to = u /\ Kept(u))
      /\ Early(ledger.stage) => Startable /\ ~Ours(u) /\ Undivided
  BY <1>3 DEF u, UpgradeInv, LedgerFits, NamedFits
<1>6. \A v \in Upgrade : owner'[v] = owner[v]
  BY <1>2
<1>7. CASE /\ service.well /\ installed = Pair(ledger.to)
           /\ \E ok \in BOOLEAN :
                /\ Saves([ledger EXCEPT !.stage = "healthy", !.recovery = FALSE], ok)
                /\ staged' = IF ok THEN [staged EXCEPT ![ledger.id] = {}] ELSE staged
  <2> DEFINE j == [ledger EXCEPT !.stage = "healthy", !.recovery = FALSE]
  <2>1. /\ j \in Ledgers /\ j.id = u /\ j.from = ledger.from /\ j.stage = "healthy" /\ j.recovery = FALSE
    BY <1>1, ComesTo DEF Ledgers, u
  <2>2. PICK ok \in BOOLEAN : Saves(j, ok) /\ staged' = IF ok THEN [staged EXCEPT ![u] = {}] ELSE staged
    BY <1>7 DEF u
  <2> HIDE DEF j
  <2>3. ledger' \in {ledger, j} /\ ledger' \in Ledgers /\ (ok => ledger' = j)
    BY <1>1, <2>1, <2>2, SavesIs
  <2>4. staged' \in [Upgrade -> SUBSET Files]
    BY <1>1, <2>2
  <2>5. Startable /\ Undivided
    BY <1>7 DEF Startable, Undivided, Pair, UpgradeInv, ServiceFits
  <2>6. LedgerFits'
    <3>1. CASE ledger' = ledger
      BY <1>1, <3>1 DEF LedgerFits
    <3>2. CASE ledger' = j
      BY <1>3, <1>5, <2>1, <3>2 DEF LedgerFits
    <3> QED BY <2>3, <3>1, <3>2
  <2>7. Early(ledger'.stage) => Early(ledger.stage)
    BY <2>1, <2>3 DEF Early
  <2>8. ledger'.id = u /\ ledger'.from = ledger.from
    BY <2>1, <2>3 DEF u
  <2>9. \A v \in Upgrade : ledger'.id = v /\ ledger'.stage # "healthy" => Kept(v)'
    <3>1. ledger'.stage # "healthy" => ~ok /\ ledger' = ledger
      BY <2>1, <2>3
    <3> QED BY <1>2, <1>5, <2>2, <2>8, <3>1 DEF Kept
  <2> QED BY <1>2, <1>1, <1>5, <1>6, <2>3, <2>4, <2>5, <2>6, <2>7, <2>8, <2>9, AloneKeeps DEF u
<1>8. CASE /\ Early(ledger.stage) /\ staged' = [staged EXCEPT ![ledger.id] = {}]
           /\ \E ok \in BOOLEAN : Saves([ledger EXCEPT !.stage = "failed"], ok)
  <2> DEFINE j == [ledger EXCEPT !.stage = "failed"]
  <2>1. /\ j \in Ledgers /\ j.id = u /\ j.from = ledger.from /\ j.to = ledger.to
        /\ j.recovery = ledger.recovery /\ j.stage = "failed"
    BY <1>1, ComesTo, StageIs DEF u
  <2>2. PICK ok \in BOOLEAN : Saves(j, ok)
    BY <1>8
  <2> HIDE DEF j
  <2>3. ledger' \in {ledger, j} /\ ledger' \in Ledgers
    BY <1>1, <2>1, <2>2, SavesIs
  <2>4. staged' \in [Upgrade -> SUBSET Files]
    BY <1>1, <1>8
  <2>5. Startable /\ ~Ours(u) /\ Undivided
    BY <1>5, <1>8
  <2>6. LedgerFits'
    <3>1. CASE ledger' = ledger
      BY <1>1, <3>1 DEF LedgerFits
    <3>2. CASE ledger' = j
      BY <1>3, <1>5, <1>8, <2>1, <3>2 DEF LedgerFits, Clean, Early
    <3> QED BY <2>3, <3>1, <3>2
  <2>7. ledger'.id = u /\ ledger'.from = ledger.from
    BY <2>1, <2>3 DEF u
  <2>8. \A v \in Upgrade : ledger'.id = v /\ ledger'.stage # "healthy" => Kept(v)'
    BY <1>2, <2>5, <2>7 DEF Kept, Ours
  <2> QED BY <1>1, <1>2, <1>6, <2>3, <2>4, <2>5, <2>6, <2>7, <2>8, AloneKeeps DEF u
<1>9. CASE /\ ~Early(ledger.stage) /\ UNCHANGED staged
           /\ \E ok \in BOOLEAN : Saves([ledger EXCEPT !.stage = "failed", !.recovery = TRUE], ok)
  <2> DEFINE j == [ledger EXCEPT !.stage = "failed", !.recovery = TRUE]
  <2>1. /\ j \in Ledgers /\ j.id = u /\ j.from = ledger.from /\ j.to = ledger.to
        /\ j.stage = "failed" /\ j.recovery = TRUE
    BY <1>1, ComesTo DEF Ledgers, u
  <2>2. PICK ok \in BOOLEAN : Saves(j, ok)
    BY <1>9
  <2> HIDE DEF j
  <2>3. ledger' \in {ledger, j} /\ ledger' \in Ledgers
    BY <1>1, <2>1, <2>2, SavesIs
  <2>4. Pending(ledger')
    BY <1>2, <2>1, <2>3 DEF Pending
  <2>5. ledger.stage # "healthy"
    BY <1>1, <1>2 DEF LedgerFits, Clean, Pending, Verdicts
  <2>6. LedgerFits'
    <3>1. CASE ledger' = ledger
      BY <1>1, <3>1 DEF LedgerFits
    <3>2. CASE ledger' = j
      BY <1>3, <1>5, <2>1, <2>5, <3>2 DEF LedgerFits, Clean
    <3> QED BY <2>3, <3>1, <3>2
  <2>7. ledger'.id = u /\ ledger'.from = ledger.from /\ ~Early(ledger'.stage)
    BY <1>9, <2>1, <2>3 DEF u, Early
  <2>8. \A v \in Upgrade : ledger'.id = v /\ ledger'.stage # "healthy" => Kept(v)'
    BY <1>2, <1>5, <1>9, <2>5, <2>7 DEF Kept
  <2> QED BY <1>1, <1>2, <1>6, <1>9, <2>3, <2>4, <2>6, <2>7, <2>8, AloneKeeps DEF u
<1> QED BY <1>7, <1>8, <1>9 DEF Reconcile

\* A step of the manager or of another operation, which leaves the files alone.
LEMMA ManagerKeeps ==
  ASSUME UpgradeInv, UNCHANGED <<ledger, owner, controller, operation, disk>>,
         service' \in Services, drain' \in BOOLEAN, service'.well => service'.registered,
         \/ UNCHANGED drain /\ service'.registered = service.registered
         \/ operation = Nobody /\ service'.registered /\ Undivided,
         activity.exclusive = Nobody \/ service'.running = Nobody
  PROVE  UpgradeInv'
<1>1. UNCHANGED <<installed, staged, activity>>
  BY DEF disk
<1>2. /\ Undivided' <=> Undivided
      /\ \A v : (Ours(v)' <=> Ours(v)) /\ (Kept(v)' <=> Kept(v))
  BY <1>1 DEF Undivided, Ours, Kept
<1>3. UpgradeTypes'
  BY <1>1 DEF UpgradeInv, UpgradeTypes, UpgradeTypeOK, Services
<1>4. OwnersFit' /\ LedgerFits' /\ LocksFit'
  BY <1>1, <1>2 DEF UpgradeInv, OwnersFit, LedgerFits, LocksFit, At
<1>5. Startable => Startable'
  BY DEF Startable
<1>6. Mixed' /\ ServiceFits' /\ NamedFits'
  BY <1>2, <1>5 DEF UpgradeInv, Mixed, ServiceFits, NamedFits
<1>7. ASSUME NEW v \in Upgrade, At(v)' \in Inner
      PROVE  operation' = v /\ Knows(v)' /\ Has(v)' /\ Keeps(v)' /\ Locks(v)'
  <2>1. At(v)' = At(v)
    BY DEF At
  <2>2. operation = v /\ Knows(v) /\ Has(v) /\ Keeps(v) /\ Locks(v) /\ v # Nobody
    BY <1>7, <2>1, AtWork
  <2>3. Knows(v)'
    BY <2>1, <2>2 DEF Knows
  <2>4. service'.registered = service.registered
    BY <2>2
  <2>5. Has(v)'
    BY <1>2, <1>5, <2>1, <2>2, <2>4 DEF Has
  <2>6. Keeps(v)' /\ Locks(v)'
    BY <1>1, <1>2, <2>1, <2>2 DEF Keeps, Locks
  <2> QED BY <2>2, <2>3, <2>5, <2>6
<1>8. ControllersFit'
  BY <1>7 DEF ControllersFit
<1> QED BY <1>3, <1>4, <1>6, <1>8 DEF UpgradeInv

LEMMA OperateKeeps == ASSUME UpgradeInv, Operate PROVE UpgradeInv'
<1>1. installed \in Installations /\ Undivided
  BY UpgradeShapes DEF Operate, UpgradeInv, Mixed
<1>2. /\ service' = [registered |-> TRUE, running |-> installed.binary, well |-> TRUE]
      /\ drain' = FALSE /\ UNCHANGED <<ledger, owner, controller, operation, disk>>
      /\ activity.exclusive = Nobody /\ operation = Nobody
  BY DEF Operate
<1>3. service' \in Services /\ service'.registered = TRUE
  BY <1>1, <1>2 DEF Services, Installations
<1> QED BY <1>1, <1>2, <1>3, ManagerKeeps

LEMMA ServiceDiesKeeps == ASSUME UpgradeInv, ServiceDies PROVE UpgradeInv'
<1>1. service \in Services /\ drain \in BOOLEAN
  BY UpgradeShapes DEF UpgradeInv, UpgradeTypes, UpgradeTypeOK
<1>2. /\ service' = [service EXCEPT !.running = Nobody, !.well = FALSE]
      /\ UNCHANGED <<ledger, owner, controller, operation, disk, drain>>
  BY DEF ServiceDies
<1>3. /\ service' \in Services /\ service'.registered = service.registered /\ ~service'.well
      /\ service'.running = Nobody
  BY <1>1, <1>2 DEF Services
<1> QED BY <1>1, <1>2, <1>3, ManagerKeeps

LEMMA ReviveKeeps == ASSUME UpgradeInv, Revive PROVE UpgradeInv'
<1>1. service \in Services /\ drain \in BOOLEAN /\ installed \in Installations
  BY UpgradeShapes DEF UpgradeInv, UpgradeTypes, UpgradeTypeOK
<1>2. /\ service' = [service EXCEPT !.well = TRUE, !.running = IF @ = Nobody THEN installed.binary ELSE @]
      /\ UNCHANGED <<ledger, owner, controller, operation, disk, drain>>
      /\ service.registered /\ activity.exclusive = Nobody
  BY DEF Revive
<1>3. service' \in Services /\ service'.registered = service.registered
  BY <1>1, <1>2 DEF Services, Installations
<1> QED BY <1>1, <1>2, <1>3, ManagerKeeps

\* A step of the watcher's, or of another updater that has the lock to itself.
LEMMA OutsidersKeep ==
  ASSUME UpgradeInv, UNCHANGED <<ledger, owner, controller, operation, staged, service, drain>>,
         activity' \in Activities, LocksFit', installed' \in Installations,
         \A v \in Upgrade : v \in activity.shared => v \in activity'.shared,
         \A v \in Upgrade : activity.exclusive = v => activity'.exclusive = v,
         \/ UNCHANGED installed /\ (Undivided => Undivided')
         \/ /\ activity.exclusive = "update" /\ Undivided'
            /\ installed'.binary \in {installed.binary, "other"}
            /\ installed'.receipt \in {installed.receipt, "other"}
  PROVE  UpgradeInv'
<1>1. UpgradeTypes'
  BY DEF UpgradeInv, UpgradeTypes, UpgradeTypeOK, Installations, Activities
<1>2. \A v \in Upgrade : (Ours(v)' => Ours(v)) /\ (Kept(v) => Kept(v)')
  BY NamesAre DEF Ours, Kept
<1>3. OwnersFit' /\ LedgerFits'
  BY <1>2 DEF UpgradeInv, OwnersFit, LedgerFits, At
<1>4. (Startable' <=> Startable) /\ (Undivided => Undivided')
  BY DEF Startable
<1>5. Mixed' /\ ServiceFits'
  BY <1>4 DEF UpgradeInv, Mixed, ServiceFits
<1>6. NamedFits'
  <2>1. ledger.id # Nobody => ledger.id \in Upgrade
    BY UpgradeShapes DEF Ledgers
  <2> QED BY <1>2, <1>4, <2>1 DEF UpgradeInv, NamedFits
<1>7. ASSUME NEW v \in Upgrade, At(v)' \in Inner
      PROVE  operation' = v /\ Knows(v)' /\ Has(v)' /\ Keeps(v)' /\ Locks(v)'
  <2>1. At(v)' = At(v)
    BY DEF At
  <2>2. operation = v /\ Knows(v) /\ Has(v) /\ Keeps(v) /\ Locks(v)
    BY <1>7, <2>1, AtWork
  <2>3. Knows(v)' /\ Has(v)'
    BY <1>2, <1>4, <2>1, <2>2 DEF Knows, Has
  <2>4. Keeps(v)'
    BY <1>2, <2>1, <2>2 DEF Keeps
  <2>5. Locks(v)'
    <3>1. CASE UNCHANGED installed
      BY <1>4, <2>1, <2>2, <3>1 DEF Locks
    <3>2. CASE activity.exclusive = "update"
      <4>1. At(v) \notin Replacing \cup Restoring \cup Starting \cup {"restart"}
        BY <2>2, <3>2, NamesAre DEF Locks, UpgradeInv, LocksFit
      <4> QED BY <1>4, <2>1, <2>2, <4>1, HaltedSteps DEF Locks
    <3> QED BY <3>1, <3>2
  <2> QED BY <2>2, <2>3, <2>4, <2>5
<1>8. ControllersFit'
  BY <1>7 DEF ControllersFit
<1> QED BY <1>1, <1>3, <1>5, <1>6, <1>8 DEF UpgradeInv

LEMMA WatchKeeps == ASSUME UpgradeInv, Watch PROVE UpgradeInv'
<1>1. /\ activity \in Activities /\ installed \in Installations /\ LocksFit
      /\ UNCHANGED <<ledger, owner, controller, operation, installed, staged, service, drain>>
  BY UpgradeShapes DEF Watch, UpgradeInv
<1>2. \/ activity.exclusive = Nobody /\ activity' = [activity EXCEPT !.shared = @ \cup {"watcher"}]
      \/ activity' = Without("watcher")
  BY DEF Watch
<1>3. /\ activity' \in Activities /\ activity'.exclusive = activity.exclusive
      /\ \A v \in Upgrade : v \in activity.shared => v \in activity'.shared
  <2>1. CASE activity' = [activity EXCEPT !.shared = @ \cup {"watcher"}]
    BY <1>1, <2>1 DEF Activities
  <2>2. CASE activity' = Without("watcher")
    <3>1. activity' \in Activities /\ activity'.exclusive = activity.exclusive
          /\ activity'.shared = activity.shared \ {"watcher"}
      BY <1>1, <2>2, UnlockedIs
    <3> QED BY <3>1, NamesAre
  <2> QED BY <1>2, <2>1, <2>2
<1>4. LocksFit'
  <2>1. CASE activity.exclusive = Nobody
    BY <1>3, <2>1 DEF LocksFit
  <2>2. CASE activity' = Without("watcher")
    <3>1. activity'.shared = activity.shared \ {"watcher"}
      BY <1>1, <2>2, UnlockedIs
    <3> QED BY <1>1, <1>3, <3>1 DEF LocksFit
  <2> QED BY <1>2, <2>1, <2>2
<1>5. Undivided' <=> Undivided
  BY <1>1, <1>3 DEF Undivided
<1> QED BY <1>1, <1>3, <1>4, <1>5, OutsidersKeep

LEMMA UpdateKeeps == ASSUME UpgradeInv, Update PROVE UpgradeInv'
<1>1. /\ activity \in Activities /\ installed \in Installations /\ LocksFit
      /\ UNCHANGED <<ledger, owner, controller, operation, staged, service, drain>>
  BY UpgradeShapes DEF Update, UpgradeInv
<1>2. CASE Free /\ activity' = Locked("update") /\ UNCHANGED installed
  <2>1. /\ activity' \in Activities /\ activity'.exclusive = "update" /\ activity'.shared = {}
        /\ service.running = Nobody /\ activity.shared = {} /\ activity.exclusive = Nobody
    BY <1>1, <1>2 DEF Activities, Free, Locked
  <2>2. LocksFit' /\ Undivided'
    BY <1>1, <2>1 DEF LocksFit, Undivided
  <2> QED BY <1>1, <1>2, <2>1, <2>2, NamesAre, OutsidersKeep
<1>3. CASE /\ activity.exclusive = "update"
           /\ installed' = [installed EXCEPT !.binary = "other"] /\ UNCHANGED activity
  <2>1. /\ installed' \in Installations /\ installed'.binary = "other" /\ installed'.receipt = installed.receipt
    BY <1>1, <1>3 DEF Installations, Version
  <2>2. LocksFit' /\ Undivided'
    BY <1>1, <1>3 DEF LocksFit, Undivided
  <2> QED BY <1>1, <1>3, <2>1, <2>2, OutsidersKeep
<1>4. CASE activity.exclusive = "update" /\ installed' = Pair("other") /\ activity' = Unlocked
  <2>1. /\ installed' \in Installations /\ installed'.binary = "other" /\ installed'.receipt = "other"
    BY <1>4 DEF Installations, Version, Pair
  <2>2. /\ activity' \in Activities /\ activity'.exclusive = Nobody /\ activity'.shared = activity.shared
    BY <1>1, <1>4, UnlockedIs
  <2>3. LocksFit' /\ Undivided'
    BY <2>1, <2>2 DEF LocksFit, Undivided
  <2> QED BY <1>1, <1>4, <2>1, <2>2, <2>3, NamesAre, OutsidersKeep
<1> QED BY <1>2, <1>3, <1>4 DEF Update

LEMMA ExitKeeps ==
  ASSUME UpgradeInv, NEW u \in Upgrade, End(u) \/ ControllerDies(u) PROVE UpgradeInv'
<1>1. At(u) # "absent"
  BY DEF End, ControllerDies
<1> QED BY <1>1, LeavesKeeps DEF End, ControllerDies

LEMMA UpgradeStutters == ASSUME UpgradeInv, UNCHANGED upgradeVars PROVE UpgradeInv'
<1>1. UNCHANGED <<ledger, owner, controller, operation, installed, staged, activity, service, drain>>
  BY DEF upgradeVars
<1>2. UpgradeTypes' /\ OwnersFit' /\ LedgerFits' /\ LocksFit' /\ ServiceFits'
  BY <1>1 DEF UpgradeInv, UpgradeTypes, UpgradeTypeOK, OwnersFit, LedgerFits, LocksFit, ServiceFits,
     Startable, Ours, At
<1>3. Mixed' /\ NamedFits'
  BY <1>1 DEF UpgradeInv, Mixed, NamedFits, Undivided, Startable, Ours, Kept
<1>4. ControllersFit'
  BY <1>1 DEF UpgradeInv, ControllersFit, Knows, Has, Keeps, Locks, Undivided, Startable, Ours, Kept, At
<1> QED BY <1>2, <1>3, <1>4 DEF UpgradeInv

LEMMA NextUpgradeInv == UpgradeInv /\ [UpgradeNext]_upgradeVars => UpgradeInv'
<1> SUFFICES ASSUME UpgradeInv, [UpgradeNext]_upgradeVars PROVE UpgradeInv'
  OBVIOUS
<1>1. CASE UNCHANGED upgradeVars
  BY <1>1, UpgradeStutters
<1>2. ASSUME NEW u \in Upgrade, OwnerStep(u) PROVE UpgradeInv'
  <2>1. CASE Claim(u) \/ Current(u) \/ Prepare(u) \/ Start(u)
    BY <2>1, ClaimKeeps, CurrentKeeps, PrepareKeeps, OwnerStartKeeps
  <2>2. CASE LaunchController(u) \/ OwnerFails(u)
    BY <2>2, OwnerMovesKeep
  <2>3. CASE RecordFailure(u)
    BY <2>3, RecordFailureKeeps
  <2> QED BY <1>2, <2>1, <2>2, <2>3 DEF OwnerStep
<1>3. ASSUME NEW u \in Upgrade, ControllerStep(u) PROVE UpgradeInv'
  <2>1. CASE Validate(u) \/ Enter(u) \/ Drain(u) \/ Stop(u) \/ Records(u)
    BY <2>1, ValidateKeeps, EnterKeeps, DrainKeeps, StopKeeps, RecordsKeeps
  <2>2. CASE Lock(u) \/ Busy(u) \/ Swap(u) \/ Publish(u)
    BY <2>2, LockKeeps, WaitKeeps, SwapKeeps, PublishKeeps
  <2>3. CASE Unwind(u) \/ UnwindFails(u) \/ Convert(u) \/ DropLease(u)
    BY <2>3, UnwindKeeps, GiveUpKeeps, ConvertKeeps
  <2>4. CASE StartNew(u) \/ Whole(u) \/ Discard(u) \/ Settle(u)
    BY <2>4, StartNewKeeps, VerdictKeeps, DiscardKeeps, SettleKeeps
  <2>5. CASE Restore(u) \/ RestoreFiles(u) \/ RestoreFails(u) \/ Protect(u) \/ Shared(u)
    BY <2>5, RestoreKeeps, RestoreFilesKeeps, GiveUpKeeps, WaitKeeps, SharedKeeps
  <2>6. CASE Restart(u) \/ Restored(u) \/ Fail(u) \/ End(u)
    BY <2>6, RestartKeeps, VerdictKeeps, FailKeeps, ExitKeeps
  <2> QED BY <1>3, <2>1, <2>2, <2>3, <2>4, <2>5, <2>6 DEF ControllerStep
<1>4. ASSUME NEW u \in Upgrade, ControllerDies(u) \/ OwnerDies(u) PROVE UpgradeInv'
  BY <1>4, ExitKeeps, OwnerMovesKeep
<1>5. CASE Reconcile \/ Operate \/ ServiceDies \/ Revive \/ Watch \/ Update
  BY <1>5, ReconcileKeeps, OperateKeeps, ServiceDiesKeeps, ReviveKeeps, WatchKeeps, UpdateKeeps
<1> QED BY <1>1, <1>2, <1>3, <1>4, <1>5 DEF UpgradeNext

LEMMA UpgradeInvariant == UpgradeSpec => []UpgradeInv
<1> QED BY InitUpgradeInv, NextUpgradeInv, PTL DEF UpgradeSpec

\* Until an upgrade is healthy every old file it has replaced is in its staging
\* directory, and a service that nobody is going to start again is flagged,
\* whatever fails or dies (replace_upgrade, restore_upgrade, reconcile).
THEOREM NothingIsStranded == UpgradeSpec => [](UpgradeTypeOK /\ NeverStranded)
<1>1. ASSUME UpgradeInv PROVE UpgradeTypeOK /\ NeverStranded
  <2>1. UpgradeTypeOK
    BY <1>1 DEF UpgradeInv, UpgradeTypes
  <2>2. RecoverySourceKept
    BY <1>1 DEF UpgradeInv, LedgerFits, NamedFits, Kept, RecoverySourceKept
  <2>3. DownIsFlagged
    BY <1>1 DEF UpgradeInv, ServiceFits, Startable, DownIsFlagged
  <2> QED BY <2>1, <2>2, <2>3 DEF NeverStranded
<1> QED BY <1>1, UpgradeInvariant, PTL

-----------------------------------------------------------------------------
(* Upgrade: what the steps show                                            *)

LEMMA StartIsWhole ==
  ASSUME UpgradeInv, NEW u \in Upgrade, At(u) \in {"starting", "restart"}, NEW well \in BOOLEAN,
         Started(u, well), UNCHANGED installed
  PROVE  installed' = Pair(service'.running)
<1>1. At(u) \in Underway
  BY ServicePlaces
<1>2. Locks(u) /\ LocksFit
  BY <1>1, ServiceKnows
<1>3. Undivided /\ u \in activity.shared
  BY <1>2, HaltedSteps DEF Locks
<1>4. activity.exclusive = Nobody
  BY <1>2, <1>3 DEF LocksFit
<1>5. installed.receipt = installed.binary /\ installed \in Installations
  BY <1>3, <1>4, UpgradeShapes, NamesAre DEF Undivided
<1>6. service'.running = installed.binary
  BY StartedIs
<1> QED BY <1>5, <1>6 DEF Pair, Installations

LEMMA OtherStartIsWhole ==
  ASSUME UpgradeInv, Operate \/ Revive, service'.running \notin {service.running, Nobody}
  PROVE  installed' = Pair(service'.running)
<1>1. installed \in Installations /\ service \in Services
  BY UpgradeShapes
<1>2. installed' = installed /\ activity.exclusive = Nobody /\ service'.running = installed.binary
  <2>1. CASE Operate
    BY <2>1 DEF Operate, disk
  <2>2. CASE Revive
    BY <1>1, <2>2 DEF Revive, disk, Services
  <2> QED BY <2>1, <2>2
<1>3. ~Pending(ledger) \/ service.registered
  BY DEF Operate, Revive
<1>4. installed.binary = installed.receipt
  BY <1>2, <1>3, NamesAre DEF UpgradeInv, Mixed, Undivided
<1> QED BY <1>1, <1>2, <1>4 DEF Pair, Installations

\* No failure, death or repair lets a service start from an executable and a
\* receipt that do not belong together (start_upgraded, restart_previous, repair
\* and the manager's own restart).
THEOREM NoStartOnMixtureHolds == UpgradeSpec => NoStartOnMixture
<1>1. ASSUME UpgradeInv, [UpgradeNext]_upgradeVars, service'.running \notin {service.running, Nobody}
      PROVE  installed' = Pair(service'.running)
  <2>1. service' # service
    BY <1>1
  <2>2. ASSUME NEW u \in Upgrade, Stop(u) \/ Settle(u) PROVE service'.running \in {service.running, Nobody}
    BY <2>2, UnregisteredIs DEF Stop, Settle
  <2>3. ASSUME NEW u \in Upgrade, StartNew(u) PROVE installed' = Pair(service'.running)
    <3>1. At(u) = "starting" /\ UNCHANGED installed
      BY <2>3 DEF StartNew
    <3>2. \/ \E well \in BOOLEAN : Started(u, well)
          \/ service' = service
          \/ service' \in {Unregistered, [Unregistered EXCEPT !.registered = TRUE]}
      BY <2>3 DEF StartNew
    <3> QED BY <1>1, <3>1, <3>2, UnregisteredIs, StartIsWhole
  <2>4. ASSUME NEW u \in Upgrade, Restart(u) PROVE installed' = Pair(service'.running)
    <3>1. At(u) = "restart" /\ UNCHANGED installed
      BY <2>4 DEF Restart, disk
    <3>2. (\E well \in BOOLEAN : Started(u, well)) \/ service' = service
      BY <2>4 DEF Restart
    <3> QED BY <1>1, <3>1, <3>2, StartIsWhole
  <2>5. CASE Operate \/ Revive
    BY <1>1, <2>5, OtherStartIsWhole
  <2>6. CASE ServiceDies
    BY <1>1, <2>6, UpgradeShapes DEF ServiceDies, Services
  <2>7. ASSUME NEW u \in Upgrade,
               \/ OwnerStep(u) \/ ControllerDies(u) \/ OwnerDies(u)
               \/ Validate(u) \/ Enter(u) \/ Drain(u) \/ Records(u)
               \/ Lock(u) \/ Busy(u) \/ Swap(u) \/ Publish(u) \/ Unwind(u) \/ UnwindFails(u) \/ Convert(u)
               \/ DropLease(u) \/ Whole(u) \/ Discard(u)
               \/ Restore(u) \/ RestoreFiles(u) \/ RestoreFails(u) \/ Protect(u) \/ Shared(u)
               \/ Restored(u) \/ Fail(u) \/ End(u)
        PROVE  service' = service
    <3>1. CASE OwnerStep(u) \/ ControllerDies(u) \/ OwnerDies(u)
      BY <3>1 DEF OwnerStep, ControllerDies, OwnerDies, Claim, Current, Prepare, Start, LaunchController,
         OwnerFails, RecordFailure
    <3>2. CASE \/ Validate(u) \/ Enter(u) \/ Drain(u) \/ Records(u) \/ Whole(u) \/ Discard(u)
               \/ Restored(u) \/ Fail(u) \/ End(u) \/ Busy(u) \/ Protect(u)
      BY <3>2 DEF Validate, Enter, Drain, Records, Recorded, Whole, Discard, Restored, Fail, End, Busy, Protect
    <3>3. CASE \/ Lock(u) \/ Swap(u) \/ Publish(u) \/ Unwind(u) \/ UnwindFails(u) \/ Convert(u) \/ DropLease(u)
               \/ Restore(u) \/ RestoreFiles(u) \/ RestoreFails(u) \/ Shared(u)
      BY <3>3 DEF Lock, Swap, Publish, Unwind, UnwindFails, Convert, DropLease, Restore, RestoreFiles,
         RestoreFails, Shared
    <3> QED BY <2>7, <3>1, <3>2, <3>3
  <2>8. CASE Reconcile \/ Watch \/ Update \/ UNCHANGED upgradeVars
    BY <2>1, <2>8 DEF Reconcile, Watch, Update, upgradeVars
  <2> QED BY <1>1, <2>1, <2>2, <2>3, <2>4, <2>5, <2>6, <2>7, <2>8 DEF UpgradeNext, ControllerStep
<1> QED BY <1>1, UpgradeInvariant, PTL DEF UpgradeSpec, NoStartOnMixture

\* What a record that settles an upgrade must be true of.
Told ==
  /\ ledger'.stage = "healthy" => installed = Pair(ledger'.to) /\ service.registered
  /\ ledger'.stage = "rolled_back" => installed = Pair(ledger'.from) /\ service.registered
  /\ ledger'.stage = "failed" =>
       /\ installed.binary = installed.receipt \/ activity.exclusive = "update"
       /\ ledger'.to \notin {installed.binary, installed.receipt}
       /\ service.registered \/ drain

\* A save that changes the ledger writes what it was given.
LEMMA SavedIs ==
  ASSUME NEW j, NEW ok, Saves(j, ok), ledger' # ledger PROVE ledger' = j
  BY DEF Saves

\* A record before the stop can only say "failed", and nothing was touched.
LEMMA EarlyTold ==
  ASSUME UpgradeInv, ledger'.stage \notin {"healthy", "rolled_back"}, ledger'.to = ledger.id,
         ledger'.stage = "failed" => Startable /\ ~Ours(ledger.id) /\ Undivided
  PROVE  Told
  BY DEF Told, Startable, Ours, Undivided

LEMMA OwnerTold ==
  ASSUME UpgradeInv, NEW u \in Upgrade, OwnerStep(u), ledger' # ledger PROVE Told
<1>1. ledger \in Ledgers /\ installed \in Installations /\ service \in Services
  BY UpgradeShapes
<1>2. CASE Claim(u)
  <2>1. ledger'.stage = "staging"
    BY <1>2, SavedIs DEF Claim
  <2> QED BY <2>1 DEF Told
<1>3. CASE Current(u)
  <2> DEFINE j == [ledger EXCEPT !.stage = "healthy", !.to = installed.receipt]
  <2>1. j.stage = "healthy" /\ j.to = installed.receipt
    BY <1>1 DEF Ledgers
  <2>2. PICK ok \in BOOLEAN : Saves(j, ok)
    BY <1>3 DEF Current
  <2> HIDE DEF j
  <2>3. ledger' = j
    BY <2>2, SavedIs
  <2>4. service.registered /\ service.running # Nobody
    BY <1>1, <1>3, NamesAre DEF Current, UpgradeInv, ServiceFits, Installations
  <2>5. Undivided /\ activity.exclusive = Nobody
    BY <1>3, <2>4, MineKnows DEF Current, UpgradeInv, LocksFit
  <2>6. installed = Pair(installed.receipt)
    BY <1>1, <2>5, NamesAre DEF Undivided, Pair, Installations
  <2> QED BY <2>1, <2>3, <2>4, <2>6 DEF Told
<1>4. CASE Start(u)
  <2>1. ledger' = [ledger EXCEPT !.stage = "started"]
    BY <1>4, SavedIs DEF Start
  <2>2. ledger'.stage = "started"
    BY <1>1, <2>1 DEF Ledgers
  <2> QED BY <2>2 DEF Told
<1>5. CASE RecordFailure(u)
  <2>1. Mine(u) /\ ledger' = [ledger EXCEPT !.stage = "failed"]
    BY <1>5, SavedIs DEF RecordFailure
  <2>2. ledger'.stage = "failed" /\ ledger'.to = ledger.to
    BY <1>1, <2>1 DEF Ledgers
  <2>3. ledger.id = u /\ ledger.to = u /\ Startable /\ ~Ours(u) /\ Undivided
    BY <2>1, MineKnows
  <2> QED BY <2>2, <2>3, EarlyTold
<1> QED BY <1>2, <1>3, <1>4, <1>5 DEF OwnerStep, Prepare, LaunchController, OwnerFails

LEMMA AdvanceTold ==
  ASSUME ledger \in Ledgers, NEW u, NEW stage, NEW next, NEW otherwise, Advance(u, stage, next, otherwise),
         ledger' # ledger
  PROVE  ledger'.stage = stage /\ ledger'.to = ledger.to /\ ledger'.from = ledger.from
<1> DEFINE j == [ledger EXCEPT !.stage = stage, !.recovery = @ /\ stage \notin {"healthy", "rolled_back"}]
<1>1. j.stage = stage /\ j.to = ledger.to /\ j.from = ledger.from
  BY DEF Ledgers
<1>2. PICK ok \in BOOLEAN : Saves(j, ok)
  BY DEF Advance
<1> HIDE DEF j
<1>3. ledger' = j
  BY <1>2, SavedIs
<1> QED BY <1>1, <1>3

LEMMA ControllerTold ==
  ASSUME UpgradeInv, NEW u \in Upgrade, ControllerStep(u), ledger' # ledger, ~ledger'.recovery PROVE Told
<1>1. ledger \in Ledgers
  BY UpgradeShapes
<1>2. CASE Enter(u)
  <2>1. Valid(u) /\ ledger' = [ledger EXCEPT !.named = TRUE]
    BY <1>2, SavedIs DEF Enter
  <2>2. ledger'.stage = "started"
    BY <1>1, <2>1 DEF Ledgers, Valid
  <2> QED BY <2>2 DEF Told
<1>3. CASE Drain(u)
  <2>1. ledger'.stage = "draining"
    BY <1>1, <1>3, AdvanceTold DEF Drain
  <2> QED BY <2>1 DEF Told
<1>4. CASE Records(u)
  <2>1. CASE Recorded(u, "not_stopped", "failed", "ending", "ending")
    <3>1. ledger'.stage = "failed" /\ ledger'.to = ledger.to
      BY <1>1, <2>1, AdvanceTold DEF Recorded
    <3>2. At(u) \in Inner /\ At(u) \in BeforeStop
      BY <2>1 DEF Recorded, Inner, BeforeStop
    <3>3. ledger.id = u /\ ledger.to = u /\ Startable /\ ~Ours(u) /\ Undivided
      BY <3>2, AtWork DEF Has
    <3> QED BY <3>1, <3>3, EarlyTold
  <2>2. CASE \E at, next, otherwise : \E stage \in {"stopped", "replacing", "replaced", "starting"} :
               Recorded(u, at, stage, next, otherwise)
    <3>1. ledger'.stage \in {"stopped", "replacing", "replaced", "starting"}
      BY <1>1, <2>2, AdvanceTold DEF Recorded
    <3> QED BY <3>1 DEF Told
  <2> QED BY <1>4, <2>1, <2>2 DEF Records
<1>5. CASE StartNew(u)
  <2>1. ledger' = [ledger EXCEPT !.recovery = TRUE]
    BY <1>5 DEF StartNew
  <2>2. ledger'.recovery = TRUE
    BY <1>1, <2>1 DEF Ledgers
  <2> QED BY <2>2
<1>6. CASE Whole(u) \/ Restored(u)
  <2>1. At(u) \in {"verify", "restarted"} /\ At(u) \in Inner
    BY <1>6 DEF Whole, Restored, Inner
  <2>2. service.registered
    BY <2>1, AtWork DEF Has
  <2>3. \/ ledger'.stage = "healthy" /\ ledger'.to = ledger.to /\ installed = Pair(ledger.to)
        \/ ledger'.stage = "rolled_back" /\ ledger'.from = ledger.from /\ installed = Pair(ledger.from)
    <3>1. CASE Whole(u)
      <4>1. installed = Pair(ledger.to) /\ Advance(u, "healthy", "discard", "fail_hard")
        BY <3>1 DEF Whole
      <4> QED BY <1>1, <4>1, AdvanceTold
    <3>2. CASE Restored(u)
      <4>1. installed = Pair(ledger.from) /\ Advance(u, "rolled_back", "discard", "ending")
        BY <3>2 DEF Restored
      <4> QED BY <1>1, <4>1, AdvanceTold
    <3> QED BY <1>6, <3>1, <3>2
  <2>4. CASE ledger'.stage = "healthy" /\ ledger'.to = ledger.to /\ installed = Pair(ledger.to)
    BY <2>2, <2>4 DEF Told
  <2>5. CASE ledger'.stage = "rolled_back" /\ ledger'.from = ledger.from /\ installed = Pair(ledger.from)
    BY <2>2, <2>5 DEF Told
  <2> QED BY <2>3, <2>4, <2>5
<1>7. CASE Fail(u)
  <2>1. ledger' = [ledger EXCEPT !.stage = "failed", !.recovery = NeedsRecovery(u)]
    BY <1>7, SavedIs DEF Fail
  <2>2. ledger'.stage = "failed" /\ ledger'.recovery = NeedsRecovery(u) /\ ledger'.to = ledger.to
    BY <1>1, <2>1 DEF Ledgers, NeedsRecovery
  <2>3. At(u) = "fail_soft" /\ At(u) \in Inner /\ At(u) \in BeforeStop
    BY <1>7, <2>2 DEF Fail, NeedsRecovery, Inner, BeforeStop
  <2>4. ledger.id = u /\ ledger.to = u /\ Startable /\ ~Ours(u) /\ Undivided
    BY <2>3, AtWork DEF Has
  <2> QED BY <2>2, <2>4, EarlyTold
<1>8. CASE \/ Validate(u) \/ Stop(u) \/ Discard(u) \/ Settle(u) \/ End(u) \/ Busy(u) \/ Protect(u) \/ Restart(u)
           \/ Lock(u) \/ Swap(u) \/ Publish(u) \/ Unwind(u) \/ UnwindFails(u) \/ Convert(u) \/ DropLease(u)
           \/ Restore(u) \/ RestoreFiles(u) \/ RestoreFails(u) \/ Shared(u)
  <2>1. ledger' = ledger
    BY <1>8 DEF Validate, Stop, Discard, Settle, End, Busy, Protect, Restart, Lock, Swap, Publish, Unwind,
       UnwindFails, Convert, DropLease, Restore, RestoreFiles, RestoreFails, Shared
  <2> QED BY <2>1
<1> QED BY <1>2, <1>3, <1>4, <1>5, <1>6, <1>7, <1>8 DEF ControllerStep

LEMMA RepairTold ==
  ASSUME UpgradeInv, Reconcile, ledger' # ledger, ~ledger'.recovery PROVE Told
<1>1. ledger \in Ledgers
  BY UpgradeShapes
<1>2. CASE /\ service.well /\ installed = Pair(ledger.to)
           /\ \E ok \in BOOLEAN : Saves([ledger EXCEPT !.stage = "healthy", !.recovery = FALSE], ok)
  <2>1. ledger' = [ledger EXCEPT !.stage = "healthy", !.recovery = FALSE]
    BY <1>2, SavedIs
  <2>2. ledger'.stage = "healthy" /\ ledger'.to = ledger.to /\ service.registered
    BY <1>1, <1>2, <2>1 DEF Ledgers, UpgradeInv, ServiceFits
  <2> QED BY <1>2, <2>2 DEF Told
<1>3. CASE /\ Early(ledger.stage)
           /\ \E ok \in BOOLEAN : Saves([ledger EXCEPT !.stage = "failed"], ok)
  <2>1. ledger' = [ledger EXCEPT !.stage = "failed"]
    BY <1>3, SavedIs
  <2>2. ledger'.stage = "failed" /\ ledger'.to = ledger.to
    BY <1>1, <2>1 DEF Ledgers
  <2>3. ledger.id # Nobody /\ ledger.stage # "healthy"
    BY <1>3 DEF UpgradeInv, LedgerFits, Early
  <2>4. Startable /\ ~Ours(ledger.id) /\ Undivided /\ ledger.to = ledger.id
    BY <1>3, <2>3 DEF UpgradeInv, NamedFits, LedgerFits
  <2> QED BY <2>2, <2>4, EarlyTold
<1>4. CASE \E ok \in BOOLEAN : Saves([ledger EXCEPT !.stage = "failed", !.recovery = TRUE], ok)
  <2>1. ledger' = [ledger EXCEPT !.stage = "failed", !.recovery = TRUE]
    BY <1>4, SavedIs
  <2>2. ledger'.recovery = TRUE
    BY <1>1, <2>1 DEF Ledgers
  <2> QED BY <2>2
<1> QED BY <1>2, <1>3, <1>4 DEF Reconcile

\* A recorded verdict is true of the files and of the service at the moment it is
\* recorded; only "failed" with recovery_required may leave them unsettled
\* (advance, controller_inner, record_failure, reconcile).
THEOREM VerdictIsTrueHolds == UpgradeSpec => VerdictIsTrue
<1>1. ASSUME UpgradeInv, [UpgradeNext]_upgradeVars, ledger' # ledger, ~ledger'.recovery PROVE Told
  <2>1. ASSUME NEW u \in Upgrade, OwnerStep(u) PROVE Told
    BY <1>1, <2>1, OwnerTold
  <2>2. ASSUME NEW u \in Upgrade, ControllerStep(u) PROVE Told
    BY <1>1, <2>2, ControllerTold
  <2>3. CASE Reconcile
    BY <1>1, <2>3, RepairTold
  <2>4. ASSUME NEW u \in Upgrade, ControllerDies(u) \/ OwnerDies(u) PROVE ledger' = ledger
    BY <2>4 DEF ControllerDies, OwnerDies
  <2>5. CASE Operate \/ ServiceDies \/ Revive \/ Watch \/ Update \/ UNCHANGED upgradeVars
    BY <1>1, <2>5 DEF Operate, ServiceDies, Revive, Watch, Update, upgradeVars
  <2> QED BY <1>1, <2>1, <2>2, <2>3, <2>4, <2>5 DEF UpgradeNext
<1>2. ASSUME UpgradeInv, [UpgradeNext]_upgradeVars
      PROVE  [ledger' # ledger /\ ~ledger'.recovery => Told]_upgradeVars
  BY <1>1, <1>2
<1> QED BY <1>2, UpgradeInvariant, PTL DEF UpgradeSpec, VerdictIsTrue, Told
=============================================================================
