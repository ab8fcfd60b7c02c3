-------------------------- MODULE OperationsProofs --------------------------
(***************************************************************************)
(* Theorems about Native and Watch, for any number of processes, sessions, *)
(* operations, faults and power losses.                                    *)
(*                                                                         *)
(* Native.  No request is repeated, nor overlaps another, because of four  *)
(* things: one process at a time works on a session (Alone), operations    *)
(* are numbered and pinned in order before anything is written (Numbered), *)
(* a journal that ends with nothing unresolved shows that every request it *)
(* holds has ended (EarlierEnded), and the evidence in a record is never   *)
(* of a turn that still runs (RecordsAreTrue).                             *)
(***************************************************************************)
EXTENDS Native, Watch, FiniteSetTheorems, SequenceTheorems, TLAPS

-----------------------------------------------------------------------------
(* Native: the invariant                                                   *)

Waiting == {"custody", "files", "registered"}
Begun == {"pinned", "prepared", "dispatched", "sent", "answered"}
Unsent == {"pinned", "prepared", "dispatched"}
Holding == Begun \cup {"claimed"}

\* o is on the disk as dispatched: no power loss takes it back.
OnDisk(o) ==
  \E i \in 1..journal[o[1]].synced :
    journal[o[1]].records[i] = [op |-> o[2], state |-> "dispatched", proof |-> FALSE]

\* What is so of a process p at each step of its operation.
Named(p) ==
  /\ worker[p].step = "idle" => worker[p] = NoWork
  /\ worker[p].step # "idle" => worker[p].target \in Target
  /\ worker[p].step \in Holding => worker[p].op \in 1..MaxOps
  /\ worker[p].step # "answered" => ~worker[p].proof

\* It works on the operation after those that are pinned; that one is pinned
\* before it is written down, and written down before it is given.
Numbered(p) ==
  /\ worker[p].step = "claimed" =>
       \A n \in 1..MaxOps : <<worker[p].target, n>> \in pins <=> n < worker[p].op
  /\ worker[p].step \in Begun => Mine(p) \in pins
  /\ worker[p].step \in Unsent => Mine(p) \notin given
  /\ worker[p].step = "dispatched" => OnDisk(Mine(p))
  /\ worker[p].step = "sent" => Mine(p) \in given

\* It has evidence only of a turn that was begun and has ended.
Proven(p) == worker[p].proof => Mine(p) \in given \ flight

\* As long as it has not sent, every earlier request has ended.
EarlierEnded(p) ==
  worker[p].step \in Unsent \cup {"claimed"} =>
    \A e \in given : e[1] = worker[p].target => KnownEnded(e)

Fit(p) == Named(p) /\ Numbered(p) /\ Proven(p) /\ EarlierEnded(p)

\* The target's lock: the journal has one writer.
Alone ==
  \A p, q \in Process :
    worker[p].step \in Holding /\ worker[q].step \in Holding /\ worker[p].target = worker[q].target
      => p = q

\* Operations are numbered in the order they are pinned.
PinsInOrder ==
  \A t \in Target : \E k \in 0..MaxOps : \A n \in 1..MaxOps : <<t, n>> \in pins <=> n <= k

GivenIsOnDisk ==
  /\ \A t \in Target : journal[t].synced <= Len(journal[t].records)
  /\ \A o \in given : o \in pins /\ OnDisk(o)

\* A record's evidence is true, and no record says without it that a turn ended.
Closing == {"applied", "noop", "reconciled"}
RecordsAreTrue ==
  \A t \in Target : \A i \in 1..Len(journal[t].records) :
    LET r == journal[t].records[i]
    IN /\ r.proof => <<t, r.op>> \in given \ flight
       /\ r.state \in Closing => r.proof

NativeInv ==
  /\ NativeTypeOK /\ (\A p \in Process : Fit(p))
  /\ Alone /\ PinsInOrder /\ GivenIsOnDisk /\ RecordsAreTrue /\ OneInFlight

-----------------------------------------------------------------------------
(* Native: types, and journals that grow                                   *)

JournalType == [records: Seq(Record), synced: Nat, torn: BOOLEAN]
WorkType == [step: Steps, target: Target \cup {Nobody}, op: 0..MaxOps, proof: BOOLEAN]

LEMMA NoWorkTyped == NoWork \in WorkType /\ NoWork.step = "idle" /\ NoWork.target = Nobody
                     /\ ~NoWork.proof /\ NoWork.step \notin Holding
  BY BoundAssumption DEF NoWork, WorkType, Steps, Holding, Begun

LEMMA InitNativeInv == NativeInit => NativeInv
<1> SUFFICES ASSUME NativeInit PROVE NativeInv
  OBVIOUS
<1> USE DEF NativeInit
<1>1. worker \in [Process -> WorkType] /\ \A p \in Process : worker[p] = NoWork
  BY NoWorkTyped
<1>2. journal \in [Target -> JournalType]
      /\ \A t \in Target : journal[t].records = <<>> /\ journal[t].synced = 0
  BY DEF JournalType
<1>3. NativeTypeOK
  BY <1>1, <1>2, BoundAssumption DEF NativeTypeOK, JournalType, WorkType
<1>4. (\A p \in Process : Fit(p)) /\ Alone
  <2>1. \A p \in Process : worker[p].step = "idle" /\ ~worker[p].proof
    BY <1>1, NoWorkTyped
  <2> QED BY <1>1, <2>1
          DEF Fit, Named, Numbered, Proven, EarlierEnded, Alone, Holding, Begun, Unsent
<1>5. PinsInOrder /\ GivenIsOnDisk /\ RecordsAreTrue /\ OneInFlight
  <2>1. \A t \in Target : \A n \in 1..MaxOps : <<t, n>> \in pins <=> n <= 0
    BY BoundAssumption
  <2> QED BY <1>2, <2>1, BoundAssumption DEF PinsInOrder, GivenIsOnDisk, RecordsAreTrue, OneInFlight
<1> QED BY <1>3, <1>4, <1>5 DEF NativeInv

NothingButAdds(t, r) ==
  \A s \in Target : \A i \in 1..Len(journal'[s].records) :
    \/ (i \in 1..Len(journal[s].records) /\ journal'[s].records[i] = journal[s].records[i])
    \/ (s = t /\ journal'[s].records[i] = r)

\* What one append leaves of a journal, and adds to it.
LEMMA AppendGrows ==
  ASSUME NativeTypeOK, GivenIsOnDisk,
         NEW t \in Target, NEW r \in Record, NEW outcome \in Outcomes,
         journal' = [journal EXCEPT ![t] = Append1(@, r, outcome)]
  PROVE  /\ journal' \in [Target -> JournalType]
         /\ \A s \in Target : journal'[s].synced <= Len(journal'[s].records)
         /\ \A o \in Operation : OnDisk(o) => OnDisk(o)'
         /\ \A o \in Operation : KnownEnded(o) => KnownEnded(o)'
         /\ NothingButAdds(t, r)
         /\ outcome = Whole /\ r.state = "dispatched" /\ ~r.proof =>
              \E i \in 1..journal'[t].synced :
                journal'[t].records[i] = [op |-> r.op, state |-> "dispatched", proof |-> FALSE]
<1> DEFINE j == journal[t]  k == Append1(j, r, outcome)
<1>1. /\ j \in JournalType /\ j.synced <= Len(j.records) /\ j.records \in Seq(Record)
      /\ j.synced \in Nat /\ Len(j.records) \in Nat
  BY DEF NativeTypeOK, JournalType, GivenIsOnDisk
<1>2. outcome \in [reaches: BOOLEAN, torn: BOOLEAN, synced: BOOLEAN]
  <2> DEFINE Flags == [reaches: BOOLEAN, torn: BOOLEAN, synced: BOOLEAN]
  <2>1. Whole \in Flags /\ Torn \in Flags
    BY DEF Whole, Torn
  <2>2. Unsynced \in Flags /\ Nothing \in Flags
    BY <2>1 DEF Unsynced, Nothing
  <2> QED BY <2>1, <2>2 DEF Outcomes
<1>3. /\ Append(j.records, r) \in Seq(Record)
      /\ Len(Append(j.records, r)) = Len(j.records) + 1
      /\ \A i \in 1..Len(j.records) : Append(j.records, r)[i] = j.records[i]
      /\ Append(j.records, r)[Len(j.records) + 1] = r
  BY <1>1, AppendProperties
<1>4. /\ k.records = (IF outcome.reaches THEN Append(j.records, r) ELSE j.records)
      /\ k.synced = (IF outcome.synced THEN Len(k.records) ELSE j.synced)
      /\ k \in JournalType
  <2>1. k = [records |-> IF outcome.reaches THEN Append(j.records, r) ELSE j.records,
             torn |-> outcome.torn,
             synced |-> IF outcome.synced
                        THEN Len(IF outcome.reaches THEN Append(j.records, r) ELSE j.records)
                        ELSE j.synced]
    BY DEF Append1
  <2>2. (IF outcome.reaches THEN Append(j.records, r) ELSE j.records) \in Seq(Record)
    BY <1>1, <1>3
  <2>3. Len(IF outcome.reaches THEN Append(j.records, r) ELSE j.records) \in Nat
    BY <1>1, <1>3
  <2> QED BY <1>1, <1>2, <2>1, <2>2, <2>3 DEF JournalType
<1>5. /\ k.records \in Seq(Record) /\ Len(j.records) <= Len(k.records)
      /\ k.synced \in Nat /\ j.synced <= k.synced /\ k.synced <= Len(k.records)
      /\ \A i \in 1..Len(j.records) : k.records[i] = j.records[i]
      /\ \A i \in 1..Len(k.records) : i \in 1..Len(j.records) \/ k.records[i] = r
  BY <1>1, <1>2, <1>3, <1>4
<1>6. journal'[t] = k /\ \A s \in Target : s # t => journal'[s] = journal[s]
  BY DEF NativeTypeOK
<1>7. journal' \in [Target -> JournalType]
  BY <1>4 DEF NativeTypeOK, JournalType
<1>8. ASSUME outcome = Whole, r.state = "dispatched", ~r.proof
      PROVE  \E i \in 1..journal'[t].synced :
               journal'[t].records[i] = [op |-> r.op, state |-> "dispatched", proof |-> FALSE]
  <2>1. k.records = Append(j.records, r) /\ k.synced = Len(j.records) + 1
    BY <1>3, <1>4, <1>8 DEF Whole
  <2>2. r = [op |-> r.op, state |-> "dispatched", proof |-> FALSE]
    BY <1>8 DEF Record
  <2> HIDE DEF j, k
  <2>3. Len(j.records) + 1 \in 1..k.synced /\ k.records[Len(j.records) + 1] = r
    BY <1>1, <1>3, <2>1
  <2> QED BY <1>6, <2>2, <2>3
<1> HIDE DEF j, k
<1>kept. ASSUME NEW s \in Target
         PROVE  /\ \A i \in 1..journal[s].synced :
                     i \in 1..journal'[s].synced /\ journal'[s].records[i] = journal[s].records[i]
                /\ \A i \in 1..Len(journal[s].records) :
                     i \in 1..Len(journal'[s].records)
                     /\ journal'[s].records[i] = journal[s].records[i]
  <2>1. CASE s # t
    <3>1. journal'[s] = journal[s]
      BY <1>6, <2>1
    <3>2. journal[s].synced \in Nat /\ journal[s].synced <= Len(journal[s].records)
      BY DEF NativeTypeOK, GivenIsOnDisk
    <3> QED BY <3>1, <3>2
  <2>2. CASE s = t
    <3>1. journal[s] = j /\ journal'[s] = k
      BY <1>6, <2>2 DEF j
    <3>2. Len(k.records) \in Nat
      BY <1>5
    <3> QED BY <1>1, <1>5, <3>1, <3>2
  <2> QED BY <2>1, <2>2
<1>9. ASSUME NEW o \in Operation, OnDisk(o) PROVE OnDisk(o)'
  <2>1. o[1] \in Target
    BY DEF Operation
  <2> QED BY <1>kept, <1>9, <2>1 DEF OnDisk
<1>10. ASSUME NEW o \in Operation, KnownEnded(o) PROVE KnownEnded(o)'
  <2>1. o[1] \in Target
    BY DEF Operation
  <2> QED BY <1>kept, <1>10, <2>1 DEF KnownEnded
<1>11. \A s \in Target : journal'[s].synced <= Len(journal'[s].records)
  BY <1>5, <1>6 DEF GivenIsOnDisk
<1>12. NothingButAdds(t, r)
  <2>1. j = journal[t]
    BY DEF j
  <2>2. ASSUME NEW s \in Target, s # t, NEW i \in 1..Len(journal'[s].records)
        PROVE  i \in 1..Len(journal[s].records) /\ journal'[s].records[i] = journal[s].records[i]
    BY <1>6, <2>2
  <2>3. ASSUME NEW i \in 1..Len(journal'[t].records)
        PROVE  \/ (i \in 1..Len(journal[t].records) /\ journal'[t].records[i] = journal[t].records[i])
               \/ journal'[t].records[i] = r
    <3>1. i \in 1..Len(k.records)
      BY <1>6, <2>3
    <3>2. k.records[i] = r \/ (i \in 1..Len(j.records) /\ k.records[i] = j.records[i])
      BY <1>5, <3>1
    <3> QED BY <1>6, <2>1, <3>2
  <2> QED BY <2>2, <2>3 DEF NothingButAdds
<1> QED BY <1>7, <1>8, <1>9, <1>10, <1>11, <1>12

-----------------------------------------------------------------------------
(* Native: steps                                                           *)

\* The journals only get longer, on the disk too.
JournalsGrow ==
  /\ \A o \in Operation : OnDisk(o) => OnDisk(o)'
  /\ \A o \in Operation : KnownEnded(o) => KnownEnded(o)'

LEMMA SameJournals ==
  ASSUME UNCHANGED journal
  PROVE  /\ JournalsGrow
         /\ \A o \in Operation : (OnDisk(o)' <=> OnDisk(o)) /\ (KnownEnded(o)' <=> KnownEnded(o))
  BY DEF JournalsGrow, OnDisk, KnownEnded

\* A process is not disturbed by a step that adds no pin to its session before
\* it has its own, and gives nothing to its session.
LEMMA OthersFit ==
  ASSUME NativeInv, NativeTypeOK', NEW q \in Process, worker'[q] = worker[q], JournalsGrow,
         pins \subseteq pins', given \subseteq given', flight' \cap given \subseteq flight,
         worker[q].step = "claimed" =>
           \A n \in 1..MaxOps : <<worker[q].target, n>> \in pins' => <<worker[q].target, n>> \in pins,
         worker[q].step \in Unsent \cup {"claimed"} =>
           \A e \in given' : e[1] = worker[q].target => e \in given
  PROVE  Fit(q)'
<1>1. Mine(q)' = Mine(q) /\ worker'[q] = worker[q]
  BY DEF Mine
<1>2. Fit(q)
  BY DEF NativeInv
<1>3. Named(q)'
  BY <1>1, <1>2 DEF Fit, Named
<1>4. worker[q].step \in Holding => Mine(q) \in Operation /\ Mine(q)[1] = worker[q].target
  BY <1>2 DEF Fit, Named, Mine, Operation, Holding, Begun
<1>5. Numbered(q)'
  <2>1. worker[q].step \in Unsent => Mine(q) \notin given'
    BY <1>2, <1>4 DEF Fit, Numbered, Holding, Begun, Unsent
  <2>2. worker[q].step = "dispatched" => OnDisk(Mine(q))'
    <3>1. worker[q].step = "dispatched" => OnDisk(Mine(q))
      BY <1>2 DEF Fit, Numbered
    <3>2. ASSUME NEW o \in Operation, OnDisk(o) PROVE OnDisk(o)'
      BY <3>2 DEF JournalsGrow
    <3>3. ASSUME NEW o \in Operation, o = Mine(q), worker[q].step = "dispatched"
          PROVE  OnDisk(Mine(q))'
      <4>1. OnDisk(o)'
        BY <3>1, <3>2, <3>3
      <4>2. o = Mine(q)'
        BY <1>1, <3>3
      <4> QED BY <4>1, <4>2 DEF OnDisk
    <3> QED BY <1>4, <3>3 DEF Holding, Begun
  <2> QED BY <1>1, <1>2, <2>1, <2>2 DEF Fit, Numbered
<1>6. Proven(q)'
  BY <1>1, <1>2 DEF Fit, Proven
<1>7. EarlierEnded(q)'
  <2>1. given \subseteq Operation
    BY DEF NativeInv, NativeTypeOK
  <2> QED BY <1>1, <1>2, <2>1 DEF Fit, EarlierEnded, JournalsGrow
<1> QED BY <1>3, <1>5, <1>6, <1>7 DEF Fit

LEMMA WorkerIsOne ==
  ASSUME NativeTypeOK, NEW p \in Process, NEW w, WorkerIs(p, w)
  PROVE  worker'[p] = w /\ \A q \in Process \ {p} : worker'[q] = worker[q]
  BY DEF NativeTypeOK, WorkerIs

\* The lock stays with who has it, and goes to who finds it free.
LEMMA StillAlone ==
  ASSUME NativeInv, NEW p \in Process, NEW w, WorkerIs(p, w),
         w.step \in Holding =>
           \/ worker[p].step \in Holding /\ worker[p].target = w.target
           \/ TargetFree(w.target)
  PROVE  Alone'
<1>1. \A q \in Process : worker[q].step \in Holding => q \in Holder(worker[q].target)
  BY DEF Holder, Holding, Begun
<1>2. w.step \in Holding => \A q \in Process \ {p} :
        ~(worker[q].step \in Holding /\ worker[q].target = w.target)
  BY <1>1 DEF NativeInv, Alone, TargetFree
<1>3. NativeTypeOK
  BY DEF NativeInv
<1> QED BY <1>2, <1>3, WorkerIsOne DEF NativeInv, Alone

\* A step of one process that leaves journals, pins and the provider alone.
LEMMA MoveKeeps ==
  ASSUME NativeInv, NativeTypeOK', NEW p \in Process, NEW w, WorkerIs(p, w),
         UNCHANGED <<journal, pins, given, flight>>, Fit(p)',
         w.step \in Holding =>
           \/ worker[p].step \in Holding /\ worker[p].target = w.target
           \/ TargetFree(w.target)
  PROVE  NativeInv'
<1>1. \A q \in Process \ {p} : Fit(q)'
  BY WorkerIsOne, SameJournals, OthersFit DEF NativeInv, NativeTypeOK
<1>2. Alone'
  BY StillAlone
<1>3. PinsInOrder' /\ RecordsAreTrue' /\ OneInFlight'
  BY DEF NativeInv, PinsInOrder, RecordsAreTrue, OneInFlight
<1>4. GivenIsOnDisk'
  BY DEF NativeInv, GivenIsOnDisk, OnDisk
<1> QED BY <1>1, <1>2, <1>3, <1>4 DEF NativeInv

\* A process that has not the session, or has no longer, promises nothing.
LEMMA RestFits ==
  ASSUME NativeTypeOK, NEW p \in Process, NEW w, WorkerIs(p, w), w.step \notin Holding, ~w.proof,
         w.step = "idle" => w = NoWork, w.step # "idle" => w.target \in Target
  PROVE  Fit(p)'
  BY WorkerIsOne DEF Fit, Named, Numbered, Proven, EarlierEnded, Holding, Begun, Unsent

LEMMA RestKeeps ==
  ASSUME NativeInv, NativeTypeOK', NEW p \in Process, NEW w, WorkerIs(p, w),
         w.step \notin Holding, ~w.proof,
         w.step = "idle" => w = NoWork, w.step # "idle" => w.target \in Target,
         UNCHANGED <<journal, pins, given, flight>>
  PROVE  NativeInv'
  BY RestFits, MoveKeeps DEF NativeInv

LEMMA AtIs ==
  ASSUME NativeTypeOK, NEW p \in Process, NEW step \in Steps, WorkerAt(p, step)
  PROVE  /\ WorkerIs(p, [worker[p] EXCEPT !.step = step])
         /\ [worker[p] EXCEPT !.step = step] \in WorkType
         /\ [worker[p] EXCEPT !.step = step].step = step
         /\ [worker[p] EXCEPT !.step = step].target = worker[p].target
         /\ [worker[p] EXCEPT !.step = step].op = worker[p].op
         /\ [worker[p] EXCEPT !.step = step].proof = worker[p].proof
<1>1. worker[p] \in WorkType
  BY DEF NativeTypeOK, WorkType
<1>2. WorkerIs(p, [worker[p] EXCEPT !.step = step])
  BY DEF WorkerAt, WorkerIs
<1> QED BY <1>1, <1>2 DEF WorkType

LEMMA TypedBy ==
  ASSUME NativeTypeOK, NEW p \in Process, NEW w \in WorkType, WorkerIs(p, w),
         artifacts' \subseteq Target,
         registry' \in [lines: SUBSET Target, synced: SUBSET Target, torn: BOOLEAN],
         directory' \in Process \cup {Nobody}, journal' \in [Target -> JournalType],
         pins' \subseteq Operation, given' \subseteq Operation, flight' \subseteq given',
         faults' \in 0..MaxFaults, cuts' \in 0..MaxCuts
  PROVE  NativeTypeOK'
  BY DEF NativeTypeOK, WorkerIs, WorkType, JournalType

\* Entering: the registry and the session's files.
LEMMA EnterKeeps ==
  ASSUME NativeInv, NEW p \in Process, NEW t \in Target, Enter(p, t)
  PROVE  NativeInv'
<1> DEFINE w == [NoWork EXCEPT !.step = "custody", !.target = t]
<1>1. w \in WorkType /\ w.step = "custody" /\ w.target = t /\ w.proof = NoWork.proof
  BY NoWorkTyped DEF WorkType, Steps
<1>2. w.step \notin Holding /\ w.step # "idle" /\ ~w.proof
  BY <1>1, NoWorkTyped DEF Holding, Begun
<1>3. WorkerIs(p, w) /\ directory' = p
      /\ UNCHANGED <<artifacts, registry, journal, pins, given, flight, faults, cuts>>
  BY DEF Enter
<1> HIDE DEF w
<1>4. NativeTypeOK'
  BY <1>1, <1>3, TypedBy DEF NativeInv, NativeTypeOK, JournalType
<1> QED BY <1>1, <1>2, <1>3, <1>4, RestKeeps

LEMMA CreateFilesKeeps ==
  ASSUME NativeInv, NEW p \in Process, CreateFiles(p)
  PROVE  NativeInv'
<1> DEFINE w == [worker[p] EXCEPT !.step = "files"]
<1>0. NativeTypeOK /\ Named(p) /\ worker[p].step = "custody" /\ "files" \in Steps
  BY DEF NativeInv, Fit, CreateFiles, Steps
<1>1. /\ artifacts' = artifacts \cup {worker[p].target} /\ WorkerAt(p, "files")
      /\ UNCHANGED <<registry, directory, journal, pins, given, flight, faults, cuts>>
  BY DEF CreateFiles
<1>2. /\ WorkerIs(p, w) /\ w \in WorkType /\ w.step = "files" /\ ~w.proof /\ w.target \in Target
      /\ w.step \notin Holding
  BY <1>0, <1>1, AtIs DEF Named, Holding, Begun
<1> HIDE DEF w
<1>3. NativeTypeOK'
  BY <1>0, <1>1, <1>2, TypedBy DEF NativeTypeOK, JournalType, Named
<1> QED BY <1>1, <1>2, <1>3, RestKeeps

LEMMA OutcomeTyped ==
  ASSUME NativeTypeOK, NEW outcome \in Outcomes, Counted(outcome)
  PROVE  /\ outcome.reaches \in BOOLEAN /\ outcome.torn \in BOOLEAN /\ outcome.synced \in BOOLEAN
         /\ faults' \in 0..MaxFaults
<1>1. faults' \in 0..MaxFaults
  BY BoundAssumption DEF NativeTypeOK, Outcomes, Counted
<1>2. Whole.reaches \in BOOLEAN /\ Whole.torn \in BOOLEAN /\ Whole.synced \in BOOLEAN
  BY DEF Whole
<1>3. Torn.reaches \in BOOLEAN /\ Torn.torn \in BOOLEAN /\ Torn.synced \in BOOLEAN
  BY DEF Torn
<1>4. Unsynced.reaches \in BOOLEAN /\ Unsynced.torn \in BOOLEAN /\ Unsynced.synced \in BOOLEAN
  BY DEF Unsynced, Whole
<1>5. Nothing.reaches \in BOOLEAN /\ Nothing.torn \in BOOLEAN /\ Nothing.synced \in BOOLEAN
  BY DEF Nothing, Torn
<1> QED BY <1>1, <1>2, <1>3, <1>4, <1>5 DEF Outcomes

LEMMA AddLineKeeps ==
  ASSUME NativeInv, NEW p \in Process, AddLine(p)
  PROVE  NativeInv'
<1> DEFINE t == worker[p].target
<1>0. NativeTypeOK /\ Named(p) /\ worker[p].step = "files" /\ "registered" \in Steps /\ t \in Target
  BY DEF NativeInv, Fit, AddLine, Steps, Named
<1>1. PICK outcome \in Outcomes :
        /\ Counted(outcome)
        /\ registry' =
             [lines |-> IF outcome.reaches THEN registry.lines \cup {t} ELSE registry.lines,
              synced |-> IF outcome.synced THEN registry.lines \cup {t} ELSE registry.synced,
              torn |-> outcome.torn]
        /\ IF outcome = Whole
           THEN WorkerAt(p, "registered") /\ UNCHANGED directory
           ELSE WorkerIs(p, NoWork) /\ directory' = Nobody
  BY DEF AddLine
<1>2. UNCHANGED <<artifacts, journal, pins, given, flight, cuts>>
  BY DEF AddLine
<1>3. /\ registry' \in [lines: SUBSET Target, synced: SUBSET Target, torn: BOOLEAN]
      /\ faults' \in 0..MaxFaults
  BY <1>0, <1>1, OutcomeTyped DEF NativeTypeOK
<1>4. CASE WorkerAt(p, "registered") /\ UNCHANGED directory
  <2> DEFINE w == [worker[p] EXCEPT !.step = "registered"]
  <2>1. /\ WorkerIs(p, w) /\ w \in WorkType /\ w.step = "registered" /\ ~w.proof /\ w.target \in Target
        /\ w.step \notin Holding
    BY <1>0, <1>4, AtIs DEF Named, Holding, Begun
  <2> HIDE DEF w
  <2>2. NativeTypeOK'
    BY <1>0, <1>2, <1>3, <1>4, <2>1, TypedBy DEF NativeTypeOK, JournalType
  <2> QED BY <1>2, <2>1, <2>2, RestKeeps
<1>5. CASE WorkerIs(p, NoWork) /\ directory' = Nobody
  <2>1. NativeTypeOK'
    BY <1>0, <1>2, <1>3, <1>5, NoWorkTyped, TypedBy DEF NativeTypeOK, JournalType
  <2> QED BY <1>2, <1>5, <2>1, NoWorkTyped, RestKeeps
<1> QED BY <1>1, <1>4, <1>5

\* Giving up and being killed look alike from outside.
LEMMA StopKeeps ==
  ASSUME NativeInv, NEW p \in Process, GiveUp(p) \/ KillWorker(p)
  PROVE  NativeInv'
<1>1. /\ WorkerIs(p, NoWork) /\ faults < MaxFaults /\ faults' = faults + 1
      /\ directory' \in {Nobody, directory}
      /\ UNCHANGED <<artifacts, registry, journal, pins, given, flight, cuts>>
  BY DEF GiveUp, KillWorker
<1>2. NativeTypeOK'
  <2>1. faults' \in 0..MaxFaults
    BY <1>1, BoundAssumption DEF NativeInv, NativeTypeOK
  <2> QED BY <1>1, <2>1, NoWorkTyped, TypedBy DEF NativeInv, NativeTypeOK, JournalType
<1> QED BY <1>1, <1>2, NoWorkTyped, RestKeeps

\* A journal that is legal and ends with nothing unresolved shows of every
\* request in it that it ended: a dispatched one is followed by its outcome,
\* and an unknown outcome by its reconciliation.
LEMMA ReadableEnds ==
  ASSUME NativeInv, NEW t \in Target, JournalReadable(t), ~Fenced(t),
         NEW e \in given, e[1] = t
  PROVE  KnownEnded(e)
<1> DEFINE recs == journal[t].records
<1>1. /\ recs \in Seq(Record) /\ Len(recs) \in Nat /\ journal[t].synced <= Len(recs)
      /\ journal[t].synced \in Nat
  BY DEF NativeInv, NativeTypeOK, GivenIsOnDisk
<1>2. PICK i \in 1..Len(recs) : recs[i] = [op |-> e[2], state |-> "dispatched", proof |-> FALSE]
  BY <1>1 DEF NativeInv, GivenIsOnDisk, OnDisk
<1>3. \A j \in 1..Len(recs) : j > 1 => Follows(t, recs[j - 1], recs[j])
  BY DEF JournalReadable, Legal
<1>4. recs # <<>> => ~Unresolved(recs[Len(recs)].state)
  BY DEF Fenced, Last
<1>5. i # Len(recs) /\ i + 1 \in 1..Len(recs)
  BY <1>1, <1>2, <1>4 DEF Unresolved
<1>6. Follows(t, recs[i], recs[i + 1])
  BY <1>1, <1>3, <1>5
<1>7. recs[i + 1].op = e[2] /\ recs[i + 1].state \in {"applied", "noop", "unknown"}
  BY <1>2, <1>6 DEF Follows, Unresolved, Transitions, CanReconcile
<1>8. CASE recs[i + 1].state = "unknown"
  <2>1. i + 1 # Len(recs) /\ i + 2 \in 1..Len(recs)
    BY <1>1, <1>2, <1>4, <1>5, <1>8 DEF Unresolved
  <2>2. Follows(t, recs[i + 1], recs[i + 2])
    BY <1>1, <1>3, <2>1
  <2>3. recs[i + 2].op = e[2] /\ recs[i + 2].state = "reconciled"
    BY <1>7, <1>8, <2>2 DEF Follows, Unresolved, Transitions
  <2> QED BY <2>1, <2>3 DEF KnownEnded
<1>9. CASE recs[i + 1].state \in {"applied", "noop"}
  BY <1>5, <1>7, <1>9 DEF KnownEnded
<1> QED BY <1>7, <1>8, <1>9

\* The number of the next operation.
LEMMA NextNumber ==
  ASSUME NativeInv, NEW t \in Target
  PROVE  /\ 1 + Cardinality({n \in 1..MaxOps : <<t, n>> \in pins}) \in Nat \ {0}
         /\ \A n \in 1..MaxOps :
              <<t, n>> \in pins <=> n < 1 + Cardinality({m \in 1..MaxOps : <<t, m>> \in pins})
<1>1. PICK k \in 0..MaxOps : \A n \in 1..MaxOps : <<t, n>> \in pins <=> n <= k
  BY DEF NativeInv, PinsInOrder
<1>2. {n \in 1..MaxOps : <<t, n>> \in pins} = 1..k
  BY <1>1, BoundAssumption
<1>3. k \in Nat /\ MaxOps \in Nat
  BY BoundAssumption
<1>4. Cardinality(1..k) = k
  BY <1>3, FS_Interval
<1>5. Cardinality({n \in 1..MaxOps : <<t, n>> \in pins}) = k
  BY <1>2, <1>4
<1>6. 1 + k \in Nat \ {0} /\ \A n \in 1..MaxOps : <<t, n>> \in pins <=> n < 1 + k
  BY <1>1, <1>3
<1> QED BY <1>5, <1>6, Zenon

LEMMA ClaimKeeps ==
  ASSUME NativeInv, NEW p \in Process, Claim(p)
  PROVE  NativeInv'
<1> DEFINE t == worker[p].target
           op == 1 + Cardinality({n \in 1..MaxOps : <<t, n>> \in pins})
<1>0. NativeTypeOK /\ Named(p) /\ worker[p].step \in Waiting /\ t \in Target /\ worker[p] \in WorkType
      /\ ~worker[p].proof
  BY DEF NativeInv, Fit, Claim, Named, Waiting, NativeTypeOK, WorkType
<1>1. directory' = Nobody /\ UNCHANGED <<artifacts, registry, journal, pins, given, flight, faults, cuts>>
  BY DEF Claim
<1>2. CASE /\ TargetFree(t) /\ JournalReadable(t) /\ ~Fenced(t) /\ op <= MaxOps
           /\ worker' = [worker EXCEPT ![p].step = "claimed", ![p].op = op]
  <2> DEFINE w == [worker[p] EXCEPT !.step = "claimed", !.op = op]
  <2>1. op \in 1..MaxOps /\ \A n \in 1..MaxOps : <<t, n>> \in pins <=> n < op
    BY <1>0, <1>2, NextNumber, BoundAssumption
  <2> HIDE DEF op
  <2>2. WorkerIs(p, w)
    BY <1>2 DEF WorkerIs
  <2>3. w \in WorkType /\ w.step = "claimed" /\ w.op = op /\ w.target = t /\ ~w.proof
    <3>1. op \in 0..MaxOps /\ "claimed" \in Steps
      BY <2>1, BoundAssumption DEF Steps
    <3> QED BY <1>0, <3>1 DEF WorkType
  <2> HIDE DEF w
  <2>4. NativeTypeOK'
    BY <1>0, <1>1, <2>2, <2>3, TypedBy DEF NativeTypeOK, JournalType
  <2>5. Named(p)' /\ Numbered(p)' /\ Proven(p)'
    BY <1>0, <1>1, <2>1, <2>2, <2>3, WorkerIsOne DEF Named, Numbered, Proven, Begun, Unsent
  <2>6. EarlierEnded(p)'
    <3>1. \A e \in given : e[1] = t => KnownEnded(e)
      BY <1>0, <1>2, ReadableEnds
    <3>2. \A e \in given : KnownEnded(e) => KnownEnded(e)'
      BY <1>1 DEF KnownEnded
    <3> QED BY <1>0, <1>1, <2>2, <2>3, <3>1, <3>2, WorkerIsOne DEF EarlierEnded
  <2> QED BY <1>1, <1>2, <2>2, <2>3, <2>4, <2>5, <2>6, MoveKeeps DEF Fit
<1>3. CASE WorkerIs(p, NoWork)
  <2>1. NativeTypeOK'
    BY <1>0, <1>1, <1>3, NoWorkTyped, TypedBy DEF NativeTypeOK, JournalType
  <2> QED BY <1>1, <1>3, <2>1, NoWorkTyped, RestKeeps
<1> QED BY <1>2, <1>3 DEF Claim

\* The answer, or none.
LEMMA AnsweredKeeps ==
  ASSUME NativeInv, NEW p \in Process, NEW w \in WorkType, WorkerIs(p, w),
         worker[p].step \in {"dispatched", "sent"},
         w.step = "answered", w.target = worker[p].target, w.op = worker[p].op,
         w.proof => worker[p].step = "sent" /\ Mine(p) \notin flight,
         UNCHANGED <<artifacts, registry, directory, journal, pins, given, flight, faults, cuts>>
  PROVE  NativeInv'
<1>0. NativeTypeOK /\ Named(p) /\ Numbered(p)
  BY DEF NativeInv, Fit
<1>1. NativeTypeOK'
  BY <1>0, TypedBy DEF NativeTypeOK, JournalType
<1>2. Mine(p)' = Mine(p)
  BY <1>0, WorkerIsOne DEF Mine
<1>3. Named(p)' /\ Numbered(p)' /\ Proven(p)' /\ EarlierEnded(p)'
  BY <1>0, <1>2, WorkerIsOne DEF Named, Numbered, Proven, EarlierEnded, Holding, Begun, Unsent
<1> QED BY <1>1, <1>3, MoveKeeps DEF Fit, Holding, Begun

LEMMA AnswerKeeps ==
  ASSUME NativeInv, NEW p \in Process, CannotSpawn(p) \/ Answer(p) \/ NoAnswer(p)
  PROVE  NativeInv'
<1>0. NativeTypeOK /\ worker[p] \in WorkType /\ ~worker[p].proof /\ "answered" \in Steps
  BY DEF NativeInv, Fit, Named, CannotSpawn, Answer, NoAnswer, NativeTypeOK, WorkType, Steps
<1>1. CASE Answer(p)
  <2> DEFINE w == [worker[p] EXCEPT !.step = "answered", !.proof = TRUE]
  <2>1. WorkerIs(p, w) /\ w \in WorkType /\ w.step = "answered" /\ w.target = worker[p].target
        /\ w.op = worker[p].op
    BY <1>0, <1>1 DEF Answer, WorkerIs, WorkType
  <2> QED BY <1>1, <2>1, AnsweredKeeps DEF Answer
<1>2. CASE CannotSpawn(p) \/ NoAnswer(p)
  <2> DEFINE w == [worker[p] EXCEPT !.step = "answered"]
  <2>1. WorkerIs(p, w) /\ w \in WorkType /\ w.step = "answered" /\ w.target = worker[p].target
        /\ w.op = worker[p].op /\ ~w.proof
    BY <1>0, <1>2, AtIs DEF CannotSpawn, NoAnswer
  <2> QED BY <1>2, <2>1, AnsweredKeeps DEF CannotSpawn, NoAnswer
<1> QED BY <1>1, <1>2

\* The snapshot is pinned: the number is taken.
LEMMA RetainKeeps ==
  ASSUME NativeInv, NEW p \in Process, RetainSnapshot(p)
  PROVE  NativeInv'
<1> DEFINE t == worker[p].target  op == worker[p].op  w == [worker[p] EXCEPT !.step = "pinned"]
<1>0. /\ NativeTypeOK /\ Named(p) /\ Numbered(p) /\ EarlierEnded(p) /\ worker[p].step = "claimed"
      /\ "pinned" \in Steps /\ pins' = pins \cup {<<t, op>>} /\ WorkerAt(p, "pinned")
      /\ UNCHANGED <<artifacts, registry, directory, journal, given, flight, faults, cuts>>
  BY DEF NativeInv, Fit, RetainSnapshot, Steps
<1>1. /\ t \in Target /\ op \in 1..MaxOps /\ ~worker[p].proof /\ <<t, op>> \notin pins
      /\ \A n \in 1..MaxOps : <<t, n>> \in pins <=> n < op
  BY <1>0, BoundAssumption DEF Named, Numbered, Holding, Begun
<1>2. WorkerIs(p, w) /\ w \in WorkType /\ w.step = "pinned" /\ w.target = t /\ w.op = op /\ ~w.proof
  BY <1>0, <1>1, AtIs
<1> HIDE DEF w
<1>3. worker'[p] = w /\ Mine(p)' = <<t, op>> /\ \A q \in Process \ {p} : worker'[q] = worker[q]
  BY <1>0, <1>2, WorkerIsOne DEF Mine
<1>4. NativeTypeOK'
  <2>1. pins' \subseteq Operation
    BY <1>0, <1>1 DEF NativeTypeOK, Operation
  <2> QED BY <1>0, <1>2, <2>1, TypedBy DEF NativeTypeOK, JournalType
<1>5. <<t, op>> \notin given
  BY <1>1 DEF NativeInv, GivenIsOnDisk
<1>6. Fit(p)'
  <2>1. Named(p)' /\ Numbered(p)' /\ Proven(p)'
    BY <1>0, <1>1, <1>2, <1>3, <1>5 DEF Named, Numbered, Proven, Begun, Unsent
  <2>2. EarlierEnded(p)'
    BY <1>0, <1>2, <1>3 DEF EarlierEnded, KnownEnded
  <2> QED BY <2>1, <2>2 DEF Fit
<1>7. \A q \in Process \ {p} : Fit(q)'
  <2> SUFFICES ASSUME NEW q \in Process \ {p} PROVE Fit(q)'
    OBVIOUS
  <2>1. worker[q].step = "claimed" => worker[q].target # t
    BY <1>0 DEF NativeInv, Alone, Holding
  <2>2. JournalsGrow
    BY <1>0, SameJournals
  <2> QED BY <1>0, <1>3, <1>4, <2>1, <2>2, OthersFit
<1>8. Alone'
  BY <1>0, <1>2, StillAlone DEF Holding, Begun
<1>9. PinsInOrder'
  <2>1. \A n \in 1..MaxOps : <<t, n>> \in pins' <=> n <= op
    BY <1>0, <1>1, BoundAssumption
  <2>2. op \in 0..MaxOps
    BY <1>1
  <2>3. \A s \in Target : s # t => \A n \in 1..MaxOps : <<s, n>> \in pins' <=> <<s, n>> \in pins
    BY <1>0
  <2> HIDE DEF op, t
  <2>4. PinsInOrder
    BY DEF NativeInv
  <2> QED BY <2>1, <2>2, <2>3, <2>4 DEF PinsInOrder
<1>10. GivenIsOnDisk' /\ RecordsAreTrue' /\ OneInFlight'
  BY <1>0 DEF NativeInv, GivenIsOnDisk, OnDisk, RecordsAreTrue, OneInFlight
<1> QED BY <1>4, <1>6, <1>7, <1>8, <1>9, <1>10 DEF NativeInv

\* One more record of an operation under way, or of one that is reconciled.
LEMMA RecordsStayTrue ==
  ASSUME NativeInv, NEW t \in Target, NEW r \in Record, NEW outcome \in Outcomes,
         journal' = [journal EXCEPT ![t] = Append1(@, r, outcome)], UNCHANGED <<pins, given, flight>>,
         r.proof => <<t, r.op>> \in given \ flight, r.state \in Closing => r.proof
  PROVE  JournalsGrow /\ RecordsAreTrue' /\ GivenIsOnDisk' /\ PinsInOrder' /\ OneInFlight'
<1>1. NativeTypeOK /\ GivenIsOnDisk /\ given \subseteq Operation
  BY DEF NativeInv, NativeTypeOK
<1>2. JournalsGrow
  BY <1>1, AppendGrows DEF JournalsGrow
<1>3. RecordsAreTrue'
  <2> SUFFICES ASSUME NEW s \in Target, NEW i \in 1..Len(journal'[s].records)
               PROVE  /\ journal'[s].records[i].proof =>
                           <<s, journal'[s].records[i].op>> \in given \ flight
                      /\ journal'[s].records[i].state \in Closing => journal'[s].records[i].proof
    BY DEF RecordsAreTrue
  <2>1. \/ (i \in 1..Len(journal[s].records) /\ journal'[s].records[i] = journal[s].records[i])
        \/ (s = t /\ journal'[s].records[i] = r)
    <3>1. NothingButAdds(t, r)
      BY <1>1, AppendGrows
    <3> QED BY <3>1 DEF NothingButAdds
  <2> QED BY <2>1 DEF NativeInv, RecordsAreTrue
<1>4. GivenIsOnDisk'
  BY <1>1, <1>2, AppendGrows DEF GivenIsOnDisk, JournalsGrow
<1> QED BY <1>2, <1>3, <1>4 DEF NativeInv, PinsInOrder, OneInFlight

\* The lines of an operation: prepared, dispatched, and what became of it.
LEMMA AppendsKeeps ==
  ASSUME NativeInv, NEW p \in Process, NEW state \in States,
         NEW step \in {"prepared", "dispatched", "idle"}, Appends(p, state, step),
         \/ worker[p].step = "pinned" /\ step = "prepared" /\ state = "prepared"
         \/ worker[p].step = "prepared" /\ step = "dispatched" /\ state = "dispatched"
         \/ worker[p].step = "answered" /\ step = "idle" /\ (state \in Closing => worker[p].proof)
  PROVE  NativeInv'
<1> DEFINE t == worker[p].target
           r == [op |-> worker[p].op, state |-> state, proof |-> worker[p].proof]
<1>0. /\ NativeTypeOK /\ Named(p) /\ Numbered(p) /\ Proven(p) /\ EarlierEnded(p)
      /\ worker[p] \in WorkType /\ t \in Target /\ worker[p].op \in 1..MaxOps
      /\ GivenIsOnDisk /\ given \subseteq Operation
  BY DEF NativeInv, Fit, Named, NativeTypeOK, WorkType, Holding, Begun
<1>1. PICK outcome \in Outcomes :
        /\ Counted(outcome)
        /\ journal' = [journal EXCEPT ![t] = Append1(@, r, outcome)]
        /\ IF Durable(outcome) /\ step # "idle" THEN WorkerAt(p, step) ELSE WorkerIs(p, NoWork)
        /\ UNCHANGED <<artifacts, registry, directory, pins, given, flight, cuts>>
  BY DEF Appends
<1>2. /\ r \in Record /\ r.proof = worker[p].proof /\ r.op = worker[p].op /\ r.state = state
      /\ <<t, r.op>> = Mine(p)
  BY <1>0 DEF Record, WorkType, Mine
<1>3. (r.proof => <<t, r.op>> \in given \ flight) /\ (r.state \in Closing => r.proof)
  BY <1>0, <1>2 DEF Proven, Closing
<1> HIDE DEF r
<1>4. JournalsGrow /\ RecordsAreTrue' /\ GivenIsOnDisk' /\ PinsInOrder' /\ OneInFlight'
  BY <1>0, <1>1, <1>2, <1>3, RecordsStayTrue
<1>5. journal' \in [Target -> JournalType] /\ faults' \in 0..MaxFaults
  BY <1>0, <1>1, <1>2, AppendGrows, OutcomeTyped
<1>6. ASSUME NEW w \in WorkType, WorkerIs(p, w), Fit(p)',
             w.step \in Holding => worker[p].step \in Holding /\ w.target = t
      PROVE  NativeInv'
  <2>1. NativeTypeOK'
    BY <1>0, <1>1, <1>5, <1>6, TypedBy DEF NativeTypeOK
  <2>2. \A q \in Process \ {p} : Fit(q)'
    BY <1>0, <1>1, <1>4, <1>6, <2>1, WorkerIsOne, OthersFit
  <2>3. Alone'
    BY <1>6, StillAlone
  <2> QED BY <1>4, <1>6, <2>1, <2>2, <2>3 DEF NativeInv
<1>7. CASE WorkerIs(p, NoWork)
  BY <1>0, <1>6, <1>7, NoWorkTyped, RestFits
<1>8. CASE Durable(outcome) /\ step # "idle" /\ WorkerAt(p, step)
  <2> DEFINE w == [worker[p] EXCEPT !.step = step]
  <2>1. /\ WorkerIs(p, w) /\ w \in WorkType /\ w.step = step /\ w.target = t
        /\ w.op = worker[p].op /\ w.proof = worker[p].proof
    <3>1. step \in Steps
      BY DEF Steps
    <3> QED BY <1>0, <1>8, <3>1, AtIs
  <2> HIDE DEF w
  <2>2. worker'[p] = w /\ Mine(p)' = Mine(p) /\ worker[p].step \in {"pinned", "prepared"}
    BY <1>0, <1>8, <2>1, WorkerIsOne DEF Mine
  <2>3. ~worker[p].proof /\ Mine(p) \in pins /\ Mine(p) \notin given
    BY <1>0, <2>2 DEF Named, Numbered, Begun, Unsent
  <2>4. step = "dispatched" => OnDisk(Mine(p))'
    <3>0. outcome = Whole /\ (step = "dispatched" => r.state = "dispatched" /\ ~r.proof)
      BY <1>2, <1>8, <2>2, <2>3 DEF Durable
    <3>1. step = "dispatched" =>
            \E i \in 1..journal'[t].synced :
              journal'[t].records[i] = [op |-> r.op, state |-> "dispatched", proof |-> FALSE]
      <4> HIDE DEF t
      <4> QED BY <1>0, <1>1, <1>2, <3>0, AppendGrows
    <3>2. Mine(p)'[1] = t /\ Mine(p)'[2] = r.op
      BY <1>2, <2>1, <2>2 DEF Mine
    <3> QED BY <3>1, <3>2 DEF OnDisk
  <2>5. Named(p)' /\ Numbered(p)' /\ Proven(p)'
    BY <1>0, <1>1, <2>1, <2>2, <2>3, <2>4 DEF Named, Numbered, Proven, Holding, Begun, Unsent
  <2>6. EarlierEnded(p)'
    BY <1>0, <1>1, <1>4, <2>1, <2>2 DEF EarlierEnded, JournalsGrow, Unsent
  <2> QED BY <1>6, <2>1, <2>2, <2>5, <2>6 DEF Fit, Holding, Begun
<1> QED BY <1>1, <1>7, <1>8

\* The command that reconciles repeats the last record, whose evidence is true.
LEMMA ReconcileKeeps ==
  ASSUME NativeInv, NEW t \in Target, Reconcile(t)
  PROVE  NativeInv'
<1> DEFINE last == journal[t].records[Len(journal[t].records)]
           r == [last EXCEPT !.state = "reconciled"]
<1>0. /\ NativeTypeOK /\ GivenIsOnDisk /\ RecordsAreTrue
      /\ UNCHANGED <<artifacts, registry, directory, pins, worker, given, flight, cuts>>
  BY DEF NativeInv, Reconcile
<1>1. /\ journal[t].records # <<>> /\ CanReconcile(t, last)
      /\ \E outcome \in Outcomes :
           Counted(outcome) /\ journal' = [journal EXCEPT ![t] = Append1(@, r, outcome)]
  BY DEF Reconcile, Last
<1>2. PICK outcome \in Outcomes :
        Counted(outcome) /\ journal' = [journal EXCEPT ![t] = Append1(@, r, outcome)]
  BY <1>1
<1>3. Len(journal[t].records) \in 1..Len(journal[t].records) /\ last \in Record
  BY <1>0, <1>1 DEF NativeTypeOK
<1>4. last.proof /\ <<t, last.op>> \in given \ flight
  BY <1>0, <1>1, <1>3 DEF CanReconcile, RecordsAreTrue
<1> HIDE DEF last
<1>5. r \in Record /\ r.proof = last.proof /\ r.op = last.op
  BY <1>3 DEF Record, States
<1> HIDE DEF r
<1>6. JournalsGrow /\ RecordsAreTrue' /\ GivenIsOnDisk' /\ PinsInOrder' /\ OneInFlight'
  BY <1>0, <1>2, <1>4, <1>5, RecordsStayTrue
<1>7. NativeTypeOK'
  <2>1. journal' \in [Target -> JournalType] /\ faults' \in 0..MaxFaults
    BY <1>0, <1>2, <1>5, AppendGrows, OutcomeTyped
  <2> QED BY <1>0, <2>1 DEF NativeTypeOK, JournalType
<1>8. \A q \in Process : Fit(q)'
  BY <1>0, <1>6, <1>7, OthersFit
<1>9. Alone'
  BY <1>0 DEF NativeInv, Alone
<1> QED BY <1>6, <1>7, <1>8, <1>9 DEF NativeInv

\* A turn that is known to have ended is not in flight.
LEMMA KnownIsOver ==
  ASSUME NativeInv, NEW e \in given, KnownEnded(e)
  PROVE  e \notin flight
<1>1. e \in Operation /\ e = <<e[1], e[2]>> /\ e[1] \in Target
  BY DEF NativeInv, NativeTypeOK, Operation
<1>2. PICK i \in 1..Len(journal[e[1]].records) :
        journal[e[1]].records[i].op = e[2] /\ journal[e[1]].records[i].state \in Closing
  BY DEF KnownEnded, Closing
<1>3. <<e[1], e[2]>> \in given \ flight
  BY <1>1, <1>2 DEF NativeInv, RecordsAreTrue
<1> QED BY <1>1, <1>3

\* What is so when a request is sent.
LEMMA SendsOnce ==
  ASSUME NativeInv, NEW p \in Process, Send(p)
  PROVE  /\ worker[p].target \in Target /\ Mine(p) \in Operation
         /\ Mine(p) \notin given /\ Mine(p) \in pins /\ OnDisk(Mine(p))
         /\ \A e \in given : e[1] = worker[p].target => KnownEnded(e) /\ e \notin flight
<1>1. Named(p) /\ Numbered(p) /\ EarlierEnded(p) /\ worker[p].step = "dispatched"
  BY DEF NativeInv, Fit, Send
<1>2. worker[p].target \in Target /\ Mine(p) \in Operation
  BY <1>1 DEF Named, Mine, Operation, Holding, Begun
<1>3. Mine(p) \notin given /\ Mine(p) \in pins /\ OnDisk(Mine(p))
  BY <1>1 DEF Numbered, Begun, Unsent
<1>4. \A e \in given : e[1] = worker[p].target => KnownEnded(e)
  BY <1>1 DEF EarlierEnded, Unsent
<1> QED BY <1>2, <1>3, <1>4, KnownIsOver

LEMMA SendKeeps ==
  ASSUME NativeInv, NEW p \in Process, Send(p)
  PROVE  NativeInv'
<1> DEFINE o == Mine(p)  t == worker[p].target  w == [worker[p] EXCEPT !.step = "sent"]
<1>0. /\ NativeTypeOK /\ Fit(p) /\ worker[p].step = "dispatched" /\ "sent" \in Steps
      /\ given' = given \cup {o} /\ flight' = flight \cup {o} /\ WorkerAt(p, "sent")
      /\ UNCHANGED <<artifacts, registry, directory, journal, pins, faults, cuts>>
  BY DEF NativeInv, Send, Steps
<1>1. /\ t \in Target /\ o \in Operation /\ o[1] = t /\ o \notin given /\ o \in pins /\ OnDisk(o)
      /\ \A e \in given : e[1] = t => e \notin flight
  BY SendsOnce DEF Mine
<1>2. /\ WorkerIs(p, w) /\ w \in WorkType /\ w.step = "sent" /\ w.target = t
      /\ w.op = worker[p].op /\ w.proof = worker[p].proof /\ ~worker[p].proof
      /\ worker[p].op \in 1..MaxOps
  BY <1>0, AtIs DEF Fit, Named, Holding, Begun
<1> HIDE DEF w
<1>3. worker'[p] = w /\ Mine(p)' = o /\ \A q \in Process \ {p} : worker'[q] = worker[q]
  BY <1>0, <1>2, WorkerIsOne DEF Mine
<1> HIDE DEF o
<1>4. NativeTypeOK'
  <2>1. given' \subseteq Operation /\ flight' \subseteq given'
    BY <1>0, <1>1 DEF NativeTypeOK
  <2> QED BY <1>0, <1>2, <2>1, TypedBy DEF NativeTypeOK, JournalType
<1>5. Fit(p)'
  BY <1>0, <1>1, <1>2, <1>3 DEF Fit, Named, Numbered, Proven, EarlierEnded, Holding, Begun, Unsent
<1>6. \A q \in Process \ {p} : Fit(q)'
  <2> SUFFICES ASSUME NEW q \in Process \ {p} PROVE Fit(q)'
    OBVIOUS
  <2>1. worker[q].step \in Unsent \cup {"claimed"} => worker[q].target # t
    BY <1>0 DEF NativeInv, Alone, Holding, Begun, Unsent
  <2>2. JournalsGrow
    BY <1>0, SameJournals
  <2>3. flight' \cap given \subseteq flight /\ pins' = pins /\ given \subseteq given'
    BY <1>0, <1>1
  <2>4. worker[q].step \in Unsent \cup {"claimed"} =>
          \A e \in given' : e[1] = worker[q].target => e \in given
    BY <1>0, <1>1, <2>1
  <2> QED BY <1>3, <1>4, <2>2, <2>3, <2>4, OthersFit
<1>7. Alone'
  BY <1>0, <1>2, StillAlone DEF Holding, Begun
<1>8. PinsInOrder' /\ GivenIsOnDisk'
  <2>1. \A e \in given' : e \in pins /\ OnDisk(e)
    BY <1>0, <1>1 DEF NativeInv, GivenIsOnDisk
  <2> QED BY <1>0, <2>1 DEF NativeInv, PinsInOrder, GivenIsOnDisk, OnDisk
<1>9. RecordsAreTrue'
  BY <1>0, <1>1 DEF NativeInv, RecordsAreTrue
<1>10. OneInFlight'
  <2>1. flight \subseteq given
    BY <1>0 DEF NativeTypeOK
  <2> QED BY <1>0, <1>1, <2>1 DEF NativeInv, OneInFlight
<1> QED BY <1>4, <1>5, <1>6, <1>7, <1>8, <1>9, <1>10 DEF NativeInv

LEMMA TurnEndsKeeps ==
  ASSUME NativeInv, NEW o \in Operation, TurnEnds(o)
  PROVE  NativeInv'
<1>0. NativeTypeOK /\ o \in flight /\ flight' = flight \ {o}
      /\ UNCHANGED <<artifacts, registry, directory, journal, pins, worker, given, faults, cuts>>
  BY DEF NativeInv, TurnEnds
<1>1. NativeTypeOK'
  BY <1>0 DEF NativeTypeOK
<1>2. \A q \in Process : Fit(q)'
  BY <1>0, <1>1, SameJournals, OthersFit
<1>3. Alone' /\ PinsInOrder' /\ GivenIsOnDisk'
  BY <1>0 DEF NativeInv, Alone, PinsInOrder, GivenIsOnDisk, OnDisk
<1>4. RecordsAreTrue' /\ OneInFlight'
  BY <1>0 DEF NativeInv, RecordsAreTrue, OneInFlight
<1> QED BY <1>1, <1>2, <1>3, <1>4 DEF NativeInv

\* Of a journal a power loss leaves a beginning, with all that was synced.
LEMMA SurvivorsBegin ==
  ASSUME NEW j \in JournalType, j.synced <= Len(j.records), NEW left, left \in Survives(j)
  PROVE  /\ left \in JournalType /\ j.synced <= left.synced /\ left.synced = Len(left.records)
         /\ Len(left.records) <= Len(j.records)
         /\ \A i \in 1..Len(left.records) : left.records[i] = j.records[i]
<1>1. j.records \in Seq(Record) /\ Len(j.records) \in Nat /\ j.synced \in Nat
  BY DEF JournalType
<1>2. PICK n \in j.synced..Len(j.records), torn \in BOOLEAN :
        left = [records |-> SubSeq(j.records, 1, n), synced |-> n, torn |-> torn]
  <2>1. PICK n \in j.synced..Len(j.records), torn \in MayTear(j) :
          left = [records |-> SubSeq(j.records, 1, n), synced |-> n, torn |-> torn]
    BY DEF Survives
  <2>2. MayTear(j) \subseteq BOOLEAN
    BY DEF MayTear
  <2> QED BY <2>1, <2>2
<1>3. n \in Nat /\ n <= Len(j.records)
  BY <1>1, <1>2
<1>4. SubSeq(j.records, 1, n) \in Seq(Record) /\ Len(SubSeq(j.records, 1, n)) = n
      /\ \A i \in 1..n : SubSeq(j.records, 1, n)[i] = j.records[i]
  BY <1>1, <1>3, SubSeqProperties
<1>5. left.records = SubSeq(j.records, 1, n) /\ left.synced = n /\ left \in JournalType
  BY <1>2, <1>3, <1>4 DEF JournalType
<1> QED BY <1>1, <1>2, <1>3, <1>4, <1>5

\* A power loss: nothing that was given looks unsent afterwards.
LEMMA PowerCutKeeps == NativeInv /\ PowerCut => NativeInv'
<1> SUFFICES ASSUME NativeInv, PowerCut PROVE NativeInv'
  OBVIOUS
<1>0. /\ NativeTypeOK /\ GivenIsOnDisk /\ cuts < MaxCuts /\ cuts' = cuts + 1
      /\ worker' = [p \in Process |-> NoWork] /\ directory' = Nobody
      /\ UNCHANGED <<artifacts, pins, given, flight, faults>>
  BY DEF NativeInv, PowerCut
<1>1. /\ journal' \in [Target -> UNION {Survives(journal[t]) : t \in Target}]
      /\ \A t \in Target : journal'[t] \in Survives(journal[t])
  BY DEF PowerCut
<1>2. \A t \in Target :
        /\ journal'[t] \in JournalType /\ journal[t].synced <= journal'[t].synced
        /\ journal'[t].synced = Len(journal'[t].records)
        /\ Len(journal'[t].records) <= Len(journal[t].records)
        /\ \A i \in 1..Len(journal'[t].records) : journal'[t].records[i] = journal[t].records[i]
  BY <1>0, <1>1, SurvivorsBegin DEF NativeTypeOK, JournalType, GivenIsOnDisk
<1>3. journal' \in [Target -> JournalType]
  BY <1>1, <1>2
<1>4. NativeTypeOK'
  <2>1. registry' \in [lines: SUBSET Target, synced: SUBSET Target, torn: BOOLEAN]
    BY DEF NativeInv, NativeTypeOK, PowerCut
  <2>2. worker' \in [Process -> WorkType]
    BY <1>0, NoWorkTyped
  <2>3. cuts' \in 0..MaxCuts
    BY <1>0, BoundAssumption DEF NativeTypeOK
  <2> QED BY <1>0, <1>3, <2>1, <2>2, <2>3 DEF NativeTypeOK, JournalType, WorkType
<1>5. (\A p \in Process : Fit(p)') /\ Alone'
  BY <1>0, NoWorkTyped
     DEF Fit, Named, Numbered, Proven, EarlierEnded, Alone, Holding, Begun, Unsent
<1>6. \A o \in given : OnDisk(o)'
  <2> SUFFICES ASSUME NEW o \in given PROVE OnDisk(o)'
    OBVIOUS
  <2>1. o[1] \in Target /\ OnDisk(o)
    BY <1>0 DEF NativeTypeOK, Operation, GivenIsOnDisk
  <2>2. PICK i \in 1..journal[o[1]].synced :
          journal[o[1]].records[i] = [op |-> o[2], state |-> "dispatched", proof |-> FALSE]
    BY <2>1 DEF OnDisk
  <2>3. journal[o[1]].synced \in Nat /\ journal'[o[1]].synced \in Nat
    BY <1>0, <1>2, <2>1 DEF NativeTypeOK, JournalType
  <2>4. i \in 1..journal'[o[1]].synced /\ i \in 1..Len(journal'[o[1]].records)
    BY <1>2, <2>1, <2>2, <2>3
  <2> QED BY <1>2, <2>1, <2>2, <2>4 DEF OnDisk
<1>7. GivenIsOnDisk'
  <2>1. \A t \in Target : journal'[t].synced <= Len(journal'[t].records)
    BY <1>2 DEF JournalType
  <2> QED BY <1>0, <1>6, <2>1 DEF GivenIsOnDisk
<1>8. RecordsAreTrue'
  <2> SUFFICES ASSUME NEW t \in Target, NEW i \in 1..Len(journal'[t].records)
               PROVE  /\ journal'[t].records[i].proof =>
                           <<t, journal'[t].records[i].op>> \in given \ flight
                      /\ journal'[t].records[i].state \in Closing => journal'[t].records[i].proof
    BY <1>0 DEF RecordsAreTrue
  <2>1. i \in 1..Len(journal[t].records) /\ journal'[t].records[i] = journal[t].records[i]
    BY <1>0, <1>2 DEF NativeTypeOK, JournalType
  <2> QED BY <2>1 DEF NativeInv, RecordsAreTrue
<1>9. PinsInOrder' /\ OneInFlight'
  BY <1>0 DEF NativeInv, PinsInOrder, OneInFlight
<1> QED BY <1>4, <1>5, <1>7, <1>8, <1>9 DEF NativeInv

-----------------------------------------------------------------------------
(* Native: theorems                                                        *)

LEMMA NextNativeInv == NativeInv /\ [NativeNext]_nvars => NativeInv'
<1> SUFFICES ASSUME NativeInv, [NativeNext]_nvars PROVE NativeInv'
  OBVIOUS
<1>1. ASSUME NEW p \in Process, \E t \in Target : Enter(p, t) PROVE NativeInv'
  BY <1>1, EnterKeeps
<1>2. ASSUME NEW p \in Process, CreateFiles(p) \/ AddLine(p) \/ Claim(p) \/ RetainSnapshot(p)
      PROVE  NativeInv'
  BY <1>2, CreateFilesKeeps, AddLineKeeps, ClaimKeeps, RetainKeeps
<1>3. ASSUME NEW p \in Process, Prepare(p) PROVE NativeInv'
  BY <1>3, AppendsKeeps DEF Prepare, States
<1>4. ASSUME NEW p \in Process, Dispatch(p) PROVE NativeInv'
  BY <1>4, AppendsKeeps DEF Dispatch, States
<1>5. ASSUME NEW p \in Process, Finish(p) PROVE NativeInv'
  <2>1. PICK state \in Verdicts(worker[p].proof) : Appends(p, state, "idle")
    BY <1>5 DEF Finish
  <2>2. state \in States /\ (state \in Closing => worker[p].proof)
    BY DEF Verdicts, States, Closing
  <2> QED BY <1>5, <2>1, <2>2, AppendsKeeps DEF Finish
<1>6. ASSUME NEW p \in Process, GiveUp(p) \/ KillWorker(p) PROVE NativeInv'
  BY <1>6, StopKeeps
<1>7. ASSUME NEW p \in Process, Send(p) PROVE NativeInv'
  BY <1>7, SendKeeps
<1>8. ASSUME NEW p \in Process, CannotSpawn(p) \/ Answer(p) \/ NoAnswer(p) PROVE NativeInv'
  BY <1>8, AnswerKeeps
<1>9. ASSUME UNCHANGED nvars PROVE NativeInv'
  <2>1. UNCHANGED <<artifacts, registry, directory, journal, pins, worker, given, flight, faults, cuts>>
    BY <1>9 DEF nvars
  <2>2. NativeTypeOK' /\ Alone' /\ PinsInOrder' /\ RecordsAreTrue' /\ OneInFlight'
    BY <2>1 DEF NativeInv, NativeTypeOK, Alone, PinsInOrder, RecordsAreTrue, OneInFlight
  <2>3. GivenIsOnDisk'
    BY <2>1 DEF NativeInv, GivenIsOnDisk, OnDisk
  <2>4. \A q \in Process : Fit(q)'
    BY <2>1, <2>2, SameJournals, OthersFit
  <2> QED BY <2>2, <2>3, <2>4 DEF NativeInv
<1> QED BY <1>1, <1>2, <1>3, <1>4, <1>5, <1>6, <1>7, <1>8, <1>9,
           ReconcileKeeps, TurnEndsKeeps, PowerCutKeeps DEF NativeNext

LEMMA NativeInvariant == NativeSpec => []NativeInv
<1> QED BY InitNativeInv, NextNativeInv, PTL DEF NativeSpec

\* However many processes share the journals, and whatever fails, is killed or
\* loses power, and however often: what a provider was ever given is on the
\* disk as dispatched with its snapshot pinned, and it never works on two
\* requests for one session.
THEOREM NativeSafety == NativeSpec => [](NativeTypeOK /\ SentIsRecorded /\ OneInFlight)
<1>1. NativeInv => NativeTypeOK /\ SentIsRecorded /\ OneInFlight
  BY DEF NativeInv, GivenIsOnDisk, OnDisk, SentIsRecorded
<1> QED BY <1>1, NativeInvariant, PTL

\* No step gives a provider a request it was given before, nor a request for a
\* session before every earlier one is known from its journal to have ended,
\* and has.
THEOREM NeverReplayedHolds == NativeSpec => NeverReplayed
<1> DEFINE SentAfresh == \A o \in given' \ given :
                      /\ o \notin given
                      /\ \A e \in given : e[1] = o[1] => KnownEnded(e) /\ e \notin flight
<1>1. NativeInv /\ [NativeNext]_nvars => [SentAfresh]_nvars
  <2> SUFFICES ASSUME NativeInv, NativeNext, given' # given PROVE SentAfresh
    BY DEF nvars
  <2>1. PICK p \in Process : Send(p)
    BY ZenonT(60) DEF NativeNext, Enter, CreateFiles, AddLine, Claim, RetainSnapshot, Prepare, Dispatch,
           Appends, GiveUp, CannotSpawn, Answer, NoAnswer, Finish, KillWorker, Reconcile,
           TurnEnds, PowerCut
  <2>2. given' = given \cup {Mine(p)}
    BY <2>1, Zenon DEF Send
  <2>3. Mine(p)[1] = worker[p].target
    BY DEF Mine
  <2> QED BY <2>1, <2>2, <2>3, SendsOnce
<1> QED BY <1>1, NativeInvariant, PTL DEF NativeSpec, NeverReplayed

-----------------------------------------------------------------------------
(* Watch: the invariant                                                    *)

LaneType == [mem: State, step: WatchSteps, todo: SUBSET Watched, at: Watched \cup {None},
             seen: [Watched -> Versions], active: SUBSET Watched]

\* What a lane holds settled of a version it saw when it began was decided.
Remembered(mem, known) ==
  \A s \in Watched :
    mem.settled[s] # None /\ mem.settled[s].version = mem.settled[s].seen =>
      <<s, mem.settled[s].version, mem.config>> \in known

\* A lane, with what it remembers and what its file says.
SeenIsPast(l) == \A s \in Watched : lane[l].seen[s] <= file[s]
HeldIsSaved(l) == lane[l].step \in {"held", "asked"} => lane[l].at \in saved[l].hold
SparesOld(l) ==
  /\ lane[l].step # "down" => old \subseteq lane[l].mem.legacy
  /\ lane[l].step \in {"checked", "held", "asked"} => lane[l].at \in Watched \ old
LaneFits(l) ==
  /\ Remembered(lane[l].mem, decided) /\ Remembered(saved[l], decided)
  /\ SeenIsPast(l) /\ HeldIsSaved(l) /\ SparesOld(l)

\* The old holds stay in the file they were in.
OldIsKept == old \subseteq Watched /\ old \subseteq Loaded(OldLane).legacy

WatchInv ==
  /\ WatchTypeOK /\ (\A l \in Lane : LaneFits(l))
  /\ OldIsKept /\ fired \cap old = {}

-----------------------------------------------------------------------------
(* Watch: steps                                                            *)

LEMMA VersionsAre == Versions \subseteq Nat /\ 1 \in Versions
  BY LimitAssumption DEF Versions

LEMMA FreshTyped ==
  /\ Fresh \in State /\ \A known : Remembered(Fresh, known)
  /\ Fresh.settled \in [Watched -> Fingerprint \cup {None}]
  /\ Fresh.armed \in [Watched -> Fingerprint \cup {None}] /\ \A s \in Watched : Fresh.settled[s] = None
  BY LimitAssumption DEF Fresh, State, Remembered

LEMMA BetweenTyped ==
  ASSUME NEW mem \in State, NEW step \in WatchSteps
  PROVE  /\ Between(mem, step) \in LaneType /\ Between(mem, step).mem = mem
         /\ Between(mem, step).step = step
         /\ \A s \in Watched : Between(mem, step).seen[s] = 1
  BY VersionsAre DEF Between, LaneType

LEMMA DownTyped ==
  /\ Down \in LaneType /\ Down.mem = Fresh /\ Down.step = "down"
  /\ \A s \in Watched : Down.seen[s] = 1
  BY FreshTyped, BetweenTyped DEF Down, WatchSteps

LEMMA InitWatchInv == WatchInit => WatchInv
<1> SUFFICES ASSUME WatchInit PROVE WatchInv
  OBVIOUS
<1> DEFINE first == [Fresh EXCEPT !.hold = old]
<1>1. /\ file = [s \in Watched |-> 1] /\ live = {} /\ config = 1 /\ old \in SUBSET Legacy
      /\ saved = [l \in Lane |-> IF l = OldLane THEN first ELSE Fresh]
      /\ lane = [l \in Lane |-> Down]
      /\ unresolved = {} /\ decided = {} /\ fired = {}
  BY DEF WatchInit
<1>2. old \subseteq Watched
  BY <1>1, LaneAssumption
<1>3. /\ first \in State /\ first.hold = old /\ first.config = 0
      /\ first.settled = Fresh.settled /\ first.legacy = {}
  BY <1>2, LimitAssumption DEF Fresh, State
<1>4. Remembered(first, {})
  BY <1>3, FreshTyped DEF Remembered
<1>5. first = saved[OldLane] /\ \A l \in Lane : saved[l] \in {first, Fresh}
  BY <1>1, LaneAssumption
<1> HIDE DEF first
<1>6. WatchTypeOK
  <2>1. saved \in [Lane -> State]
    BY <1>1, <1>3, FreshTyped
  <2>2. lane \in [Lane -> LaneType]
    BY <1>1, DownTyped
  <2>3. file \in [Watched -> Versions] /\ config \in 1..Configs
    BY <1>1, VersionsAre, LimitAssumption
  <2> QED BY <1>1, <2>1, <2>2, <2>3 DEF WatchTypeOK, LaneType
<1>7. ASSUME NEW l \in Lane PROVE LaneFits(l)
  <2>1. lane[l] = Down
    BY <1>1
  <2>2. Remembered(saved[l], decided) /\ Remembered(lane[l].mem, decided)
    BY <1>1, <1>4, <1>5, <2>1, FreshTyped, DownTyped
  <2>3. SeenIsPast(l)
    BY <1>1, <2>1, DownTyped DEF SeenIsPast
  <2> QED BY <2>1, <2>2, <2>3, DownTyped DEF LaneFits, HeldIsSaved, SparesOld
<1>8. OldIsKept
  <2>1. Loaded(OldLane) = [first EXCEPT !.legacy = @ \cup first.hold]
    BY <1>3, <1>5 DEF Loaded, Generation9
  <2>2. Loaded(OldLane).legacy = first.legacy \cup first.hold
    BY <1>3, <2>1 DEF State
  <2> QED BY <1>2, <1>3, <2>2 DEF OldIsKept
<1> QED BY <1>1, <1>6, <1>7, <1>8 DEF WatchInv

\* Loading adds holds to the old ones, and changes nothing else.
LEMMA LoadedIs ==
  ASSUME NEW l \in Lane, saved \in [Lane -> State]
  PROVE  /\ Loaded(l) \in State /\ saved[l].legacy \subseteq Loaded(l).legacy
         /\ Loaded(l).settled = saved[l].settled /\ Loaded(l).config = saved[l].config
         /\ Loaded(l).hold = saved[l].hold /\ Loaded(l).armed = saved[l].armed
<1>1. saved[l] \in State
  OBVIOUS
<1>2. CASE Generation9(l)
  <2>1. Loaded(l) = [saved[l] EXCEPT !.legacy = @]
    BY <1>2 DEF Loaded
  <2> QED BY <1>1, <2>1 DEF State
<1>3. CASE ~Generation9(l)
  <2>1. Loaded(l) = [saved[l] EXCEPT !.legacy = @ \cup saved[l].hold]
    BY <1>3 DEF Loaded
  <2> QED BY <1>1, <2>1 DEF State
<1> QED BY <1>2, <1>3

LEMMA OldIsUncertain ==
  ASSUME WatchInv, NEW l \in Lane
  PROVE  old \subseteq Uncertainty(l) /\ Uncertainty(l) \subseteq Watched
<1>1. \A k \in Lane : Loaded(k).legacy \subseteq Watched
  BY LoadedIs DEF WatchInv, WatchTypeOK, State
<1>2. old \subseteq Loaded(OldLane).legacy
  BY DEF WatchInv, OldIsKept
<1> QED BY <1>1, <1>2, LaneAssumption DEF Uncertainty

\* The others only see time pass.
LEMMA OtherLanesFit ==
  ASSUME WatchInv, NEW k \in Lane, lane'[k] = lane[k], saved'[k] = saved[k], old' = old,
         decided \subseteq decided', file' \in [Watched -> Versions],
         \A s \in Watched : file[s] <= file'[s]
  PROVE  LaneFits(k)'
<1>1. LaneFits(k) /\ lane[k].seen \in [Watched -> Versions] /\ file \in [Watched -> Versions]
  BY DEF WatchInv, WatchTypeOK
<1>2. SeenIsPast(k)'
  <2>1. \A s \in Watched : lane[k].seen[s] \in Nat /\ file[s] \in Nat /\ file'[s] \in Nat
    BY <1>1, VersionsAre
  <2> QED BY <1>1, <2>1 DEF LaneFits, SeenIsPast
<1>3. Remembered(lane[k].mem, decided') /\ Remembered(saved[k], decided')
  BY <1>1 DEF LaneFits, Remembered
<1> QED BY <1>1, <1>2, <1>3 DEF LaneFits, HeldIsSaved, SparesOld

\* One lane goes on as r, and may have saved what it remembers.
LEMMA LaneGoesOn ==
  ASSUME WatchInv, NEW l \in Lane, NEW r \in LaneType, LaneIs(l, r), old' = old,
         \/ saved' = saved
         \/ saved' = [saved EXCEPT ![l] = r.mem] /\ r.step # "down",
         decided \subseteq decided', file' \in [Watched -> Versions],
         \A s \in Watched : file[s] <= file'[s],
         live' \subseteq Watched, config' = config, unresolved' \subseteq Watched,
         Remembered(r.mem, decided'), \A s \in Watched : r.seen[s] <= file'[s],
         r.step \in {"held", "asked"} => r.at \in saved'[l].hold,
         r.step # "down" => old \subseteq r.mem.legacy,
         r.step \in {"checked", "held", "asked"} => r.at \in Watched \ old,
         fired' \cap old = {}
  PROVE  WatchInv'
<1>1. /\ lane \in [Lane -> LaneType] /\ saved \in [Lane -> State] /\ r.mem \in State
      /\ config \in 1..Configs
  BY DEF WatchInv, WatchTypeOK, LaneType
<1>2. lane'[l] = r /\ \A k \in Lane \ {l} : lane'[k] = lane[k] /\ saved'[k] = saved[k]
  BY <1>1 DEF LaneIs
<1>3. lane' \in [Lane -> LaneType] /\ saved' \in [Lane -> State]
  BY <1>1 DEF LaneIs
<1>4. WatchTypeOK'
  BY <1>1, <1>3 DEF WatchTypeOK, LaneType
<1>5. saved'[l] = saved[l] \/ (saved'[l] = r.mem /\ r.step # "down")
  BY <1>1
<1>6. LaneFits(l)'
  <2>1. Remembered(saved[l], decided')
    BY DEF WatchInv, LaneFits, Remembered
  <2>2. Remembered(saved'[l], decided') /\ Remembered(lane'[l].mem, decided')
    BY <1>2, <1>5, <2>1
  <2>3. SeenIsPast(l)' /\ HeldIsSaved(l)' /\ SparesOld(l)'
    BY <1>2 DEF SeenIsPast, HeldIsSaved, SparesOld
  <2> QED BY <2>2, <2>3 DEF LaneFits
<1>7. \A k \in Lane \ {l} : LaneFits(k)'
  BY <1>2, OtherLanesFit
<1>8. OldIsKept'
  <2>1. old \subseteq Watched /\ old \subseteq Loaded(OldLane).legacy
    BY DEF WatchInv, OldIsKept
  <2>2. CASE saved'[OldLane] = saved[OldLane]
    BY <2>1, <2>2 DEF OldIsKept, Loaded, Generation9
  <2>3. CASE saved'[OldLane] # saved[OldLane]
    <3>1. l = OldLane /\ old \subseteq saved'[OldLane].legacy
      BY <1>2, <1>5, <2>3, LaneAssumption
    <3>2. saved'[OldLane].legacy \subseteq Loaded(OldLane)'.legacy
      <4>1. saved'[OldLane] \in State
        BY <1>3, LaneAssumption
      <4> QED BY <4>1 DEF Loaded, Generation9, State
    <3> QED BY <2>1, <3>1, <3>2 DEF OldIsKept
  <2> QED BY <2>2, <2>3
<1> QED BY <1>4, <1>6, <1>7, <1>8 DEF WatchInv

\* What is so of a lane, and of what it remembers.
LEMMA LaneIsTyped ==
  ASSUME WatchInv, NEW l \in Lane
  PROVE  /\ lane[l] \in LaneType /\ lane[l].mem \in State /\ saved[l] \in State
         /\ saved \in [Lane -> State] /\ LaneFits(l) /\ live \subseteq Watched
         /\ file \in [Watched -> Versions] /\ config \in 1..Configs /\ unresolved \subseteq Watched
         /\ old \subseteq Watched /\ fired \cap old = {} /\ \A s \in Watched : file[s] \in Nat
<1>1. WatchTypeOK /\ LaneFits(l) /\ old \subseteq Watched /\ fired \cap old = {}
  BY DEF WatchInv, OldIsKept
<1>2. lane[l] \in LaneType
  BY <1>1 DEF WatchTypeOK, LaneType
<1> QED BY <1>1, <1>2, VersionsAre DEF WatchTypeOK, LaneType

LEMMA GoesDown ==
  ASSUME WatchInv, NEW l \in Lane, LaneIs(l, Down),
         UNCHANGED <<file, live, config, saved, unresolved, decided, fired, old>>
  PROVE  WatchInv'
<1>1. \A s \in Watched : Down.seen[s] <= file'[s]
  BY LaneIsTyped, VersionsAre, DownTyped DEF Versions
<1>2. Remembered(Down.mem, decided')
  BY FreshTyped, DownTyped
<1> QED BY <1>1, <1>2, DownTyped, LaneIsTyped, LaneGoesOn

\* Saving, and going on as r; or the process ends.
LEMMA SavedKeeps ==
  ASSUME WatchInv, NEW l \in Lane, NEW r \in LaneType, Saved(l, r), r.step # "down",
         UNCHANGED <<file, live, config, unresolved, decided, fired, old>>,
         Remembered(r.mem, decided), \A s \in Watched : r.seen[s] <= file[s],
         r.step \in {"held", "asked"} => r.at \in r.mem.hold,
         old \subseteq r.mem.legacy,
         r.step \in {"checked", "held", "asked"} => r.at \in Watched \ old
  PROVE  WatchInv'
<1>1. CASE LaneIs(l, Down) /\ UNCHANGED saved
  BY <1>1, GoesDown
<1>2. CASE saved' = [saved EXCEPT ![l] = r.mem] /\ LaneIs(l, r)
  <2>1. saved'[l] = r.mem
    BY <1>2, LaneIsTyped
  <2>2. r.step \in {"held", "asked"} => r.at \in saved'[l].hold
    BY <2>1
  <2>3. \A s \in Watched : file[s] <= file'[s]
    BY LaneIsTyped
  <2> QED BY <1>2, <2>2, <2>3, LaneIsTyped, LaneGoesOn
<1> QED BY <1>1, <1>2 DEF Saved

LEMMA BootKeeps ==
  ASSUME WatchInv, NEW l \in Lane, Boot(l)
  PROVE  WatchInv'
<1> DEFINE m == [Loaded(l) EXCEPT !.legacy = @ \cup Uncertainty(l)]
           r == Between(m, "idle")
<1>1. m \in State /\ m.settled = saved[l].settled /\ m.config = saved[l].config
      /\ old \subseteq m.legacy
  BY LaneIsTyped, LoadedIs, OldIsUncertain, SMTT(60) DEF State
<1>2. LaneIs(l, r) /\ UNCHANGED <<file, live, config, saved, unresolved, decided, fired, old>>
  BY DEF Boot
<1> HIDE DEF m
<1>3. r \in LaneType /\ r.mem = m /\ r.step = "idle" /\ \A s \in Watched : r.seen[s] = 1
  BY <1>1, BetweenTyped DEF WatchSteps
<1> HIDE DEF r
<1>4. Remembered(m, decided)
  BY <1>1, LaneIsTyped DEF LaneFits, Remembered
<1>5. \A s \in Watched : r.seen[s] <= file[s] /\ file[s] <= file[s]
  BY <1>3, LaneIsTyped DEF Versions
<1> QED BY <1>1, <1>2, <1>3, <1>4, <1>5, LaneIsTyped, LaneGoesOn

LEMMA ReconfiguredIs ==
  ASSUME WatchInv, NEW l \in Lane
  PROVE  /\ Reconfigured(lane[l].mem) \in State
         /\ Reconfigured(lane[l].mem).legacy = lane[l].mem.legacy
         /\ Remembered(Reconfigured(lane[l].mem), decided)
<1> DEFINE mem == lane[l].mem
           other == [mem EXCEPT !.config = config, !.settled = Fresh.settled, !.armed = Fresh.armed]
<1>1. mem \in State /\ Remembered(mem, decided) /\ config \in 0..Configs
  BY LaneIsTyped DEF LaneFits
<1>2. other \in State /\ other.legacy = mem.legacy /\ other.settled = Fresh.settled
  BY <1>1, FreshTyped DEF State
<1>3. Remembered(other, decided)
  BY <1>2, FreshTyped DEF Remembered
<1>4. Reconfigured(mem) = mem \/ Reconfigured(mem) = other
  BY DEF Reconfigured
<1> QED BY <1>1, <1>2, <1>3, <1>4

LEMMA BeginPassKeeps ==
  ASSUME WatchInv, NEW l \in Lane, BeginPass(l)
  PROVE  WatchInv'
<1> DEFINE was == Reconfigured(lane[l].mem)
<1>1. PICK expired \in SUBSET lane[l].mem.hold :
        LET mem == [was EXCEPT !.hold = @ \ expired, !.legacy = @ \cup Uncertainty(l)]
        IN Saved(l, [mem |-> mem, step |-> "visiting", todo |-> Watched, at |-> None,
                     seen |-> file, active |-> live])
  BY DEF BeginPass
<1>2. was \in State /\ was.legacy = lane[l].mem.legacy /\ Remembered(was, decided)
  BY ReconfiguredIs
<1> HIDE DEF was
<1> DEFINE m == [was EXCEPT !.hold = @ \ expired, !.legacy = @ \cup Uncertainty(l)]
           r == [mem |-> m, step |-> "visiting", todo |-> Watched, at |-> None,
                 seen |-> file, active |-> live]
<1>3. m \in State /\ m.settled = was.settled /\ m.config = was.config /\ old \subseteq m.legacy
  BY <1>2, OldIsUncertain DEF State
<1>4. Remembered(m, decided)
  BY <1>2, <1>3 DEF Remembered
<1>5. Saved(l, r) /\ UNCHANGED <<file, live, config, unresolved, decided, fired, old>>
  BY <1>1 DEF BeginPass
<1> HIDE DEF m
<1>6. r \in LaneType /\ r.mem = m /\ r.step = "visiting" /\ r.seen = file
  BY <1>3, LaneIsTyped DEF LaneType, WatchSteps
<1> HIDE DEF r
<1>7. \A s \in Watched : r.seen[s] <= file[s]
  BY <1>6, LaneIsTyped
<1> QED BY <1>3, <1>4, <1>5, <1>6, <1>7, SavedKeeps

LEMMA EndPassKeeps ==
  ASSUME WatchInv, NEW l \in Lane, EndPass(l)
  PROVE  WatchInv'
<1> DEFINE r == Between(lane[l].mem, "idle")
<1>1. Saved(l, r) /\ UNCHANGED <<file, live, config, unresolved, decided, fired, old>>
      /\ lane[l].step = "visiting"
  BY DEF EndPass
<1>2. r \in LaneType /\ r.mem = lane[l].mem /\ r.step = "idle" /\ \A s \in Watched : r.seen[s] = 1
  BY LaneIsTyped, BetweenTyped DEF WatchSteps
<1> HIDE DEF r
<1>3. \A s \in Watched : r.seen[s] <= file[s]
  BY <1>2, LaneIsTyped DEF Versions
<1> QED BY <1>1, <1>2, <1>3, LaneIsTyped, SavedKeeps DEF LaneFits, SparesOld

\* A lane that remembers mem, in the same pass.
LEMMA SamePass ==
  ASSUME WatchInv, NEW l \in Lane, NEW mem \in State, NEW r \in LaneType, LaneIs(l, r),
         lane[l].step # "down", r.step # "down", r.mem = mem, r.seen = lane[l].seen,
         mem.legacy = lane[l].mem.legacy, Remembered(mem, decided'), decided \subseteq decided',
         UNCHANGED <<live, config, saved, old>>,
         file' \in [Watched -> Versions], \A s \in Watched : file[s] <= file'[s],
         unresolved' \subseteq Watched, fired' \cap old = {},
         r.step \in {"held", "asked"} => lane[l].step = "held" /\ r.at = lane[l].at,
         r.step \in {"checked", "held", "asked"} => r.at \in Watched \ old
  PROVE  WatchInv'
<1>1. \A s \in Watched : r.seen[s] <= file'[s]
  <2>1. \A s \in Watched : lane[l].seen[s] \in Nat /\ file[s] \in Nat /\ file'[s] \in Nat
    BY LaneIsTyped, VersionsAre DEF LaneType
  <2> QED BY <2>1, LaneIsTyped DEF LaneFits, SeenIsPast
<1>2. old \subseteq mem.legacy
  BY LaneIsTyped DEF LaneFits, SparesOld
<1>3. r.step \in {"held", "asked"} => r.at \in saved'[l].hold
  BY LaneIsTyped DEF LaneFits, HeldIsSaved
<1> QED BY <1>1, <1>2, <1>3, LaneIsTyped, LaneGoesOn

LEMMA TurnsIs ==
  ASSUME WatchInv, NEW l \in Lane, NEW s \in Watched, NEW mem \in State,
         NEW step \in {"visiting", "checked"}, Turns(l, s, mem, step)
  PROVE  \E r \in LaneType :
           /\ LaneIs(l, r) /\ r.mem = mem /\ r.step = step /\ r.seen = lane[l].seen
           /\ step = "checked" => r.at = s
<1> DEFINE r == [lane[l] EXCEPT !.mem = mem, !.step = step, !.todo = @ \ {s},
                                !.at = IF step = "visiting" THEN None ELSE s]
<1>1. LaneIs(l, r) /\ lane[l] \in LaneType
  BY LaneIsTyped DEF Turns
<1>2. r \in LaneType /\ r.mem = mem /\ r.step = step /\ r.seen = lane[l].seen
      /\ (step = "checked" => r.at = s)
  BY <1>1 DEF LaneType, WatchSteps
<1> QED BY <1>1, <1>2

LEMMA BackIs ==
  ASSUME WatchInv, NEW l \in Lane, NEW mem \in State, BackToPass(l, mem)
  PROVE  \E r \in LaneType :
           LaneIs(l, r) /\ r.mem = mem /\ r.step = "visiting" /\ r.seen = lane[l].seen
<1> DEFINE r == [lane[l] EXCEPT !.mem = mem, !.step = "visiting", !.at = None]
<1>1. LaneIs(l, r) /\ lane[l] \in LaneType
  BY LaneIsTyped DEF BackToPass
<1>2. r \in LaneType /\ r.mem = mem /\ r.step = "visiting" /\ r.seen = lane[l].seen
  BY <1>1 DEF LaneType, WatchSteps
<1> QED BY <1>1, <1>2

LEMMA FingerprintIs ==
  ASSUME WatchInv, NEW l \in Lane, NEW s \in Watched
  PROVE  /\ FingerprintOf(l, s) \in Fingerprint
         /\ FingerprintOf(l, s).version = file[s] /\ FingerprintOf(l, s).seen = lane[l].seen[s]
  BY LaneIsTyped DEF FingerprintOf, Fingerprint, LaneType

LEMMA StateWith ==
  ASSUME NEW mem \in State, NEW s \in Watched, NEW p \in Fingerprint \cup {None}
  PROVE  /\ [mem EXCEPT !.settled[s] = p, !.hold = @ \ {s}] \in State
         /\ [mem EXCEPT !.armed[s] = p, !.hold = @ \ {s}] \in State
  BY DEF State

\* Nothing new is settled.
LEMMA StaysRemembered ==
  ASSUME WatchInv, NEW l \in Lane, NEW mem \in State,
         mem.settled = lane[l].mem.settled, mem.config = lane[l].mem.config
  PROVE  Remembered(mem, decided)
  BY LaneIsTyped DEF LaneFits, Remembered

\* A session is passed over, or decided on.
LEMMA SkipKeeps ==
  ASSUME WatchInv, NEW l \in Lane, NEW s \in Watched, Skip(l, s)
  PROVE  WatchInv'
<1>1. PICK r \in LaneType :
        LaneIs(l, r) /\ r.mem = lane[l].mem /\ r.step = "visiting" /\ r.seen = lane[l].seen
  BY TurnsIs, LaneIsTyped DEF Skip, Passed
<1>2. \A t \in Watched : file[t] <= file'[t]
  BY LaneIsTyped DEF Skip
<1> QED BY <1>1, <1>2, LaneIsTyped, StaysRemembered, SamePass DEF Skip

LEMMA DecideKeeps ==
  ASSUME WatchInv, NEW l \in Lane, NEW s \in Watched, Decide(l, s)
  PROVE  WatchInv'
<1> DEFINE mem == lane[l].mem  m == Settles(l, s)  p == FingerprintOf(l, s)
<1>0. /\ lane[l].step = "visiting" /\ Passed(l, s, m)
      /\ decided' = decided \cup {<<s, file[s], mem.config>>}
      /\ UNCHANGED <<file, live, config, saved, unresolved, fired, stops, old>>
  BY DEF Decide, Due
<1>1. mem \in State /\ p \in Fingerprint /\ p.version = file[s] /\ Remembered(mem, decided)
  BY LaneIsTyped, FingerprintIs DEF LaneFits
<1>2. m = [mem EXCEPT !.settled[s] = p, !.hold = @ \ {s}]
  BY DEF Settles
<1> HIDE DEF p, m, mem
<1>3. /\ m \in State /\ m.settled = [mem.settled EXCEPT ![s] = p] /\ m.config = mem.config
      /\ m.legacy = mem.legacy
  BY <1>1, <1>2 DEF State
<1>4. Remembered(m, decided')
  <2> SUFFICES ASSUME NEW t \in Watched, m.settled[t] # None,
                      m.settled[t].version = m.settled[t].seen
               PROVE  <<t, m.settled[t].version, m.config>> \in decided'
    BY DEF Remembered
  <2>1. mem.settled \in [Watched -> Fingerprint \cup {None}]
    BY <1>1 DEF State
  <2>2. CASE t = s
    BY <1>0, <1>1, <1>3, <2>1, <2>2
  <2>3. CASE t # s
    <3>1. m.settled[t] = mem.settled[t]
      BY <1>3, <2>1, <2>3
    <3> QED BY <1>0, <1>1, <1>3, <3>1 DEF Remembered
  <2> QED BY <2>2, <2>3
<1>5. PICK r \in LaneType :
        LaneIs(l, r) /\ r.mem = m /\ r.step = "visiting" /\ r.seen = lane[l].seen
  BY <1>0, <1>3, TurnsIs DEF Passed
<1>6. \A t \in Watched : file[t] <= file'[t]
  BY <1>0, LaneIsTyped
<1> QED BY <1>0, <1>3, <1>4, <1>5, <1>6, LaneIsTyped, SamePass DEF mem

\* Only a session that no old hold keeps is considered.
LEMMA DueIsNew ==
  ASSUME WatchInv, NEW l \in Lane, NEW s \in Watched, Due(l, s)
  PROVE  lane[l].step = "visiting" /\ s \notin old
<1>1. old \subseteq lane[l].mem.legacy
  BY LaneIsTyped DEF Due, LaneFits, SparesOld
<1> QED BY <1>1 DEF Due, Suppressed

LEMMA ConsiderKeeps ==
  ASSUME WatchInv, NEW l \in Lane, NEW s \in Watched, Consider(l, s)
  PROVE  WatchInv'
<1> DEFINE mem == lane[l].mem
<1>0. /\ Due(l, s) /\ lane[l].step = "visiting" /\ s \notin old
      /\ UNCHANGED <<file, live, config, saved, unresolved, decided, fired, stops, old>>
      /\ mem \in State /\ FingerprintOf(l, s) \in Fingerprint
  BY DueIsNew, LaneIsTyped, FingerprintIs DEF Consider
<1>1. \A t \in Watched : file[t] <= file'[t]
  BY <1>0, LaneIsTyped
<1>2. ASSUME NEW armed \in Fingerprint \cup {None}, NEW step \in {"visiting", "checked"},
             Turns(l, s, [mem EXCEPT !.armed[s] = armed, !.hold = @ \ {s}], step)
      PROVE  WatchInv'
  <2> DEFINE m == [mem EXCEPT !.armed[s] = armed, !.hold = @ \ {s}]
  <2>1. /\ m \in State /\ m.settled = mem.settled /\ m.config = mem.config
        /\ m.legacy = mem.legacy
    BY <1>0 DEF State
  <2>2. Turns(l, s, m, step)
    BY <1>2
  <2> HIDE DEF m
  <2>3. PICK r \in LaneType :
          /\ LaneIs(l, r) /\ r.mem = m /\ r.step = step /\ r.seen = lane[l].seen
          /\ step = "checked" => r.at = s
    BY <2>1, <2>2, TurnsIs
  <2>4. Remembered(m, decided)
    BY <2>1, StaysRemembered
  <2> QED BY <1>0, <1>1, <2>1, <2>3, <2>4, LaneIsTyped, SamePass
<1>3. CASE Agreed(l, s)
  BY <1>2, <1>3 DEF Consider
<1>4. CASE ~Agreed(l, s)
  BY <1>0, <1>2, <1>4 DEF Consider, Passed
<1> QED BY <1>3, <1>4

\* Back in the pass, with another hold.
LEMMA BackKeeps ==
  ASSUME WatchInv, NEW l \in Lane, NEW mem \in State, BackToPass(l, mem),
         lane[l].step # "down", mem.legacy = lane[l].mem.legacy, Remembered(mem, decided),
         UNCHANGED <<live, config, saved, old, decided, fired>>,
         file' \in [Watched -> Versions], \A s \in Watched : file[s] <= file'[s],
         unresolved' \subseteq Watched
  PROVE  WatchInv'
<1>1. PICK r \in LaneType :
        LaneIs(l, r) /\ r.mem = mem /\ r.step = "visiting" /\ r.seen = lane[l].seen
  BY BackIs
<1> QED BY <1>1, LaneIsTyped, SamePass

\* The checkpoint: the hold is in the file before anything is sent.
LEMMA CheckpointKeeps ==
  ASSUME WatchInv, NEW l \in Lane, Checkpoint(l)
  PROVE  WatchInv'
<1> DEFINE s == lane[l].at
           m == [lane[l].mem EXCEPT !.hold = @ \cup {s}]
           r == [lane[l] EXCEPT !.mem = m, !.step = "held"]
<1>0. /\ lane[l].step = "checked" /\ UNCHANGED <<file, live, config, unresolved, decided, fired, old>>
      /\ Holds(l, m) \/ (BackToPass(l, lane[l].mem) /\ UNCHANGED saved)
  BY DEF Checkpoint
<1>1. s \in Watched \ old /\ old \subseteq lane[l].mem.legacy /\ lane[l] \in LaneType
      /\ lane[l].mem \in State
  BY <1>0, LaneIsTyped DEF LaneFits, SparesOld
<1>2. \A t \in Watched : file[t] <= file'[t]
  BY <1>0, LaneIsTyped
<1>3. CASE Holds(l, m)
  <2>1. /\ m \in State /\ s \in m.hold /\ m.settled = lane[l].mem.settled
        /\ m.config = lane[l].mem.config /\ m.legacy = lane[l].mem.legacy
    BY <1>1 DEF State
  <2>2. Saved(l, r)
    BY <1>3 DEF Holds
  <2> HIDE DEF m
  <2>3. r \in LaneType /\ r.mem = m /\ r.step = "held" /\ r.seen = lane[l].seen /\ r.at = s
    BY <1>1, <2>1 DEF LaneType, WatchSteps
  <2> HIDE DEF r
  <2>4. Remembered(m, decided)
    BY <2>1, StaysRemembered
  <2>5. \A t \in Watched : r.seen[t] <= file[t]
    BY <2>3, LaneIsTyped DEF LaneFits, SeenIsPast
  <2> QED BY <1>0, <1>1, <2>1, <2>2, <2>3, <2>4, <2>5, SavedKeeps
<1>4. CASE BackToPass(l, lane[l].mem) /\ UNCHANGED saved
  BY <1>0, <1>1, <1>2, <1>4, LaneIsTyped, StaysRemembered, BackKeeps
<1> QED BY <1>0, <1>3, <1>4

LEMMA RefusedKeeps ==
  ASSUME WatchInv, NEW l \in Lane, Refused(l)
  PROVE  WatchInv'
<1> DEFINE m == [lane[l].mem EXCEPT !.hold = @ \ {lane[l].at}]
<1>0. /\ lane[l].step = "held" /\ BackToPass(l, m)
      /\ UNCHANGED <<file, live, config, saved, unresolved, decided, fired, old>>
  BY DEF Refused
<1>1. /\ m \in State /\ m.settled = lane[l].mem.settled
      /\ m.config = lane[l].mem.config /\ m.legacy = lane[l].mem.legacy
  BY LaneIsTyped DEF State
<1> HIDE DEF m
<1>2. \A t \in Watched : file[t] <= file'[t]
  BY <1>0, LaneIsTyped
<1> QED BY <1>0, <1>1, <1>2, LaneIsTyped, StaysRemembered, BackKeeps

LEMMA FireKeeps ==
  ASSUME WatchInv, NEW l \in Lane, Fire(l)
  PROVE  WatchInv'
<1> DEFINE r == [lane[l] EXCEPT !.mem = lane[l].mem, !.step = "asked"]
<1>0. /\ lane[l].step = "held" /\ LaneIs(l, r)
      /\ unresolved' = unresolved \cup {lane[l].at} /\ fired' = fired \cup {lane[l].at}
      /\ UNCHANGED <<file, live, config, saved, decided, old>>
  BY DEF Fire, Remembers
<1>1. lane[l].at \in Watched \ old /\ lane[l] \in LaneType /\ lane[l].mem \in State
  BY <1>0, LaneIsTyped DEF LaneFits, SparesOld
<1>2. /\ r \in LaneType /\ r.mem = lane[l].mem /\ r.step = "asked" /\ r.seen = lane[l].seen
      /\ r.at = lane[l].at
  BY <1>1 DEF LaneType, WatchSteps
<1> HIDE DEF r
<1>3. \A t \in Watched : file[t] <= file'[t]
  BY <1>0, LaneIsTyped
<1>4. unresolved' \subseteq Watched /\ fired' \cap old = {}
  BY <1>0, <1>1, LaneIsTyped
<1> QED BY <1>0, <1>1, <1>2, <1>3, <1>4, LaneIsTyped, StaysRemembered, SamePass

\* The provider writes a version that no lane has seen.
LEMMA ProvidedIs ==
  ASSUME WatchInv, NEW s \in Watched, file[s] < MaxWrites, file' = [file EXCEPT ![s] = @ + 1]
  PROVE  /\ file' \in [Watched -> Versions] /\ file'[s] = file[s] + 1
         /\ \A t \in Watched : file[t] <= file'[t]
<1>1. file \in [Watched -> Versions] /\ \A t \in Watched : file[t] \in Nat
  BY VersionsAre DEF WatchInv, WatchTypeOK
<1>2. file[s] + 1 \in Versions
  BY <1>1, LimitAssumption DEF Versions
<1> QED BY <1>1, <1>2

LEMMA AppliedKeeps ==
  ASSUME WatchInv, NEW l \in Lane, Applied(l)
  PROVE  WatchInv'
<1> DEFINE s == lane[l].at  mem == lane[l].mem
           p == [FingerprintOf(l, s) EXCEPT !.version = file[s] + 1]
           m == [mem EXCEPT !.hold = @ \ {s}, !.settled[s] = p]
<1>0. /\ lane[l].step = "asked" /\ unresolved' = unresolved \ {s} /\ Provided(s)
      /\ BackToPass(l, [mem EXCEPT !.hold = @ \ {s},
                          !.settled[s] = [FingerprintOf(l, s) EXCEPT !.version = file'[s]]])
      /\ UNCHANGED <<live, config, saved, decided, fired, old>>
  BY DEF Applied
<1>1. s \in Watched /\ mem \in State
  BY <1>0, LaneIsTyped DEF LaneFits, SparesOld
<1>2. /\ file' \in [Watched -> Versions] /\ file'[s] = file[s] + 1
      /\ \A t \in Watched : file[t] <= file'[t]
  BY <1>0, <1>1, ProvidedIs DEF Provided
<1>3. BackToPass(l, m)
  BY <1>0, <1>2
<1>4. p \in Fingerprint /\ p.version = file[s] + 1 /\ p.seen = lane[l].seen[s]
  <2>1. file[s] + 1 \in Versions
    BY <1>1, <1>2
  <2> QED BY <1>1, <2>1, FingerprintIs DEF Fingerprint
<1>5. p.version # p.seen
  <2>1. lane[l].seen[s] \in Nat /\ file[s] \in Nat /\ lane[l].seen[s] <= file[s]
    BY <1>1, LaneIsTyped, VersionsAre DEF LaneType, LaneFits, SeenIsPast
  <2> QED BY <1>4, <2>1
<1> HIDE DEF p
<1>6. /\ m \in State /\ m.settled = [mem.settled EXCEPT ![s] = p] /\ m.config = mem.config
      /\ m.legacy = mem.legacy
  BY <1>1, <1>4 DEF State
<1> HIDE DEF m
<1>7. Remembered(m, decided)
  <2> SUFFICES ASSUME NEW t \in Watched, m.settled[t] # None,
                      m.settled[t].version = m.settled[t].seen
               PROVE  <<t, m.settled[t].version, m.config>> \in decided
    BY DEF Remembered
  <2>1. mem.settled \in [Watched -> Fingerprint \cup {None}] /\ Remembered(mem, decided)
    BY <1>1, LaneIsTyped DEF State, LaneFits
  <2>2. t # s /\ m.settled[t] = mem.settled[t]
    BY <1>1, <1>5, <1>6, <2>1
  <2> QED BY <1>6, <2>1, <2>2 DEF Remembered
<1>8. unresolved' \subseteq Watched
  BY <1>0, LaneIsTyped
<1> QED BY <1>0, <1>2, <1>3, <1>6, <1>7, <1>8, BackKeeps

LEMMA UnclearKeeps ==
  ASSUME WatchInv, NEW l \in Lane, Unclear(l)
  PROVE  WatchInv'
<1> DEFINE s == lane[l].at
<1>0. /\ lane[l].step = "asked" /\ unresolved' \in {unresolved, unresolved \ {s}}
      /\ Provided(s) \/ UNCHANGED file
      /\ UNCHANGED <<live, config, saved, decided, fired, old>>
  BY DEF Unclear
<1>1. s \in Watched /\ lane[l].mem \in State /\ unresolved' \subseteq Watched
  BY <1>0, LaneIsTyped DEF LaneFits, SparesOld
<1>2. file' \in [Watched -> Versions] /\ \A t \in Watched : file[t] <= file'[t]
  BY <1>0, <1>1, ProvidedIs, LaneIsTyped DEF Provided
<1>3. PICK held \in BOOLEAN :
        BackToPass(l, [lane[l].mem EXCEPT !.hold = IF held THEN @ \cup {s} ELSE @ \ {s}])
  BY DEF Unclear
<1> DEFINE m == [lane[l].mem EXCEPT !.hold = IF held THEN @ \cup {s} ELSE @ \ {s}]
<1>4. /\ m \in State /\ m.settled = lane[l].mem.settled
      /\ m.config = lane[l].mem.config /\ m.legacy = lane[l].mem.legacy
  BY <1>1 DEF State
<1>5. BackToPass(l, m)
  BY <1>3
<1> HIDE DEF m
<1> QED BY <1>0, <1>1, <1>2, <1>4, <1>5, StaysRemembered, BackKeeps

\* What the owners and the user do.
LEMMA AroundKeeps ==
  ASSUME WatchInv, UNCHANGED <<lane, saved, decided, fired, old>>,
         file' \in [Watched -> Versions], \A s \in Watched : file[s] <= file'[s],
         live' \subseteq Watched, config' \in 1..Configs, unresolved' \subseteq Watched
  PROVE  WatchInv'
<1>1. WatchTypeOK'
  BY DEF WatchInv, WatchTypeOK
<1>2. \A l \in Lane : LaneFits(l)'
  BY OtherLanesFit
<1>3. OldIsKept'
  BY DEF WatchInv, OldIsKept, Loaded, Generation9
<1> QED BY <1>1, <1>2, <1>3 DEF WatchInv

LEMMA OutsideKeeps ==
  ASSUME WatchInv, (\E s \in Watched : Save(s) \/ Close(s)) \/ Reconfigure \/ UNCHANGED wvars
  PROVE  WatchInv'
<1>0. /\ WatchTypeOK /\ file \in [Watched -> Versions] /\ live \subseteq Watched
      /\ config \in 1..Configs /\ unresolved \subseteq Watched
      /\ \A s \in Watched : file[s] \in Nat
  BY VersionsAre DEF WatchInv, WatchTypeOK
<1>1. ASSUME NEW s \in Watched, Save(s) PROVE WatchInv'
  BY <1>0, <1>1, ProvidedIs, AroundKeeps DEF Save
<1>2. ASSUME NEW s \in Watched, Close(s) PROVE WatchInv'
  BY <1>0, <1>2, AroundKeeps DEF Close
<1>3. CASE Reconfigure
  <2>1. config' \in 1..Configs
    BY <1>0, <1>3, LimitAssumption DEF Reconfigure
  <2> QED BY <1>0, <1>3, <2>1, AroundKeeps DEF Reconfigure
<1>4. CASE UNCHANGED wvars
  BY <1>0, <1>4, AroundKeeps DEF wvars
<1> QED BY <1>1, <1>2, <1>3, <1>4

-----------------------------------------------------------------------------
(* Watch: theorems                                                         *)

LEMMA NextWatchInv == WatchInv /\ [WatchNext]_wvars => WatchInv'
<1> SUFFICES ASSUME WatchInv, [WatchNext]_wvars PROVE WatchInv'
  OBVIOUS
<1>1. ASSUME NEW l \in Lane, LaneStep(l) PROVE WatchInv'
  BY <1>1, BootKeeps, BeginPassKeeps, EndPassKeeps, CheckpointKeeps, RefusedKeeps, FireKeeps,
     AppliedKeeps, UnclearKeeps, SkipKeeps, DecideKeeps, ConsiderKeeps DEF LaneStep
<1>2. ASSUME NEW l \in Lane, Killed(l) PROVE WatchInv'
  BY <1>2, GoesDown DEF Killed
<1> QED BY <1>1, <1>2, OutsideKeeps DEF WatchNext

LEMMA WatchInvariant == WatchSpec => []WatchInv
<1> QED BY InitWatchInv, NextWatchInv, PTL DEF WatchSpec

\* However many watchers share the sessions, and whenever they are killed, their
\* saves fail, owners write and the configuration changes: what a watcher holds
\* settled was decided on that version under that configuration, the file of
\* one that a provider works for says so, and no session whose outcome an old
\* state file left unknown is ever given to its provider again.
THEOREM WatchersAreTrue == WatchSpec => [](WatchTypeOK /\ MemoryIsTrue)
<1>1. WatchInv => WatchTypeOK /\ MemoryIsTrue
  BY DEF WatchInv, LaneFits, Remembered, HeldIsSaved, MemoryIsTrue, SettledWasDecided,
         AskedIsHeld, LegacyIsNeverFired
<1> QED BY <1>1, WatchInvariant, PTL

\* A lane moves only itself.
LEMMA OneLaneMoves ==
  ASSUME WatchInv, NEW k \in Lane, LaneStep(k) \/ Killed(k), NEW l \in Lane, l # k
  PROVE  lane'[l] = lane[l]
<1>1. ASSUME NEW r, LaneIs(k, r) PROVE lane'[l] = lane[l]
  BY <1>1, LaneIsTyped DEF LaneIs, WatchInv, WatchTypeOK
<1>2. ASSUME NEW r, Saved(k, r) PROVE lane'[l] = lane[l]
  BY <1>1, <1>2 DEF Saved
<1>3. CASE Boot(k) \/ Killed(k)
  BY <1>1, <1>3 DEF Boot, Killed
<1>4. CASE BeginPass(k) \/ EndPass(k)
  BY <1>2, <1>4 DEF BeginPass, EndPass
<1>5. CASE Checkpoint(k)
  BY <1>1, <1>2, <1>5 DEF Checkpoint, Holds, BackToPass
<1>6. CASE Refused(k) \/ Fire(k) \/ Applied(k) \/ Unclear(k)
  BY <1>1, <1>6 DEF Refused, Fire, Applied, Unclear, BackToPass, Remembers
<1>7. CASE \E s \in Watched : Decide(k, s) \/ Consider(k, s) \/ Skip(k, s)
  BY <1>1, <1>7 DEF Decide, Consider, Skip, Passed, Turns
<1> QED BY <1>3, <1>4, <1>5, <1>6, <1>7 DEF LaneStep

LEMMA OnlyConsidered ==
  ASSUME WatchInv, WatchNext, NEW l \in Lane, lane[l].step = "visiting", lane'[l].step = "checked"
  PROVE  \E s \in Watched : Consider(l, s)
<1>1. LaneStep(l) \/ Killed(l)
  <2>1. lane' # lane
    OBVIOUS
  <2> QED BY <2>1, OneLaneMoves DEF WatchNext, Save, Close, Reconfigure
<1>2. ASSUME NEW r, LaneIs(l, r) PROVE r.step = "checked"
  BY <1>2, LaneIsTyped DEF LaneIs, WatchInv, WatchTypeOK
<1>3. Down.step # "checked" /\ Between(lane[l].mem, "idle").step # "checked"
  BY LaneIsTyped, DownTyped, BetweenTyped DEF WatchSteps
<1>4. ~Killed(l) /\ ~EndPass(l)
  BY <1>2, <1>3 DEF Killed, EndPass, Saved
<1>5. ASSUME NEW s \in Watched, NEW mem \in State, Passed(l, s, mem) PROVE FALSE
  BY <1>2, <1>5, TurnsIs DEF Passed
<1>6. ASSUME NEW s \in Watched PROVE ~Skip(l, s) /\ ~Decide(l, s)
  <2>1. lane[l].mem \in State /\ Settles(l, s) \in State
    BY LaneIsTyped, FingerprintIs, StateWith DEF Settles
  <2> QED BY <1>5, <2>1 DEF Skip, Decide
<1> QED BY <1>1, <1>4, <1>6 DEF LaneStep, Boot, BeginPass, Checkpoint, Refused, Fire, Applied, Unclear

LEMMA ConsideredIs ==
  ASSUME WatchInv, NEW l \in Lane, NEW s \in Watched, Consider(l, s), lane'[l].step = "checked"
  PROVE  Agreed(l, s) /\ lane'[l].at = s
<1> DEFINE m(armed) == [lane[l].mem EXCEPT !.armed[s] = armed, !.hold = @ \ {s}]
<1>1. m(None) \in State /\ m(FingerprintOf(l, s)) \in State
  BY LaneIsTyped, FingerprintIs, StateWith
<1>2. IF Agreed(l, s) THEN Turns(l, s, m(None), "checked")
                      ELSE Turns(l, s, m(FingerprintOf(l, s)), "visiting")
  BY DEF Consider, Passed
<1> HIDE DEF m
<1>3. ASSUME NEW mem \in State, NEW step \in {"visiting", "checked"}, Turns(l, s, mem, step)
      PROVE  lane'[l].step = step /\ (step = "checked" => lane'[l].at = s)
  <2>1. PICK r \in LaneType :
          LaneIs(l, r) /\ r.step = step /\ (step = "checked" => r.at = s)
    BY <1>3, TurnsIs
  <2> QED BY <2>1, LaneIsTyped DEF LaneIs, WatchInv, WatchTypeOK
<1> QED BY <1>1, <1>2, <1>3

\* No lane resumes a session headless but from a fingerprint that an earlier
\* pass of its own has armed.
THEOREM ResumedWhenQuietHolds == WatchSpec => ResumedWhenQuiet
<1> DEFINE Quiet(l) ==
             lane[l].step = "visiting" /\ lane'[l].step = "checked" /\ lane'[l].at \in Claude =>
               /\ lane[l].mem.armed[lane'[l].at] # None
               /\ lane[l].mem.armed[lane'[l].at].seen = lane[l].seen[lane'[l].at]
<1>1. WatchInv /\ [WatchNext]_wvars => [\A l \in Lane : Quiet(l)]_wvars
  <2> SUFFICES ASSUME WatchInv, WatchNext, NEW l \in Lane, lane[l].step = "visiting",
                      lane'[l].step = "checked", lane'[l].at \in Claude
               PROVE  /\ lane[l].mem.armed[lane'[l].at] # None
                      /\ lane[l].mem.armed[lane'[l].at].seen = lane[l].seen[lane'[l].at]
    BY DEF wvars
  <2>1. PICK s \in Watched : Consider(l, s)
    BY OnlyConsidered
  <2>2. Agreed(l, s) /\ lane'[l].at = s
    BY <2>1, ConsideredIs
  <2>3. lane[l].mem.armed[s] = FingerprintOf(l, s)
    BY <2>2 DEF Agreed
  <2>4. FingerprintOf(l, s) # None /\ FingerprintOf(l, s).seen = lane[l].seen[s]
    BY FingerprintIs, NoneAssumption DEF Fingerprint, Versions
  <2> QED BY <2>2, <2>3, <2>4
<1> QED BY <1>1, WatchInvariant, PTL DEF WatchSpec, ResumedWhenQuiet
=============================================================================
