------------------------------- MODULE Copies -------------------------------
(***************************************************************************)
(* Copies, forks and restores of gobstopper-adapters (copy.rs and fork.rs, *)
(* with the file operations of transaction.rs): a transform's output is    *)
(* published as a new session file next to its source.  The prepared bytes *)
(* go into the vault, a receipt records the intent, the target is linked   *)
(* into place, and the receipt is completed.  A later call with the same   *)
(* identity finds the receipt and takes up where the first one stopped.    *)
(*                                                                         *)
(* A file is what a process that looks finds (seen) and the contents a     *)
(* power loss may leave it with (kept).  Any call may get an I/O error or  *)
(* be killed at any step.  Users and agents create, edit and delete        *)
(* targets whenever they like.                                             *)
(*                                                                         *)
(* Left out: receipts of schema 1, whose prepared bytes were not stored;   *)
(* the checks of the source, each of which only makes a call fail before   *)
(* anything is published (GiveUp stands for them); the index row of the    *)
(* source's snapshot and pruning in steps, which Vault models.             *)
(***************************************************************************)
EXTENDS Integers

CONSTANTS
  Copies,       \* operation identities: source bytes, inputs and session of a copy
  Paths,        \* where copies go
  PathOf,       \* Copies -> Paths; a fork's session may be chosen, so two may meet
  Commands,     \* calls of publish_prepared and recover_operation at a time
  Absent,       \* no file
  Theirs,       \* a file that is no copy, or no longer one
  MaxLapses,    \* bound: calls that are killed or end in an I/O error
  MaxLosses,    \* bound: power losses
  MaxEdits      \* bound: what users do to targets

ASSUME CopiesAssumption ==
  /\ PathOf \in [Copies -> Paths]
  /\ Absent \notin Copies /\ Theirs \notin Copies /\ Absent # Theirs
  /\ Absent \notin {"there", "pending", "done"}
  /\ {MaxLapses, MaxLosses, MaxEdits} \subseteq Nat

VARIABLES
  prepared,   \* Copies -> the vault's objects of each: its source and its output
  receipt,    \* Copies -> operations/<identity>.json
  target,     \* Paths -> the session file there
  call,       \* Commands -> what each is doing
  told,       \* copies whose completed receipt was returned to a caller
  unsure,     \* copies taken up on a receipt that came after the sync of its directory
  edited,     \* paths that somebody else has changed
  lapses, losses, edits   \* counters

copyVars ==
  <<prepared, receipt, target, call, told, unsure, edited, lapses, losses, edits>>

-----------------------------------------------------------------------------
(* Files                                                                   *)

Certain(c) == [seen |-> c, kept |-> {c}]
\* Linked or renamed into place, its directory not yet synced.
Shown(f, c) == [seen |-> c, kept |-> f.kept \cup {c}]
Flushed(f) == Certain(f.seen)

NoCall == [at |-> "idle", of |-> Absent, recovers |-> FALSE, found |-> Absent]
CopySteps == {"idle", "opened", "look", "store", "stored", "intend", "intended", "check", "deliver",
          "delivered", "confirm", "sync", "confirmed", "complete", "completed"}

\* found: the receipt there was when the directory was synced, until the lock is taken.
Calls == [at : CopySteps, of : Copies \cup {Absent}, recovers : BOOLEAN,
          found : {Absent, "pending", "done"}]
File(contents) == [seen : contents, kept : SUBSET contents]
CopiesTypeOK ==
  /\ prepared \in [Copies -> File({Absent, "there"})]
  /\ receipt \in [Copies -> File({Absent, "pending", "done"})]
  /\ target \in [Paths -> File({Absent, Theirs} \cup Copies)]
  /\ call \in [Commands -> Calls]
  /\ told \subseteq Copies /\ unsure \subseteq Copies /\ edited \subseteq Paths
  /\ lapses \in Nat /\ losses \in Nat /\ edits \in Nat

CopiesInit ==
  /\ prepared = [o \in Copies |-> Certain(Absent)]
  /\ receipt = [o \in Copies |-> Certain(Absent)]
  /\ target = [t \in Paths |-> Certain(Absent)]
  /\ call = [p \in Commands |-> NoCall]
  /\ told = {} /\ unsure = {} /\ edited = {}
  /\ lapses = 0 /\ losses = 0 /\ edits = 0

-----------------------------------------------------------------------------
(* One call                                                                *)

Of(p) == call[p].of
TargetOf(p) == target[PathOf[Of(p)]]
At(p, step) == call[p].at = step
Proceed(p, step) == call' = [call EXCEPT ![p].at = step]
Return(p) == call' = [call EXCEPT ![p] = NoCall]
Unless(p, bad, step) == IF bad THEN Return(p) ELSE Proceed(p, step)

\* As if the directory were only looked at.
SeenDirectory == receipt

\* lock_operation has the directory of the receipts synced first (private_dir) ...
OpenedDirectory == [o \in Copies |-> Flushed(receipt[o])]
Begin(p, o, recovers) ==
  /\ At(p, "idle")
  /\ receipt' = OpenedDirectory
  /\ call' = [call EXCEPT ![p] = [at |-> "opened", of |-> o, recovers |-> recovers,
                                  found |-> receipt[o].seen]]
  /\ UNCHANGED <<prepared, target, told, unsure, edited, lapses, losses, edits>>

\* ... and then tries the operation's lock.  Who had it in between may have changed
\* the receipt, and left it without a sync.
HasLock(p) == ~At(p, "idle") /\ ~At(p, "opened")
Overtaken(p) ==
  /\ receipt[Of(p)].seen # call[p].found
  /\ receipt[Of(p)].kept # {receipt[Of(p)].seen}
TryLock(p) ==
  /\ At(p, "opened")
  /\ IF \E q \in Commands : HasLock(q) /\ Of(q) = Of(p)
     THEN Return(p) /\ UNCHANGED unsure
     ELSE /\ call' = [call EXCEPT ![p].at = "look", ![p].found = Absent]
          /\ unsure' = unsure \cup {o \in {Of(p)} : Overtaken(p)}
  /\ UNCHANGED <<prepared, receipt, target, told, edited, lapses, losses, edits>>

\* A receipt is taken up; without one, a copy needs a free target.
Look(p) ==
  /\ At(p, "look")
  /\ \/ receipt[Of(p)].seen # Absent /\ Proceed(p, "check")
     \/ /\ receipt[Of(p)].seen = Absent
        /\ Unless(p, call[p].recovers \/ TargetOf(p).seen # Absent, "store")
  /\ UNCHANGED <<prepared, receipt, target, told, unsure, edited, lapses, losses, edits>>

\* snapshot_data and store_object_locked: what is there already is not written,
\* but it is confirmed like what is written now.
Store(p) ==
  /\ At(p, "store")
  /\ prepared' = [prepared EXCEPT ![Of(p)] = Shown(@, "there")]
  /\ Proceed(p, "stored")
  /\ UNCHANGED <<receipt, target, told, unsure, edited, lapses, losses, edits>>

SyncStored(p) ==
  /\ At(p, "stored")
  /\ prepared' = [prepared EXCEPT ![Of(p)] = Flushed(@)]
  /\ Proceed(p, "intend")
  /\ UNCHANGED <<receipt, target, told, unsure, edited, lapses, losses, edits>>

Intend(p) ==
  /\ At(p, "intend")
  /\ receipt' = [receipt EXCEPT ![Of(p)] = Shown(@, "pending")]
  /\ Proceed(p, "intended")
  /\ UNCHANGED <<prepared, target, told, unsure, edited, lapses, losses, edits>>

SyncIntent(p) ==
  /\ At(p, "intended")
  /\ receipt' = [receipt EXCEPT ![Of(p)] = Flushed(@)]
  /\ Proceed(p, "check")
  /\ UNCHANGED <<prepared, target, told, unsure, edited, lapses, losses, edits>>

\* reconcile_locked: the recorded objects must be readable, the target must be
\* the copy, or be missing from one that was not completed.
Check(p) ==
  LET completed == receipt[Of(p)].seen = "done"
      found == TargetOf(p).seen
  IN /\ At(p, "check")
     /\ IF prepared[Of(p)].seen = Absent \/ found \notin {Absent, Of(p)}
          \/ (completed /\ found = Absent)
        THEN Return(p) /\ UNCHANGED told
        ELSE IF completed THEN Return(p) /\ told' = told \cup {Of(p)}
        ELSE Proceed(p, IF found = Absent THEN "deliver" ELSE "confirm") /\ UNCHANGED told
     /\ UNCHANGED <<prepared, receipt, target, unsure, edited, lapses, losses, edits>>

\* As if the target were renamed into place.
Overwrite(p) ==
  /\ At(p, "deliver")
  /\ Proceed(p, "delivered")
  /\ target' = [target EXCEPT ![PathOf[Of(p)]] = Shown(@, Of(p))]
  /\ UNCHANGED <<prepared, receipt, told, unsure, edited, lapses, losses, edits>>

\* publish_new links the target, which fails if there is one by now.
Deliver(p) ==
  /\ At(p, "deliver")
  /\ Unless(p, TargetOf(p).seen # Absent, "delivered")
  /\ target' = IF TargetOf(p).seen # Absent THEN target
               ELSE [target EXCEPT ![PathOf[Of(p)]] = Shown(@, Of(p))]
  /\ UNCHANGED <<prepared, receipt, told, unsure, edited, lapses, losses, edits>>

SyncDelivery(p) ==
  /\ At(p, "delivered")
  /\ target' = [target EXCEPT ![PathOf[Of(p)]] = Flushed(@)]
  /\ Proceed(p, "confirm")
  /\ UNCHANGED <<prepared, receipt, told, unsure, edited, lapses, losses, edits>>

\* confirm_publication reads the target, syncs file and directory, reads again.
ConfirmTarget(p) ==
  /\ At(p, "confirm")
  /\ Unless(p, TargetOf(p).seen # Of(p), "sync")
  /\ UNCHANGED <<prepared, receipt, target, told, unsure, edited, lapses, losses, edits>>

\* As if bytes that read well were on the disk.
TrustConfirmed(p) ==
  /\ At(p, "sync")
  /\ Proceed(p, "confirmed")
  /\ UNCHANGED <<prepared, receipt, target, told, unsure, edited, lapses, losses, edits>>

SyncConfirmed(p) ==
  /\ At(p, "sync")
  /\ target' = [target EXCEPT ![PathOf[Of(p)]] = Flushed(@)]
  /\ Proceed(p, "confirmed")
  /\ UNCHANGED <<prepared, receipt, told, unsure, edited, lapses, losses, edits>>

Reread(p) ==
  /\ At(p, "confirmed")
  /\ Unless(p, TargetOf(p).seen # Of(p), "complete")
  /\ UNCHANGED <<prepared, receipt, target, told, unsure, edited, lapses, losses, edits>>

\* replace renames the completed receipt over the pending one.
Complete(p) ==
  /\ At(p, "complete")
  /\ receipt' = [receipt EXCEPT ![Of(p)] = Shown(@, "done")]
  /\ Proceed(p, "completed")
  /\ UNCHANGED <<prepared, target, told, unsure, edited, lapses, losses, edits>>

SyncCompletion(p) ==
  /\ At(p, "completed")
  /\ receipt' = [receipt EXCEPT ![Of(p)] = Flushed(@)]
  /\ told' = told \cup {Of(p)}
  /\ Return(p)
  /\ UNCHANGED <<prepared, target, unsure, edited, lapses, losses, edits>>

\* An I/O error, a refusal or a kill.  The locks go with the process.
FailCall(p) ==
  /\ ~At(p, "idle") /\ lapses < MaxLapses
  /\ lapses' = lapses + 1
  /\ Return(p)
  /\ UNCHANGED <<prepared, receipt, target, told, unsure, edited, losses, edits>>

CallStep(p) ==
  \/ \E o \in Copies, recovers \in BOOLEAN : Begin(p, o, recovers)
  \/ TryLock(p) \/ Look(p) \/ Store(p) \/ SyncStored(p) \/ Intend(p) \/ SyncIntent(p) \/ Check(p)
  \/ Deliver(p) \/ SyncDelivery(p) \/ ConfirmTarget(p) \/ SyncConfirmed(p) \/ Reread(p)
  \/ Complete(p) \/ SyncCompletion(p) \/ FailCall(p)

-----------------------------------------------------------------------------
(* Others                                                                  *)

\* prune, alone in the vault, refuses if an object of a receipt is missing, and
\* collects what belongs to none.  The removal may be synced or not.
Collectable == {o \in Copies : receipt[o].seen = Absent}
Collect(o) ==
  /\ \A p \in Commands : At(p, "idle")
  /\ \A i \in Copies : receipt[i].seen # Absent => prepared[i].seen = "there"
  /\ o \in Collectable /\ prepared[o].seen = "there"
  /\ \E f \in {Shown(prepared[o], Absent), Certain(Absent)} : prepared' = [prepared EXCEPT ![o] = f]
  /\ UNCHANGED <<receipt, target, call, told, unsure, edited, lapses, losses, edits>>

\* A user, or an agent that continues a copied session.
EditTarget(t) ==
  /\ edits < MaxEdits
  /\ \E c \in {Absent, Theirs} \ {target[t].seen} : target' = [target EXCEPT ![t] = Shown(@, c)]
  /\ edited' = edited \cup {t}
  /\ edits' = edits + 1
  /\ UNCHANGED <<prepared, receipt, call, told, unsure, lapses, losses>>

\* Any content that was not superseded on the disk may come back.
After(files, settled) == \A i \in DOMAIN files : \E c \in files[i].kept : settled[i] = Certain(c)
LosePower ==
  /\ losses < MaxLosses
  /\ prepared' \in {f \in [Copies -> {Certain(c) : c \in {Absent, "there"}}] : After(prepared, f)}
  /\ receipt' \in {f \in [Copies -> {Certain(c) : c \in {Absent, "pending", "done"}}] : After(receipt, f)}
  /\ target' \in {f \in [Paths -> {Certain(c) : c \in {Absent, Theirs} \cup Copies}] : After(target, f)}
  /\ call' = [p \in Commands |-> NoCall]
  /\ losses' = losses + 1
  /\ UNCHANGED <<told, unsure, edited, lapses, edits>>

CopyNext ==
  \/ \E p \in Commands : CallStep(p)
  \/ \E o \in Copies : Collect(o)
  \/ \E t \in Paths : EditTarget(t)
  \/ LosePower

CopySpec == CopiesInit /\ [][CopyNext]_copyVars

-----------------------------------------------------------------------------
(* What must hold                                                          *)

\* Whatever a power loss takes back: a copy in a session directory has its receipt
\* (without one, every later attempt would find the target taken and refuse for
\* ever), and a receipt has the bytes to publish the copy again.  The first is not so
\* of a copy whose call was overtaken between the sync of the directory and its lock
\* (lock_operation): OutputHasIntent, below, is broken by that and by nothing else.
HasIntent(o) == o \in target[PathOf[o]].kept => Absent \notin receipt[o].kept
Explained == \A o \in Copies \ unsure : HasIntent(o)
Recoverable == \A o \in Copies :
  receipt[o].kept # {Absent} => prepared[o].kept = {"there"}
CopiesAreRecoverable == Explained /\ Recoverable

\* verify/vault/README.md:152 says of every copy: "Published candidate bytes have an
\* already durable prepared/completed record."
OutputHasIntent == \A o \in Copies : HasIntent(o)

\* A receipt says that the copy is complete only when no power loss can take the
\* copy back, or "completed copy output is missing; repair required" would be the
\* answer for ever; and what a caller was told stays recorded, but for a call that was
\* overtaken, which returns a receipt that nobody has synced.
DeliveryIsFinal == \A o \in Copies :
  /\ "done" \in receipt[o].kept /\ PathOf[o] \notin edited => target[PathOf[o]].kept = {o}
  /\ o \in told \ unsure => receipt[o].kept = {"done"}

\* A file that is in the place of a copy is never overwritten or removed, whoever
\* puts it there between the look at the target and its publication.
NeverOverwritten ==
  [][\A t \in Paths : target'[t].seen # target[t].seen =>
       target[t].seen = Absent \/ edits' # edits \/ losses' # losses]_copyVars
=============================================================================
