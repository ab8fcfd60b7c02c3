------------------------------ MODULE Admission ------------------------------
(***************************************************************************)
(* Admission of inference by one proxy process, and the drain lease that   *)
(* fences it (proxy_drain.rs, and the critical sections of proxy.rs that   *)
(* hold the admission mutex).  Every action is one critical section.       *)
(*                                                                         *)
(* The process's Instants are kept as the time left until them, which is   *)
(* all the code ever compares: Tick lets one second pass.  `expire` runs   *)
(* lazily, at the head of every critical section, so a lease whose time is *)
(* up stays in memory until the next one; Current is what it leaves.       *)
(***************************************************************************)
EXTENDS Integers

CONSTANTS
  Owner,     \* tokens the controllers identify themselves by
  NoLease,   \* the absent lease (Option::None)
  TTL,       \* LEASE_TTL
  MinRoom,   \* MIN_COMMIT_ROOM
  MaxWait,   \* MAX_WAIT_SECS
  MaxEpoch,  \* u64::MAX
  Slots      \* the forwarding limit: requests past try_acquire

Lease == [owner: Owner, expires: 0..TTL, deadline: 0..MaxWait,
          committed: BOOLEAN]

Action == {"acquire", "inspect", "renew", "release", "commit"}

ASSUME TimesAssumption ==
  /\ TTL \in Nat \ {0} /\ MaxWait \in Nat \ {0}
  /\ MinRoom \in 1..TTL
ASSUME LimitsAssumption == MaxEpoch \in Nat /\ Slots \in Nat \ {0}
ASSUME NoLeaseAssumption == NoLease \notin Lease

VARIABLES
  epoch,     \* Admission.epoch: the number of leases ever granted
  legacy,    \* Admission.legacy: the idle-only drain of older controllers
  lease,     \* Admission.lease
  inference  \* Proxy.inference: requests between admission and guard drop

vars == <<epoch, legacy, lease, inference>>

Lesser(a, b) == IF a < b THEN a ELSE b
OneLess(t) == IF t = 0 THEN 0 ELSE t - 1

TypeOK ==
  /\ epoch \in 0..MaxEpoch
  /\ legacy \in BOOLEAN
  /\ lease \in Lease \union {NoLease}
  /\ inference \in 0..Slots

Init ==
  /\ epoch = 0
  /\ legacy = FALSE
  /\ lease = NoLease
  /\ inference = 0

-----------------------------------------------------------------------------

Expired == lease # NoLease /\ ~lease.committed /\ lease.expires = 0

\* The lease once `expire` has run.
Current == IF Expired THEN NoLease ELSE lease

Committed == lease # NoLease /\ lease.committed

\* Admission::blocked.
Blocked == legacy \/ Current # NoLease

\* The phase that status and every accepted control reply report.
Phase ==
  CASE Committed -> "committed"
    [] Current # NoLease /\ ~Committed -> "waiting"
    [] Current = NoLease /\ legacy -> "legacy_idle"
    [] OTHER -> "open"

\* Owner o names the lease in force by the token and the epoch it was given.
Holds(o, e) == Current # NoLease /\ Current.owner = o /\ e = epoch

\* What acquire asks before it grants a lease: each lease has an epoch of
\* its own, and the counter is checked, not wrapped.
Grantable(e) == ~legacy /\ Current = NoLease /\ e = epoch /\ epoch < MaxEpoch

\* A lease runs for TTL, or until its deadline when that comes first.
ExtendedPastDeadline(l) == [l EXCEPT !.expires = TTL]  \* Mutant
Extended(l) == [l EXCEPT !.expires = Lesser(TTL, l.deadline)]

\* What commit asks, again, under the mutex.
Committable == inference = 0 /\ Current.expires >= MinRoom

\* Which control requests are accepted.
Accepts(action, o, e) ==
  \/ action = "acquire" /\ Grantable(e)
  \/ action = "acquire" /\ ~legacy /\ Holds(o, e + 1) /\ ~Current.committed
  \/ action = "inspect" /\ Holds(o, e)
  \/ action \in {"renew", "release"} /\ Holds(o, e) /\ ~Current.committed
  \/ action = "commit" /\ Holds(o, e) /\ (Current.committed \/ Committable)

-----------------------------------------------------------------------------
\* A status request or a refused inference request: all it changes is that
\* an expired lease is dropped.
Observe ==
  /\ lease' = Current
  /\ UNCHANGED <<epoch, legacy, inference>>

\* A refused control request does no more.
Refuse(action, o, e) == ~Accepts(action, o, e) /\ Observe

\* forward: the guard is taken inside the same critical section as the test.
Admit ==
  /\ ~Blocked
  /\ inference < Slots
  /\ inference' = inference + 1
  /\ lease' = Current
  /\ UNCHANGED <<epoch, legacy>>

\* The guard is dropped when forward returns, without the admission mutex.
Finish ==
  /\ inference > 0
  /\ inference' = inference - 1
  /\ UNCHANGED <<epoch, legacy, lease>>

\* Mutant: a legacy control that overrides the lease.
LegacyOverrides(drain) ==
  /\ drain => inference = 0
  /\ legacy' = drain
  /\ lease' = NoLease
  /\ UNCHANGED <<epoch, inference>>

\* The drain and resume endpoints of protocol 0.
Legacy(drain) ==
  /\ Current = NoLease
  /\ drain => inference = 0
  /\ legacy' = drain
  /\ lease' = Current
  /\ UNCHANGED <<epoch, inference>>

Acquire(o, e, wait) ==
  /\ Grantable(e)
  /\ wait \in 1..MaxWait
  /\ epoch' = epoch + 1
  /\ lease' = [owner |-> o, expires |-> Lesser(TTL, wait), deadline |-> wait,
               committed |-> FALSE]
  /\ UNCHANGED <<legacy, inference>>

\* The acquire whose acknowledgement was lost is accepted again, unchanged.
AcquireAgain(o, e) ==
  /\ ~legacy
  /\ Holds(o, e + 1)
  /\ ~Current.committed
  /\ UNCHANGED vars

Inspect(o, e) ==
  /\ Holds(o, e)
  /\ UNCHANGED vars

Renew(o, e) ==
  /\ Holds(o, e)
  /\ ~Current.committed
  /\ lease' = Extended(Current)
  /\ UNCHANGED <<epoch, legacy, inference>>

Release(o, e) ==
  /\ Holds(o, e)
  /\ ~Current.committed
  /\ lease' = NoLease
  /\ UNCHANGED <<epoch, legacy, inference>>

Commit(o, e) ==
  /\ Holds(o, e)
  /\ ~Current.committed
  /\ Committable
  /\ lease' = [Current EXCEPT !.committed = TRUE]
  /\ UNCHANGED <<epoch, legacy, inference>>

\* The commit whose acknowledgement was lost is accepted again.
CommitAgain(o, e) ==
  /\ Holds(o, e)
  /\ Current.committed
  /\ UNCHANGED vars

\* A second passes.
Tick ==
  /\ lease # NoLease
  /\ lease.expires > 0 \/ lease.deadline > 0
  /\ lease' = [lease EXCEPT !.expires = OneLess(@), !.deadline = OneLess(@)]
  /\ UNCHANGED <<epoch, legacy, inference>>

-----------------------------------------------------------------------------
\* Controllers send any action with any epoch they may have read, the one
\* in force or an earlier one: requests can be late.
Control(o, e) ==
  \/ \E action \in Action : Refuse(action, o, e)
  \/ \E wait \in 1..MaxWait : Acquire(o, e, wait)
  \/ AcquireAgain(o, e)
  \/ Inspect(o, e)
  \/ Renew(o, e)
  \/ Release(o, e)
  \/ Commit(o, e)
  \/ CommitAgain(o, e)

Next ==
  \/ Observe
  \/ Admit
  \/ Finish
  \/ \E drain \in BOOLEAN : Legacy(drain)
  \/ \E o \in Owner, e \in 0..MaxEpoch : Control(o, e)
  \/ Tick

Spec == Init /\ [][Next]_vars

\* Time passes; nothing else is assumed of anybody.
FairSpec == Spec /\ WF_vars(Tick)

-----------------------------------------------------------------------------
(* Properties *)

\* Once a stop may be dispatched, or a legacy controller was told that the
\* process is idle, no inference is running (control's commit and legacy
\* against the guard forward takes under the same mutex).
FencedIsIdle == Committed \/ legacy => inference = 0

\* The two fences never overlap: a legacy resume cannot open what a lease
\* holds, and releasing a lease cannot uncover a forgotten legacy drain.
OneFence == ~(legacy /\ lease # NoLease)

\* A committed lease is for ever, and its owner can always name it: no
\* expiry, release, renewal, resume or later acquire ends it or changes its
\* token or epoch.  (A delayed stop must not meet inference admitted since.)
CommittedIsFinal ==
  [][Committed => Committed' /\ lease'.owner = lease.owner /\ epoch' = epoch]_vars

\* A lease keeps the deadline its acquire asked for: as long as it is the
\* same lease, its time left is never extended, by renewal or by retry, and
\* it never promises to live past it.
WithinDeadline ==
  lease # NoLease /\ ~lease.committed => lease.expires <= lease.deadline
DeadlineNeverExtended ==
  [][lease # NoLease /\ lease' # NoLease /\ epoch' = epoch
       => lease'.deadline <= lease.deadline]_vars

\* A controller that vanishes without committing cannot fence the process
\* for ever, whatever it renewed before.
Waits(e) == lease # NoLease /\ ~lease.committed /\ lease.expires > 0 /\ epoch = e
WaitEnds == <>[](\A e \in 1..MaxEpoch : ~Waits(e))

\* Admission is a gate: its epochs, tokens, leases and lazy expiry add no
\* way in and no way to reopen.
GateState ==
  CASE Committed -> "closed"
    [] Blocked /\ ~Committed -> "held"
    [] OTHER -> "open"

G == INSTANCE Gate WITH gate <- GateState, inside <- inference
GateRefined == G!GateSpec
=============================================================================
