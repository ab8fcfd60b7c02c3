-------------------------------- MODULE Power --------------------------------
(***************************************************************************)
(* The assertion that keeps the computer from its idle sleep while model   *)
(* requests are in flight (power.rs).  Requests only count themselves and  *)
(* unpark one background owner, which alone acquires, checks and releases. *)
(*                                                                         *)
(* An acquisition may take any time and fail; on Linux the helper process  *)
(* that stands for the assertion may exit; a native call may panic.  The   *)
(* owner holds no strong reference while it is parked, so that it ends     *)
(* when the last of Power and its guards is gone.  What status() shows,    *)
(* but for `held`, is left out.                                            *)
(***************************************************************************)
EXTENDS Naturals, FiniteSets

CONSTANTS
  Inference,    \* requests that may be in flight
  MaxFailures   \* bound: failed acquisitions, exits of the helper, panics

ASSUME FailureAssumption == MaxFailures \in Nat

VARIABLES
  guard,      \* Inference -> where its Guard is
  power,      \* the Power itself is alive
  permit,     \* the owner's unpark permit
  owner,      \* what the owner does
  assertion,  \* what the operating system was asked for, and whether it still is
  backoff,    \* retry_after lies ahead
  held,       \* what others are told
  failures

powerVars == <<guard, power, permit, owner, assertion, backoff, held, failures>>

PowerTypeOK ==
  /\ guard \in [Inference -> {"none", "counted", "serving", "uncounted"}]
  /\ power \in BOOLEAN /\ permit \in BOOLEAN /\ backoff \in BOOLEAN /\ held \in BOOLEAN
  /\ owner \in {"parked", "awake", "serving", "without", "acquiring", "looking",
                "panicked", "ended"}
  /\ assertion \in {"none", "held", "dead"}
  /\ failures \in 0..MaxFailures

PowerInit ==
  /\ guard = [i \in Inference |-> "none"]
  /\ power = TRUE /\ permit = FALSE
  /\ owner \in {"awake", "ended"}   \* no thread could be started
  /\ assertion = "none" /\ backoff = FALSE /\ held = FALSE
  /\ failures = 0

\* State.active, and whether Weak::upgrade finds anybody.
Active == {i \in Inference : guard[i] \in {"counted", "serving"}}
Upgrades == power \/ \E i \in Inference : guard[i] # "none"

-----------------------------------------------------------------------------
(* Requests                                                                *)

GuardIs(i, from, to) == guard[i] = from /\ guard' = [guard EXCEPT ![i] = to]

\* Power::acquire counts, then wakes.
CountIn(i) ==
  /\ power /\ GuardIs(i, "none", "counted")
  /\ UNCHANGED <<power, permit, owner, assertion, backoff, held, failures>>
WakeIn(i) ==
  /\ GuardIs(i, "counted", "serving")
  /\ permit' = TRUE
  /\ UNCHANGED <<power, owner, assertion, backoff, held, failures>>

\* The drop of a Guard counts, wakes, and lets its reference go.
CountOut(i) ==
  /\ GuardIs(i, "serving", "uncounted")
  /\ UNCHANGED <<power, permit, owner, assertion, backoff, held, failures>>
WakeOut(i) ==
  /\ GuardIs(i, "uncounted", "none")
  /\ permit' = TRUE
  /\ UNCHANGED <<power, owner, assertion, backoff, held, failures>>

DropPower ==
  /\ power
  /\ power' = FALSE /\ permit' = TRUE
  /\ UNCHANGED <<guard, owner, assertion, backoff, held, failures>>

-----------------------------------------------------------------------------
(* The owner: run_worker                                                   *)

OwnerAt(from, to) == owner = from /\ owner' = to
Releases == assertion' = "none" /\ held' = FALSE
KeepsAll == UNCHANGED <<assertion, held>>

\* park_timeout returns for a permit, or after a second.
Unpark ==
  /\ OwnerAt("parked", "awake")
  /\ permit' = FALSE
  /\ UNCHANGED <<guard, power, assertion, backoff, held, failures>>

\* No Power and no Guard is left: the owner ends, and the assertion with it.
Expire ==
  /\ OwnerAt("awake", "ended") /\ ~Upgrades
  /\ assertion' = "none"
  /\ UNCHANGED <<guard, power, permit, backoff, held, failures>>

LeavesIt == KeepsAll                                                   \* Mutant
LetsGo == Releases

\* Nobody is served: idle, and parked again.
Idle ==
  /\ OwnerAt("awake", "parked") /\ Upgrades /\ Active = {}
  /\ LetsGo
  /\ UNCHANGED <<guard, power, permit, backoff, failures>>

Busy ==
  /\ OwnerAt("awake", "serving") /\ Upgrades /\ Active # {}
  /\ UNCHANGED <<guard, power, permit, assertion, backoff, held, failures>>

AliveAlways == TRUE                                                    \* Mutant
Alive == assertion = "held"

\* Assertion::alive, and a dead one is given up for a while.
Check ==
  /\ OwnerAt("serving", "without")
  /\ IF assertion = "none" \/ Alive THEN KeepsAll /\ UNCHANGED backoff
     ELSE Releases /\ backoff' = TRUE
  /\ UNCHANGED <<guard, power, permit, failures>>

BeginAcquire ==
  /\ OwnerAt("without", IF assertion = "none" /\ ~backoff THEN "acquiring" ELSE "looking")
  /\ UNCHANGED <<guard, power, permit, assertion, backoff, held, failures>>

Acquired ==
  /\ OwnerAt("acquiring", "looking")
  /\ assertion' = "held" /\ held' = TRUE
  /\ UNCHANGED <<guard, power, permit, backoff, failures>>

Fails == failures < MaxFailures /\ failures' = failures + 1

NotAcquired ==
  /\ OwnerAt("acquiring", "looking") /\ Fails
  /\ backoff' = TRUE
  /\ UNCHANGED <<guard, power, permit, assertion, held>>

KeepsLate == KeepsAll                                                  \* Mutant
\* Requests may have finished meanwhile: the last look before it parks.
LastLook == IF Active = {} THEN Releases ELSE KeepsAll
Look ==
  /\ OwnerAt("looking", "parked")
  /\ LastLook
  /\ UNCHANGED <<guard, power, permit, backoff, failures>>

\* Unwinding drops the assertion; then the status says so.
Panic ==
  /\ owner \in {"serving", "acquiring"} /\ Fails
  /\ owner' = "panicked" /\ assertion' = "none"
  /\ UNCHANGED <<guard, power, permit, backoff, held>>
Unavailable ==
  /\ OwnerAt("panicked", "ended")
  /\ held' = IF Upgrades THEN FALSE ELSE held
  /\ UNCHANGED <<guard, power, permit, assertion, backoff, failures>>

-----------------------------------------------------------------------------
HelperExits ==
  /\ assertion = "held" /\ Fails
  /\ assertion' = "dead"
  /\ UNCHANGED <<guard, power, permit, owner, backoff, held>>

RetryIsDue ==
  /\ backoff /\ backoff' = FALSE
  /\ UNCHANGED <<guard, power, permit, owner, assertion, held, failures>>

OwnerSteps ==
  Unpark \/ Expire \/ Idle \/ Busy \/ Check \/ BeginAcquire \/ Acquired \/ NotAcquired \/ Look
  \/ Unavailable
PowerNext ==
  \/ \E i \in Inference : CountIn(i) \/ WakeIn(i) \/ CountOut(i) \/ WakeOut(i)
  \/ DropPower
  \/ OwnerSteps \/ Panic
  \/ HelperExits \/ RetryIsDue

\* Native calls return and time passes.  No request is assumed to go on, and so
\* none to wake the owner: its own poll is enough.
PowerFairness == WF_powerVars(OwnerSteps) /\ WF_powerVars(RetryIsDue)
PowerSpec == PowerInit /\ [][PowerNext]_powerVars /\ PowerFairness

-----------------------------------------------------------------------------
(* Properties *)

\* As long as requests are in flight, the computer is again and again kept
\* awake, unless the owner has panicked: a failed acquisition and a dead helper
\* are made up for.
AwakeWhileServing ==
  <>[](Active # {}) => (<>[](assertion = "held") \/ <>(owner \in {"panicked", "ended"}))

\* And as long as there are none, it may again and again sleep, though the
\* proxy be gone.
SleepsWhenIdle == []<>(assertion = "none" \/ Active # {})

\* The assertion follows the demand, both ways.
AssertionFollows == AwakeWhileServing /\ SleepsWhenIdle

\* The owner parks with an assertion only if a request is in flight then: a
\* late acquisition is not kept on the word of an earlier look.
NoLateAssertion ==
  [][owner # "parked" /\ owner' = "parked" /\ assertion' # "none" => Active # {}]_powerVars

\* Once parked, what others are told is what the owner has.
HeldIsTrue == owner = "parked" => (held <=> assertion # "none")
=============================================================================
