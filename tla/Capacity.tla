------------------------------ MODULE Capacity ------------------------------
(***************************************************************************)
(* The bounded resources of the proxy and who holds them (proxy_work.rs,   *)
(* and handle, dispatch_connection and the guards of proxy.rs): sockets,   *)
(* forwarding slots, request memory and transform workers.                 *)
(*                                                                         *)
(* Every counter is an atomic the code reads, tests and adds to in one     *)
(* operation, and subtracts from when a guard is dropped; between two such *)
(* operations of one thread all the others may run.  A request never runs  *)
(* a transform itself: it spawns a thread, waits until a timeout, and goes *)
(* on without it, while the thread keeps the job (a worker and a copy of   *)
(* the body) until its real exit, if there is ever one.                    *)
(***************************************************************************)
EXTENDS Integers, FiniteSets, FiniteSetsExt

CONSTANTS
  Conn,           \* connections that are ever accepted
  MaxJobs,        \* jobs one request ever starts (bounds the model)
  Limit,          \* MAX_CONNECTIONS, the limit of forwarding slots
  Reserve,        \* CONTROL_RESERVE
  Workers,        \* WORKERS
  MemoryLimit,    \* BODY_BUDGET
  MaxBody,        \* MAX_BODY_BYTES
  TransformLimit  \* TRANSFORM_LIMIT

ASSUME ConnAssumption == IsFiniteSet(Conn)
ASSUME CapacityAssumption ==
  /\ MaxJobs \in Nat /\ Limit \in Nat /\ Reserve \in Nat /\ Workers \in Nat
  /\ MemoryLimit \in Nat /\ MaxBody \in Nat /\ TransformLimit \in Nat

Jobs == Conn \X (1..MaxJobs)

VARIABLES
  active,      \* Proxy.active: sockets
  forwarding,  \* Proxy.forwarding: slots of requests that are not control
  used,        \* MemoryBudget.used
  workers,     \* State.active of the worker pool
  at,          \* where the thread of a connection is
  body,        \* bytes of the connection's body_memory lease
  job,         \* where the latest and the earlier jobs of a connection are
  input,       \* bytes of a job's memory lease
  started      \* jobs a connection has started

sockets == <<active, forwarding>>
capacityVars == <<active, forwarding, used, workers, at, body, job, input, started>>

Place == {"new", "head", "control", "body", "forward", "claimed", "leased",
          "unspawned", "waiting", "unwinding", "unslotting", "leaving", "closed"}
JobPlace == {"none", "claimed", "leased", "running", "done", "slotless", "gone"}

CapacityTypeOK ==
  /\ active \in Nat /\ forwarding \in Nat /\ used \in Nat /\ workers \in Nat
  /\ at \in [Conn -> Place]
  /\ body \in [Conn -> 0..MaxBody]
  /\ job \in [Jobs -> JobPlace]
  /\ input \in [Jobs -> 0..MaxBody]
  /\ started \in [Conn -> 0..MaxJobs]

CapacityInit ==
  /\ active = 0 /\ forwarding = 0 /\ used = 0 /\ workers = 0
  /\ at = [c \in Conn |-> "new"]
  /\ body = [c \in Conn |-> 0]
  /\ job = [j \in Jobs |-> "none"]
  /\ input = [j \in Jobs |-> 0]
  /\ started = [c \in Conn |-> 0]

\* The job a connection started last.
Latest(c) == <<c, started[c]>>

\* The lines a request's thread goes through.
Step(c, from, to) == at[c] = from /\ at' = [at EXCEPT ![c] = to]
JobStep(j, from, to) == job[j] = from /\ job' = [job EXCEPT ![j] = to]

\* MemoryLease::grow, when it succeeds.
Fits(n) == used + n <= MemoryLimit

-----------------------------------------------------------------------------
(* The connection: dispatch_connection and handle.                         *)

Accept(c) ==
  /\ active < Limit + Reserve
  /\ active' = active + 1
  /\ Step(c, "new", "head")
  /\ UNCHANGED <<forwarding, used, workers, body, job, input, started>>

\* A thread that cannot be spawned, a slow or malformed head, a host that is
\* not loopback, or no forwarding slot.
TurnAway(c) ==
  /\ Step(c, "head", "leaving")
  /\ UNCHANGED <<sockets, used, workers, body, job, input, started>>

\* Status, readiness and service control need no forwarding slot.
ReadControlHead(c) ==
  /\ Step(c, "head", "control")
  /\ UNCHANGED <<sockets, used, workers, body, job, input, started>>

AnswerControl(c) ==
  /\ Step(c, "control", "leaving")
  /\ UNCHANGED <<sockets, used, workers, body, job, input, started>>

SlotFree == forwarding < Limit

ReadHead(c) ==
  /\ SlotFree
  /\ forwarding' = forwarding + 1
  /\ Step(c, "head", "body")
  /\ UNCHANGED <<active, used, workers, body, job, input, started>>

\* A chunk, or a declared length, is leased before it is read.
GrowBody(c, n) ==
  /\ at[c] = "body"
  /\ Fits(n)
  /\ body[c] + n <= MaxBody
  /\ used' = used + n
  /\ body' = [body EXCEPT ![c] = @ + n]
  /\ UNCHANGED <<sockets, workers, at, job, input, started>>

BodyRead(c) ==
  /\ Step(c, "body", "forward")
  /\ UNCHANGED <<sockets, used, workers, body, job, input, started>>

\* The memory is full, the body too large, or the client too slow.
BodyRefused(c) ==
  /\ Step(c, "body", "unwinding")
  /\ UNCHANGED <<sockets, used, workers, body, job, input, started>>

\* forward returns, whatever it did with the provider.
Answered(c) ==
  /\ Step(c, "forward", "unwinding")
  /\ UNCHANGED <<sockets, used, workers, body, job, input, started>>

\* The guards are dropped one by one, the last acquired first.
DropBody(c) ==
  /\ Step(c, "unwinding", "unslotting")
  /\ used' = used - body[c]
  /\ body' = [body EXCEPT ![c] = 0]
  /\ UNCHANGED <<sockets, workers, job, input, started>>

DropForwarding(c) ==
  /\ Step(c, "unslotting", "leaving")
  /\ forwarding' = forwarding - 1
  /\ UNCHANGED <<active, used, workers, body, job, input, started>>

Close(c) ==
  /\ Step(c, "leaving", "closed")
  /\ active' = active - 1
  /\ UNCHANGED <<forwarding, used, workers, body, job, input, started>>

-----------------------------------------------------------------------------
(* The request's side of a job: Workers::acquire and Job::run.             *)

\* A request that finds no worker goes on in "forward" without one.
ClaimWorker(c) ==
  /\ started[c] < MaxJobs
  /\ body[c] <= TransformLimit
  /\ workers < Workers
  /\ workers' = workers + 1
  /\ started' = [started EXCEPT ![c] = @ + 1]
  /\ job' = [job EXCEPT ![<<c, started[c] + 1>>] = "claimed"]
  /\ Step(c, "forward", "claimed")
  /\ UNCHANGED <<sockets, used, body, input>>

LeaseInput(c) ==
  /\ Step(c, "claimed", "leased")
  /\ Fits(body[c])
  /\ used' = used + body[c]
  /\ input' = [input EXCEPT ![Latest(c)] = body[c]]
  /\ JobStep(Latest(c), "claimed", "leased")
  /\ UNCHANGED <<sockets, workers, body, started>>

\* Mutant: the slot is forgotten when the memory is full.
NoMemoryLeaks(c) ==
  /\ Step(c, "claimed", "forward")
  /\ ~Fits(body[c])
  /\ JobStep(Latest(c), "claimed", "gone")
  /\ UNCHANGED <<sockets, used, workers, body, input, started>>

\* The job built for the claimed slot is dropped again.
NoMemory(c) ==
  /\ Step(c, "claimed", "forward")
  /\ ~Fits(body[c])
  /\ workers' = workers - 1
  /\ JobStep(Latest(c), "claimed", "gone")
  /\ UNCHANGED <<sockets, used, body, input, started>>

Spawn(c) ==
  /\ Step(c, "leased", "waiting")
  /\ JobStep(Latest(c), "leased", "running")
  /\ UNCHANGED <<sockets, used, workers, body, input, started>>

\* The closure that owns the job is dropped by the failing spawn.  (So is
\* a job whose request finds the calibrations locked.)
SpawnFails(c) ==
  /\ Step(c, "leased", "unspawned")
  /\ JobStep(Latest(c), "leased", "done")
  /\ UNCHANGED <<sockets, used, workers, body, input, started>>

Unspawned(c) ==
  /\ Step(c, "unspawned", "forward")
  /\ job[Latest(c)] = "gone"
  /\ UNCHANGED <<sockets, used, workers, body, job, input, started>>

\* recv_timeout returns the result that was sent, of a panic too.
Receive(c) ==
  /\ Step(c, "waiting", "forward")
  /\ job[Latest(c)] \in {"done", "slotless", "gone"}
  /\ UNCHANGED <<sockets, used, workers, body, job, input, started>>

\* Mutant: a timeout hands the worker to the next request.
TimeOutReleasing(c) ==
  /\ Step(c, "waiting", "forward")
  /\ job[Latest(c)] = "running"
  /\ workers' = workers - 1
  /\ UNCHANGED <<sockets, used, body, job, input, started>>

\* Mutant: recv without a timeout.
TimeOutNever(c) == at[c] = "waiting" /\ job[Latest(c)] = "gone" /\ Receive(c)

\* The result is abandoned; the thread and what it holds are not.
TimeOut(c) ==
  /\ Step(c, "waiting", "forward")
  /\ job[Latest(c)] = "running"
  /\ UNCHANGED <<sockets, used, workers, body, job, input, started>>

-----------------------------------------------------------------------------
(* The thread's side.                                                      *)

\* The work returned or panicked, and the result is in the channel.
Complete(j) ==
  /\ JobStep(j, "running", "done")
  /\ UNCHANGED <<sockets, used, workers, at, body, input, started>>

\* Job::drop first, then the lease inside the job.
ReleaseSlot(j) ==
  /\ JobStep(j, "done", "slotless")
  /\ workers' = workers - 1
  /\ UNCHANGED <<sockets, used, at, body, input, started>>

ReleaseInput(j) ==
  /\ JobStep(j, "slotless", "gone")
  /\ used' = used - input[j]
  /\ input' = [input EXCEPT ![j] = 0]
  /\ UNCHANGED <<sockets, workers, at, body, started>>

-----------------------------------------------------------------------------
\* What a request's thread does by itself, with the outcome of each step
\* left open.
Connection(c) ==
  \/ Accept(c) \/ TurnAway(c) \/ ReadControlHead(c) \/ AnswerControl(c)
  \/ ReadHead(c) \/ (\E n \in 1..MaxBody : GrowBody(c, n)) \/ BodyRead(c)
  \/ BodyRefused(c) \/ Answered(c) \/ DropBody(c) \/ DropForwarding(c) \/ Close(c)

Request(c) ==
  \/ ClaimWorker(c) \/ LeaseInput(c) \/ NoMemory(c) \/ Spawn(c)
  \/ SpawnFails(c) \/ Unspawned(c) \/ Receive(c) \/ TimeOut(c)

Drop(j) == ReleaseSlot(j) \/ ReleaseInput(j)

CapacityNext ==
  \/ \E c \in Conn : Connection(c) \/ Request(c)
  \/ \E j \in Jobs : Complete(j) \/ Drop(j)

CapacitySpec == CapacityInit /\ [][CapacityNext]_capacityVars

\* Request threads keep going: their reads, writes and waits all have
\* deadlines.  Of the work in a job nothing is assumed.
RequestFairness ==
  /\ \A c \in Conn : WF_capacityVars(at[c] # "new" /\ (Connection(c) \/ Request(c)))
  /\ \A j \in Jobs : WF_capacityVars(Drop(j))
FairCapacity == CapacitySpec /\ RequestFairness

-----------------------------------------------------------------------------
(* Properties *)

\* Who holds what.
Open == Place \ {"new", "closed"}
Slotted == Open \ {"head", "control", "leaving"}
Working == {"claimed", "leased", "running", "done"}
Connected == {c \in Conn : at[c] \in Open}
Forwarding == {c \in Conn : at[c] \in Slotted}
Occupied == {j \in Jobs : job[j] \in Working}

\* Every counter says how much is held, at every instant and on every path:
\* timeouts, panics, failed spawns and refused memory included.
SlotsAccounted ==
  /\ active = Cardinality(Connected)
  /\ forwarding = Cardinality(Forwarding)
  /\ workers = Cardinality(Occupied)

\* Stalled work does not accumulate: however many requests time out on it,
\* no more threads than Workers are ever at work.
StalledWorkIsBounded ==
  Cardinality({j \in Jobs : job[j] = "running"}) <= Workers

\* Forwarding cannot occupy the sockets reserved for control: as long as
\* fewer than Reserve others are open, a control connection is accepted.
ControlIsReachable ==
  Cardinality(Connected \ Forwarding) < Reserve => active < Limit + Reserve

\* No request waits for a transform that never ends, be it the last or not.
EveryRequestEnds == <>[](\A c \in Conn : at[c] \in {"new", "closed"})

\* Whatever timed out, failed or was refused, everything comes back, unless work
\* in a job goes on for ever.
EverythingReturns ==
  <>[](\A j \in Jobs : job[j] # "running") =>
    <>[](active = 0 /\ forwarding = 0 /\ used = 0 /\ workers = 0)

\* Both: no request is held up by a transform, and no claim is lost.
WorkEnds == EveryRequestEnds /\ EverythingReturns
=============================================================================
