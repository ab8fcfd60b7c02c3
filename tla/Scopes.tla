------------------------------- MODULE Scopes -------------------------------
(***************************************************************************)
(* The context reservations of one scope (context.rs) and the proxy's use  *)
(* of them (proxy_context.rs, publish_prepared in proxy.rs).               *)
(*                                                                         *)
(* Each operation of context.rs is one immediate transaction on the        *)
(* scope's row and its evidence.  A request consumes in a worker thread    *)
(* that its own thread may stop waiting for; what was read again is        *)
(* reported by another thread, later, with the decision the request was    *)
(* prepared under.  Meanwhile the commands of an agent reserve, release    *)
(* and close, the wall clock goes forward or is set back, and the proxy    *)
(* may be restarted.                                                       *)
(*                                                                         *)
(* Left out: the limits of 4096 scopes and of 2048 pieces of evidence, the *)
(* base threshold kept for display, and opening and upgrading the store.   *)
(***************************************************************************)
EXTENDS Integers, Sequences, FiniteSets

CONSTANTS
  Call,         \* threads of the proxy that serve this scope's requests
  Source,       \* tool results of its conversations
  Digest,       \* what they say
  DigestOf,     \* Source -> Digest
  Base,         \* the proxy's own threshold
  Window,       \* the scope's window, less the output reserve; 0 is not declared
  Standing,     \* thresholds a scope may be created with; 0 is none
  Asked,        \* tokens a reservation may ask for
  Requests,     \* bound: requests it may ask for
  Lifetime,     \* its ttl
  Rereads,      \* 3 in the code
  RescueSize,   \* the 8 requests of a rescue
  RescueTime,   \* its 600 seconds, and the cooldown after a release
  Recently,     \* the 900 seconds in which rereads count, and the cooldown after a rescue
  QueueLimit,   \* QUEUE_LIMIT
  MaxTime, MaxSetBacks, MaxGeneration,  \* bounds
  NoScope

ASSUME NumberAssumption ==
  /\ {Base, Rereads, RescueSize, RescueTime, Recently} \subseteq Nat \ {0}
  /\ {QueueLimit, Requests, Lifetime} \subseteq Nat \ {0}
  /\ {MaxTime, MaxSetBacks, MaxGeneration} \subseteq Nat
  /\ Window \subseteq Nat /\ Standing \subseteq Nat /\ Asked \subseteq Nat \ {0}
ASSUME DigestAssumption == IsFiniteSet(Source) /\ DigestOf \in [Source -> Digest]

VARIABLES
  row,        \* the scope's row, NoScope once it is closed
  evidence,   \* Source -> when it was recorded, if it was, and whether it was evicted since
  clock,      \* the wall clock, which may be set back
  setBacks,
  call,       \* Call -> the request that the thread serves
  queue,      \* the decisions that the batches of observations to record were made under
  granted     \* requests granted under the last reservation, and its allowance

scopeVars == <<row, evidence, clock, setBacks, call, queue, granted>>

Time == 0..(MaxTime + Lifetime + RescueTime + Recently)
Decision == [requested: Nat, effective: Nat, capacity: Nat, generation: Nat, adaptive: BOOLEAN]
Undecided ==
  [requested |-> 0, effective |-> 0, capacity |-> 0, generation |-> 0, adaptive |-> FALSE]
Quiet == [thread |-> "none", waits |-> FALSE, decision |-> Undecided]

ScopesTypeOK ==
  /\ row = NoScope \/
     row \in [capacity: Window, threshold: Standing, adaptive: BOOLEAN, requested: Nat,
              remaining: Nat, created: Time, expires: Time, generation: 0..MaxGeneration,
              rereads: Nat, since: Time, cooldown: Time]
  /\ evidence \in [Source -> [seen: Time \cup {-1}, evicted: BOOLEAN]]
  /\ clock \in 0..MaxTime /\ setBacks \in 0..MaxSetBacks
  /\ call \in [Call -> [thread: {"none", "queued", "consuming", "decided"}, waits: BOOLEAN,
                        decision: Decision]]
  /\ queue \in Seq(Decision)
  /\ granted \in [requests: Nat, allowance: Nat]

\* Control::create has just committed.
ScopesInit ==
  /\ row \in [capacity: Window, threshold: Standing, adaptive: BOOLEAN, requested: {0},
              remaining: {0}, created: {0}, expires: {0}, generation: {0}, rereads: {0},
              since: {0}, cooldown: {0}]
  /\ evidence = [s \in Source |-> [seen |-> -1, evicted |-> FALSE]]
  /\ clock = 0 /\ setBacks = 0
  /\ call = [c \in Call |-> Quiet]
  /\ queue = <<>>
  /\ granted = [requests |-> 0, allowance |-> 0]

Least(a, b) == IF a < b THEN a ELSE b

-----------------------------------------------------------------------------
(* decide                                                                  *)

UnexpiredIsActive(r, now) == now >= r.created /\ now < r.expires       \* Mutant
Active(r, now) == r.remaining > 0 /\ now >= r.created /\ now < r.expires

\* A live reservation wins over a standing threshold, that over the proxy's.
Wanted(r, now) ==
  IF Active(r, now) THEN r.requested
  ELSE IF r.threshold # 0 THEN r.threshold
  ELSE Base

Decide(r, now) ==
  [requested |-> IF Active(r, now) THEN r.requested ELSE 0,
   effective |-> Least(Wanted(r, now), IF r.capacity # 0 THEN r.capacity ELSE Base),
   capacity |-> r.capacity,
   generation |-> r.generation,
   adaptive |-> r.adaptive]

-----------------------------------------------------------------------------
(* Commands                                                                *)

Reserve(tokens, requests) ==
  /\ row # NoScope /\ row.generation < MaxGeneration
  /\ row' = [row EXCEPT !.requested = tokens, !.remaining = requests, !.created = clock,
                        !.expires = clock + Lifetime, !.generation = @ + 1]
  /\ granted' = [requests |-> 0, allowance |-> requests]
  /\ UNCHANGED <<evidence, clock, setBacks, call, queue>>

Withdraw ==
  /\ row # NoScope /\ row.generation < MaxGeneration
  /\ row' = [row EXCEPT !.requested = 0, !.remaining = 0, !.expires = 0,
                        !.generation = @ + 1, !.rereads = 0, !.cooldown = clock + RescueTime]
  /\ granted' = [requests |-> 0, allowance |-> 0]
  /\ UNCHANGED <<evidence, clock, setBacks, call, queue>>

CloseScope ==
  /\ row # NoScope
  /\ row' = NoScope
  /\ evidence' = [s \in Source |-> [seen |-> -1, evicted |-> FALSE]]
  /\ UNCHANGED <<clock, setBacks, call, queue, granted>>

-----------------------------------------------------------------------------
(* A request consumes                                                      *)

\* The job is given to a worker; no worker or no store is a refusal at once.
AskScope(c) ==
  /\ call[c] = Quiet
  /\ call' = [call EXCEPT ![c] = [Quiet EXCEPT !.thread = "queued", !.waits = TRUE]]
  /\ UNCHANGED <<row, evidence, clock, setBacks, queue, granted>>

\* Its thread gives up: the request is refused, the worker goes on.
StopWaiting(c) ==
  /\ call[c].waits /\ call[c].thread \in {"queued", "consuming"}
  /\ call' = [call EXCEPT ![c].waits = FALSE]
  /\ UNCHANGED <<row, evidence, clock, setBacks, queue, granted>>

\* The worker has opened the store and looks at the deadline a last time.
PassDeadline(c) ==
  /\ call[c].thread = "queued"
  /\ call' = [call EXCEPT ![c] = IF call[c].waits THEN [@ EXCEPT !.thread = "consuming"] ELSE Quiet]
  /\ UNCHANGED <<row, evidence, clock, setBacks, queue, granted>>

\* Control::consume, whose transaction may have waited for its turn.
Consume1(c) ==
  /\ call[c].thread = "consuming"
  /\ IF row = NoScope
     THEN call' = [call EXCEPT ![c] = Quiet] /\ UNCHANGED <<row, granted>>
     ELSE LET d == Decide(row, clock)
          IN /\ row' = IF d.requested # 0 /\ row.remaining > 0
                       THEN [row EXCEPT !.remaining = @ - 1] ELSE row
             /\ granted' = IF d.requested # 0 THEN [granted EXCEPT !.requests = @ + 1] ELSE granted
             /\ call' = [call EXCEPT ![c] = IF call[c].waits
                           THEN [@ EXCEPT !.thread = "decided", !.decision = d] ELSE Quiet]
  /\ UNCHANGED <<evidence, clock, setBacks, queue>>

\* The request is prepared; what it showed and what its compaction evicted is
\* reported, unless the queue is full.  It may also fail before it is published.
Report(c) ==
  /\ call[c].thread = "decided"
  /\ call' = [call EXCEPT ![c] = Quiet]
  /\ \/ UNCHANGED queue
     \/ /\ call[c].decision.adaptive
        /\ Len(queue) < QueueLimit
        /\ queue' = Append(queue, call[c].decision)
  /\ UNCHANGED <<row, evidence, clock, setBacks, granted>>

-----------------------------------------------------------------------------
(* The observer                                                            *)

\* Those of the sources shown that have not been recorded before.
AnyIsNew(sources) == sources                                           \* Mutant
New(sources) == {s \in sources : evidence[s].seen = -1}

\* The same words as a result that was recorded lately and evicted since.
Repeats(s) ==
  \E e \in Source : /\ DigestOf[e] = DigestOf[s] /\ evidence[e].seen # -1
                    /\ evidence[e].evicted /\ evidence[e].seen >= clock - Recently

Hits(sources) == Cardinality({s \in New(sources) : Repeats(s)})

Noted(sources, evicted) ==
  [s \in Source |->
     LET e == IF s \in New(sources) THEN [seen |-> clock, evicted |-> FALSE] ELSE evidence[s]
     IN [e EXCEPT !.evicted = @ \/ (e.seen # -1 /\ DigestOf[s] \in evicted)]]

Prior == IF clock >= row.since /\ clock - row.since < Recently THEN row.rereads ELSE 0
Since(hits) == IF Prior = 0 /\ hits > 0 THEN clock ELSE row.since
Counted(hits) == IF clock >= row.cooldown THEN Prior + hits ELSE 0

Target(d) == Least(2 * d.effective, IF d.capacity # 0 THEN d.capacity ELSE d.effective)

\* Rescued only if nothing was reserved or released since the decision.
StillCurrent(d) == row.generation = d.generation

Rescues(d, hits) ==
  /\ StillCurrent(d)
  /\ ~(row.remaining > 0 /\ clock < row.expires)
  /\ Counted(hits) >= Rereads
  /\ clock >= row.cooldown
  /\ Target(d) > d.effective
  /\ d.requested = 0

Rescued(d) ==
  [row EXCEPT !.requested = Target(d), !.remaining = RescueSize, !.created = clock,
              !.expires = clock + RescueTime, !.generation = @ + 1, !.rereads = 0,
              !.cooldown = clock + Recently]

\* Control::observe, on a batch that is never tried again: what it shows, and
\* what its compaction evicted.
ObserveBatch(sources, evicted) ==
  /\ queue # <<>> /\ row # NoScope
  /\ queue' = Tail(queue)
  /\ evidence' = Noted(sources, evicted)
  /\ LET d == Head(queue)
         hits == Hits(sources)
     IN IF Rescues(d, hits)
        THEN /\ row.generation < MaxGeneration
             /\ row' = Rescued(d)
             /\ granted' = [requests |-> 0, allowance |-> RescueSize]
        ELSE /\ row' = [row EXCEPT !.rereads = Counted(hits), !.since = Since(hits)]
             /\ UNCHANGED granted
  /\ UNCHANGED <<clock, setBacks, call>>

\* The transaction fails, or finds the scope closed.
LoseBatch ==
  /\ queue # <<>>
  /\ queue' = Tail(queue)
  /\ UNCHANGED <<row, evidence, clock, setBacks, call, granted>>

-----------------------------------------------------------------------------
(* Surroundings                                                            *)

ClockTicks ==
  /\ clock < MaxTime
  /\ clock' = clock + 1
  /\ UNCHANGED <<row, evidence, setBacks, call, queue, granted>>

ClockSetBack ==
  /\ clock > 0 /\ setBacks < MaxSetBacks
  /\ clock' = clock - 1 /\ setBacks' = setBacks + 1
  /\ UNCHANGED <<row, evidence, call, queue, granted>>

ProxyRestarts ==
  /\ call' = [c \in Call |-> Quiet] /\ queue' = <<>>
  /\ UNCHANGED <<row, evidence, clock, setBacks, granted>>

ScopesNext ==
  \/ \E tokens \in Asked, requests \in 1..Requests : Reserve(tokens, requests)
  \/ Withdraw \/ CloseScope
  \/ \E c \in Call : AskScope(c) \/ StopWaiting(c) \/ PassDeadline(c) \/ Consume1(c) \/ Report(c)
  \/ \E sources \in SUBSET Source, evicted \in SUBSET Digest : ObserveBatch(sources, evicted)
  \/ LoseBatch
  \/ ClockTicks \/ ClockSetBack \/ ProxyRestarts

ScopesSpec == ScopesInit /\ [][ScopesNext]_scopeVars

-----------------------------------------------------------------------------
(* Properties *)

\* However requests race, time out or are lost with the proxy, and however the
\* clock moves, a reservation is granted to no more requests than it names.
AllowanceRespected == granted.requests <= granted.allowance

\* A rescue doubles what the scope would get now, and not what it once got: no
\* reservation, release or other rescue came between the decision and it.  It
\* was earned by as many different results, recorded since the count began.
RescueIsSound ==
  [][queue # <<>> /\ queue' = Tail(queue) /\ row' # NoScope /\ row'.generation # row.generation =>
       LET now == Decide(row, clock)
       IN /\ now.requested = 0 /\ now.effective = Head(queue).effective
          /\ row'.requested <= 2 * now.effective
          /\ Cardinality({s \in Source : evidence'[s].seen >= Since(1)}) >= Rereads]_scopeVars
=============================================================================
