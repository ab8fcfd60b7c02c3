--------------------------- MODULE ProcessProofs ---------------------------
(***************************************************************************)
(* Theorems about what one proxy process keeps: Capacity, Calibration,     *)
(* Recorder, Power, Stream and Admission, each for every value of its      *)
(* constants.                                                              *)
(*                                                                         *)
(* Capacity.  The counters are related to their holders by counting: a     *)
(* step moves one connection or one job, so each set of holders gains or   *)
(* loses at most one element (ConnectionMoves, JobMoves), and the counter  *)
(* follows.                                                                *)
(*                                                                         *)
(* Calibration.  The rounding of the running mean, the clamp and the       *)
(* division never leave the bounds they are documented with.               *)
(*                                                                         *)
(* Recorder.  What is stored or waits is one set (Traced), which only an   *)
(* emission adds to and only the end of the writer takes from: appending   *)
(* and draining leave it as it is, because the writer's batch is the head  *)
(* of the queue (BatchFits) and events wait in order (InOrder).            *)
(*                                                                         *)
(* Power.  What others are told follows what the owner has, step by step   *)
(* (TellsTheTruth).                                                        *)
(*                                                                         *)
(* Stream.  The outcome is defined over the whole reply, cut from its      *)
(* front; the reader goes byte by byte.  Cuts(r) is that cutting, from     *)
(* every place of r at once; one more byte changes each of its values by   *)
(* Grown (CutsGrow, by the last place where it would not), so the reader   *)
(* holds the rest of the cut, or its end (StreamInv).                      *)
(*                                                                         *)
(* Admission.  A fenced gate is idle, the two fences exclude each other    *)
(* and a waiting lease keeps within its deadline (AdmissionInv).           *)
(***************************************************************************)
EXTENDS Admission, Capacity, Calibration, Recorder, Power, Stream, FiniteSetTheorems, SequenceTheorems,
        WellFoundedInduction, TLAPS

-----------------------------------------------------------------------------
(* Capacity: the invariant                                                 *)


\* Jobs not yet started are nowhere: a job a request claims was free before.
Fresh == \A c \in Conn : \A k \in 1..MaxJobs : k > started[c] => job[<<c, k>>] = "none"

\* A request that is busy with a job has started one.
BusyWithJob == {"claimed", "leased", "unspawned", "waiting"}
HasJob == \A c \in Conn : at[c] \in BusyWithJob => started[c] # 0

PlacesOK ==
  /\ at \in [Conn -> Place]
  /\ job \in [Jobs -> JobPlace]
  /\ started \in [Conn -> 0..MaxJobs]
  /\ Fresh
  /\ HasJob

Within == forwarding <= Limit /\ workers <= Workers

CapacityInv == PlacesOK /\ SlotsAccounted /\ Within

\* How much one element of a set counts for.
One(b) == IF b THEN 1 ELSE 0

LEMMA HoldersFinite ==
  /\ IsFiniteSet(Conn) /\ IsFiniteSet(Jobs)
  /\ IsFiniteSet(Connected) /\ IsFiniteSet(Forwarding) /\ IsFiniteSet(Occupied)
<1>1. IsFiniteSet(Conn)
  BY ConnAssumption
<1>2. IsFiniteSet(Jobs)
  <2>1. IsFiniteSet(1..MaxJobs)
    BY CapacityAssumption, FS_Interval
  <2> QED BY <1>1, <2>1, FS_Product DEF Jobs
<1>3. Connected \in SUBSET Conn /\ Forwarding \in SUBSET Conn /\ Occupied \in SUBSET Jobs
  BY DEF Connected, Forwarding, Occupied
<1> QED BY <1>1, <1>2, <1>3, FS_Subset

\* A set that changes at most in x changes its size by what x counts for.
LEMMA OneElement ==
  ASSUME NEW S, NEW T, NEW x, IsFiniteSet(S), S \ {x} = T \ {x}
  PROVE  /\ Cardinality(S) \in Nat /\ Cardinality(T) \in Nat
         /\ Cardinality(T) = Cardinality(S) + One(x \in T) - One(x \in S)
<1>1. IsFiniteSet(S \ {x}) /\ Cardinality(S \ {x}) = Cardinality(S) - One(x \in S)
  BY FS_RemoveElement, FS_CardinalityType DEF One
<1>2. T = IF x \in T THEN (S \ {x}) \union {x} ELSE S \ {x}
  OBVIOUS
<1>3. Cardinality(T) = Cardinality(S \ {x}) + One(x \in T) /\ IsFiniteSet(T)
  <2>1. CASE x \in T
    <3>1. T = (S \ {x}) \union {x} /\ x \notin S \ {x}
      BY <1>2, <2>1
    <3> QED BY <1>1, <2>1, <3>1, FS_AddElement DEF One
  <2>2. CASE x \notin T
    <3>1. T = S \ {x} /\ One(x \in T) = 0
      BY <1>2, <2>2 DEF One
    <3>2. Cardinality(S \ {x}) \in Nat
      BY <1>1, FS_CardinalityType
    <3> QED BY <1>1, <3>1, <3>2
  <2> QED BY <2>1, <2>2
<1>4. Cardinality(S) \in Nat /\ Cardinality(T) \in Nat
  BY <1>3, FS_CardinalityType
<1> QED BY <1>1, <1>3, <1>4 DEF One

LEMMA ConnectionMoves ==
  ASSUME PlacesOK, NEW c \in Conn, NEW from \in Place, NEW to \in Place, Step(c, from, to)
  PROVE  /\ at' \in [Conn -> Place]
         /\ Cardinality(Connected) \in Nat /\ Cardinality(Forwarding) \in Nat
         /\ Cardinality(Connected)'
              = Cardinality(Connected) + One(to \in Open) - One(from \in Open)
         /\ Cardinality(Forwarding)'
              = Cardinality(Forwarding) + One(to \in Slotted) - One(from \in Slotted)
<1>1. at' \in [Conn -> Place] /\ at[c] = from /\ at'[c] = to
  BY DEF PlacesOK, Step
<1>2. Connected \ {c} = Connected' \ {c} /\ Forwarding \ {c} = Forwarding' \ {c}
  BY DEF PlacesOK, Step, Connected, Forwarding
<1>3. /\ c \in Connected <=> from \in Open
      /\ c \in Connected' <=> to \in Open
      /\ c \in Forwarding <=> from \in Slotted
      /\ c \in Forwarding' <=> to \in Slotted
  BY <1>1 DEF Connected, Forwarding
<1>4. /\ Cardinality(Connected) \in Nat
      /\ Cardinality(Connected')
           = Cardinality(Connected) + One(c \in Connected') - One(c \in Connected)
  BY <1>2, HoldersFinite, OneElement
<1>5. /\ Cardinality(Forwarding) \in Nat
      /\ Cardinality(Forwarding')
           = Cardinality(Forwarding) + One(c \in Forwarding') - One(c \in Forwarding)
  BY <1>2, HoldersFinite, OneElement
<1> QED BY <1>1, <1>3, <1>4, <1>5 DEF One

LEMMA JobMoves ==
  ASSUME PlacesOK, NEW j \in Jobs, NEW from \in JobPlace, NEW to \in JobPlace,
         JobStep(j, from, to)
  PROVE  /\ job' \in [Jobs -> JobPlace]
         /\ Cardinality(Occupied) \in Nat
         /\ Cardinality(Occupied)'
              = Cardinality(Occupied) + One(to \in Working) - One(from \in Working)
<1>1. job' \in [Jobs -> JobPlace] /\ job[j] = from /\ job'[j] = to
  BY DEF PlacesOK, JobStep
<1>2. Occupied \ {j} = Occupied' \ {j}
  BY DEF PlacesOK, JobStep, Occupied
<1>3. (j \in Occupied <=> from \in Working) /\ (j \in Occupied' <=> to \in Working)
  BY <1>1 DEF Occupied
<1>4. /\ Cardinality(Occupied) \in Nat
      /\ Cardinality(Occupied')
           = Cardinality(Occupied) + One(j \in Occupied') - One(j \in Occupied)
  BY <1>2, HoldersFinite, OneElement
<1> QED BY <1>1, <1>3, <1>4 DEF One

-----------------------------------------------------------------------------
\* Which places count, written out once for the steps below.
LEMMA PlaceKinds ==
  /\ Open \subseteq Place /\ Slotted \subseteq Open /\ Working \subseteq JobPlace
  /\ "new" \notin Open /\ "closed" \notin Open
  /\ {"head", "control", "leaving"} \subseteq Open \ Slotted
  /\ {"body", "forward", "claimed", "leased", "unspawned", "waiting", "unwinding",
      "unslotting"} \subseteq Slotted
  /\ {"none", "slotless", "gone"} \intersect Working = {}
  /\ {"claimed", "leased", "running", "done"} \subseteq Working
BY DEF Open, Slotted, Working, Place, JobPlace

LEMMA InitCapacityInv == CapacityInit => CapacityInv
<1> SUFFICES ASSUME CapacityInit PROVE CapacityInv
  OBVIOUS
<1>1. PlacesOK
  BY CapacityAssumption DEF CapacityInit, PlacesOK, Fresh, HasJob, BusyWithJob, Place, JobPlace, Jobs
<1>2. Connected = {} /\ Forwarding = {} /\ Occupied = {}
  BY PlaceKinds DEF CapacityInit, Connected, Forwarding, Occupied, Slotted
<1>3. SlotsAccounted
  BY <1>2, FS_EmptySet DEF CapacityInit, SlotsAccounted
<1>4. Within
  BY CapacityAssumption DEF CapacityInit, Within
<1> QED BY <1>1, <1>3, <1>4 DEF CapacityInv

\* The steps of a connection that start no job and touch none.
LEMMA ConnectionCapacityInv ==
  ASSUME CapacityInv, NEW c \in Conn, Connection(c)
  PROVE  CapacityInv'
<1> USE DEF CapacityInv
<1>0. UNCHANGED <<workers, job, started>>
  BY DEF Connection, Accept, TurnAway, ReadControlHead, AnswerControl, ReadHead,
         GrowBody, BodyRead, BodyRefused, Answered, DropBody, DropForwarding, Close
<1>1. ASSUME NEW from \in Place, NEW to \in Place, Step(c, from, to),
             active' = active + One(to \in Open) - One(from \in Open),
             forwarding' = forwarding + One(to \in Slotted) - One(from \in Slotted),
             forwarding' <= Limit, to \notin BusyWithJob
      PROVE  CapacityInv'
  <2>1. /\ at' \in [Conn -> Place]
        /\ Cardinality(Connected)' = active'
        /\ Cardinality(Forwarding)' = forwarding'
    BY <1>1, ConnectionMoves DEF SlotsAccounted
  <2>2. Cardinality(Occupied)' = workers'
    BY <1>0 DEF SlotsAccounted, Occupied
  <2>3. PlacesOK'
    BY <1>0, <1>1, <2>1 DEF PlacesOK, Fresh, HasJob, Step
  <2> QED BY <1>0, <1>1, <2>1, <2>2, <2>3 DEF SlotsAccounted, Within
<1>2. active \in Nat /\ forwarding \in Nat
  BY HoldersFinite, FS_CardinalityType DEF SlotsAccounted
<1> USE PlaceKinds, CapacityAssumption, <1>2 DEF Within, One, sockets, BusyWithJob
<1>3. CASE Accept(c)
  BY <1>1, <1>3 DEF Accept, Place
<1>4. CASE TurnAway(c)
  BY <1>1, <1>4 DEF TurnAway, Place
<1>5. CASE ReadControlHead(c)
  BY <1>1, <1>5 DEF ReadControlHead, Place
<1>6. CASE AnswerControl(c)
  BY <1>1, <1>6 DEF AnswerControl, Place
<1>7. CASE ReadHead(c)
  BY <1>1, <1>7 DEF ReadHead, SlotFree, Place
<1>8. CASE \E n \in 1..MaxBody : GrowBody(c, n)
  <2>1. UNCHANGED <<active, forwarding, workers, at, job, started>>
    BY <1>8 DEF GrowBody
  <2> QED BY <2>1 DEF PlacesOK, Fresh, HasJob, SlotsAccounted, Connected, Forwarding, Occupied
<1>9. CASE BodyRead(c)
  BY <1>1, <1>9 DEF BodyRead, Place
<1>10. CASE BodyRefused(c)
  BY <1>1, <1>10 DEF BodyRefused, Place
<1>11. CASE Answered(c)
  BY <1>1, <1>11 DEF Answered, Place
<1>12. CASE DropBody(c)
  BY <1>1, <1>12 DEF DropBody, Place
<1>13. CASE DropForwarding(c)
  BY <1>1, <1>13 DEF DropForwarding, Place
<1>14. CASE Close(c)
  BY <1>1, <1>14 DEF Close, Place
<1> QED BY <1>3, <1>4, <1>5, <1>6, <1>7, <1>8, <1>9, <1>10, <1>11, <1>12, <1>13, <1>14
        DEF Connection

\* A job that moves, with the connection that owns it or by itself.
LEMMA JobCapacityInv ==
  ASSUME CapacityInv, NEW j \in Jobs, NEW from \in JobPlace, NEW to \in JobPlace,
         JobStep(j, from, to),
         workers' = workers + One(to \in Working) - One(from \in Working),
         workers' <= Workers,
         UNCHANGED sockets,
         at' \in [Conn -> Place],
         Connected' = Connected, Forwarding' = Forwarding,
         started' \in [Conn -> 0..MaxJobs], Fresh', HasJob'
  PROVE  CapacityInv'
<1> USE DEF CapacityInv
<1>1. job' \in [Jobs -> JobPlace] /\ Cardinality(Occupied)' = workers'
  BY JobMoves DEF SlotsAccounted
<1>2. PlacesOK'
  BY <1>1 DEF PlacesOK
<1> QED BY <1>1, <1>2 DEF SlotsAccounted, Within, sockets

\* Two places that both count, or both do not, are the same to the sets.
LEMMA SameKind ==
  ASSUME PlacesOK, NEW c \in Conn, NEW from \in Slotted, NEW to \in Slotted,
         Step(c, from, to)
  PROVE  at' \in [Conn -> Place] /\ Connected' = Connected /\ Forwarding' = Forwarding
BY PlaceKinds DEF PlacesOK, Step, Connected, Forwarding

LEMMA RequestCapacityInv ==
  ASSUME CapacityInv, NEW c \in Conn, Request(c)
  PROVE  CapacityInv'
<1> USE PlaceKinds, CapacityAssumption DEF CapacityInv
<1>1. workers \in Nat
  BY HoldersFinite, FS_CardinalityType DEF SlotsAccounted
<1>2. started[c] \in 0..MaxJobs
  BY DEF PlacesOK
<1>3. ASSUME NEW from \in JobPlace, from # "none", NEW to \in JobPlace,
             JobStep(Latest(c), from, to), at[c] \in BusyWithJob, UNCHANGED started
      PROVE  Latest(c) \in Jobs /\ Fresh'
  <2>1. started[c] # 0
    BY <1>3 DEF PlacesOK, HasJob
  <2>2. Latest(c) \in Jobs
    BY <1>2, <2>1 DEF Latest, Jobs
  <2>3. ASSUME NEW d \in Conn, NEW k \in 1..MaxJobs, k > started[d]
        PROVE  job'[<<d, k>>] = "none"
    <3>1. <<d, k>> # Latest(c) /\ <<d, k>> \in Jobs /\ job[<<d, k>>] = "none"
      BY <1>2, <2>3 DEF Latest, Jobs, PlacesOK, Fresh
    <3> QED BY <1>3, <3>1 DEF JobStep, PlacesOK
  <2> QED BY <1>3, <2>2, <2>3 DEF Fresh
<1>4. CASE ClaimWorker(c)
  <2> DEFINE j == <<c, started[c] + 1>>
  <2>1. j \in Jobs /\ job[j] = "none"
    BY <1>2, <1>4 DEF ClaimWorker, Jobs, PlacesOK, Fresh
  <2>2. JobStep(j, "none", "claimed") /\ Step(c, "forward", "claimed")
    BY <1>4, <2>1 DEF ClaimWorker, JobStep
  <2>3. started' \in [Conn -> 0..MaxJobs]
    BY <1>2, <1>4 DEF ClaimWorker, PlacesOK
  <2>4. ASSUME NEW d \in Conn, NEW k \in 1..MaxJobs, k > started'[d]
        PROVE  job'[<<d, k>>] = "none"
    <3>1. k > started[d] /\ <<d, k>> # j
      BY <1>2, <1>4, <2>4 DEF ClaimWorker, PlacesOK
    <3> QED BY <2>2, <3>1 DEF JobStep, PlacesOK, Fresh, Jobs
  <2>5. Fresh'
    BY <2>4 DEF Fresh
  <2>6. workers' = workers + 1 /\ workers' <= Workers /\ UNCHANGED sockets
    BY <1>1, <1>4 DEF ClaimWorker
  <2>7. at' \in [Conn -> Place] /\ Connected' = Connected /\ Forwarding' = Forwarding
    BY <2>2, SameKind
  <2>8. workers' = workers + One("claimed" \in Working) - One("none" \in Working)
    BY <1>1, <2>6 DEF One
  <2>9. HasJob'
    BY <1>2, <1>4, <2>2 DEF ClaimWorker, Step, PlacesOK, HasJob
  <2>10. "none" \in JobPlace /\ "claimed" \in JobPlace
    BY DEF JobPlace
  <2> QED BY <2>1, <2>2, <2>3, <2>5, <2>6, <2>7, <2>8, <2>9, <2>10, JobCapacityInv
\* The other steps that move the latest job.
<1>5. ASSUME NEW from \in Slotted, NEW to \in Slotted, Step(c, from, to),
             NEW old \in JobPlace, old # "none", NEW new \in JobPlace,
             JobStep(Latest(c), old, new), UNCHANGED <<sockets, started>>,
             workers' = workers + One(new \in Working) - One(old \in Working),
             workers' <= Workers, from \in BusyWithJob
      PROVE  CapacityInv'
  <2>1. Latest(c) \in Jobs /\ Fresh'
    BY <1>3, <1>5 DEF Step
  <2>3. HasJob'
    BY <1>5 DEF Step, PlacesOK, HasJob
  <2>2. at' \in [Conn -> Place] /\ Connected' = Connected /\ Forwarding' = Forwarding
    BY <1>5, SameKind
  <2> QED BY <1>5, <2>1, <2>2, <2>3, JobCapacityInv DEF PlacesOK
<1>6. CASE LeaseInput(c)
  BY <1>1, <1>5, <1>6 DEF LeaseInput, JobPlace, One, Within, BusyWithJob
<1>7. CASE NoMemory(c)
  BY <1>1, <1>5, <1>7 DEF NoMemory, JobPlace, One, Within, BusyWithJob
<1>8. CASE Spawn(c)
  BY <1>1, <1>5, <1>8 DEF Spawn, JobPlace, One, Within, BusyWithJob
<1>9. CASE SpawnFails(c)
  BY <1>1, <1>5, <1>9 DEF SpawnFails, JobPlace, One, Within, BusyWithJob
\* The steps that only move the connection.
<1>10. ASSUME NEW from \in Slotted, Step(c, from, "forward"),
              UNCHANGED <<sockets, workers, job, started>>
       PROVE  CapacityInv'
  <2>1. at' \in [Conn -> Place] /\ Connected' = Connected /\ Forwarding' = Forwarding
    BY <1>10, SameKind
  <2>2. Occupied' = Occupied /\ PlacesOK'
    BY <1>10, <2>1 DEF Occupied, PlacesOK, Fresh, HasJob, BusyWithJob, Step
  <2> QED BY <1>10, <2>1, <2>2 DEF SlotsAccounted, Within, sockets
<1>11. CASE Unspawned(c)
  BY <1>10, <1>11 DEF Unspawned
<1>12. CASE Receive(c)
  BY <1>10, <1>12 DEF Receive
<1>13. CASE TimeOut(c)
  BY <1>10, <1>13 DEF TimeOut
<1> QED BY <1>4, <1>6, <1>7, <1>8, <1>9, <1>11, <1>12, <1>13 DEF Request

LEMMA ThreadCapacityInv ==
  ASSUME CapacityInv, NEW j \in Jobs, Complete(j) \/ Drop(j)
  PROVE  CapacityInv'
<1> USE PlaceKinds, CapacityAssumption DEF CapacityInv
<1>1. workers \in Nat
  BY HoldersFinite, FS_CardinalityType DEF SlotsAccounted
<1>2. ASSUME NEW old \in JobPlace, old # "none", NEW new \in JobPlace,
             JobStep(j, old, new), UNCHANGED <<sockets, at, started>>,
             workers' = workers + One(new \in Working) - One(old \in Working),
             workers' <= Workers
      PROVE  CapacityInv'
  <2>1. Fresh'
    <3>1. ASSUME NEW d \in Conn, NEW k \in 1..MaxJobs, k > started[d]
          PROVE  job'[<<d, k>>] = "none"
      <4>1. job[<<d, k>>] = "none" /\ <<d, k>> # j
        BY <1>2, <3>1 DEF PlacesOK, Fresh, JobStep
      <4> QED BY <1>2, <4>1 DEF JobStep, PlacesOK, Jobs
    <3> QED BY <1>2, <3>1 DEF Fresh
  <2>2. Connected' = Connected /\ Forwarding' = Forwarding
    BY <1>2 DEF Connected, Forwarding
  <2>3. HasJob' /\ at' \in [Conn -> Place] /\ started' \in [Conn -> 0..MaxJobs]
    BY <1>2 DEF PlacesOK, HasJob
  <2> QED BY <1>2, <2>1, <2>2, <2>3, JobCapacityInv
<1>3. CASE Complete(j)
  BY <1>1, <1>2, <1>3 DEF Complete, JobPlace, One, Within
<1>4. CASE ReleaseSlot(j)
  BY <1>1, <1>2, <1>4 DEF ReleaseSlot, JobPlace, One, Within
<1>5. CASE ReleaseInput(j)
  BY <1>1, <1>2, <1>5 DEF ReleaseInput, JobPlace, One, Within
<1> QED BY <1>3, <1>4, <1>5 DEF Drop

LEMMA NextCapacityInv == CapacityInv /\ [CapacityNext]_capacityVars => CapacityInv'
<1> SUFFICES ASSUME CapacityInv, [CapacityNext]_capacityVars PROVE CapacityInv'
  OBVIOUS
<1>1. ASSUME NEW c \in Conn, Connection(c) PROVE CapacityInv'
  BY <1>1, ConnectionCapacityInv
<1>2. ASSUME NEW c \in Conn, Request(c) PROVE CapacityInv'
  BY <1>2, RequestCapacityInv
<1>3. ASSUME NEW j \in Jobs, Complete(j) \/ Drop(j) PROVE CapacityInv'
  BY <1>3, ThreadCapacityInv
<1>4. CASE UNCHANGED capacityVars
  BY <1>4 DEF capacityVars, CapacityInv, PlacesOK, Fresh, HasJob, SlotsAccounted, Within, Connected, Forwarding,
              Occupied
<1> QED BY <1>1, <1>2, <1>3, <1>4 DEF CapacityNext

LEMMA CapacityInvariant == CapacitySpec => []CapacityInv
<1> QED BY InitCapacityInv, NextCapacityInv, PTL DEF CapacitySpec

-----------------------------------------------------------------------------
\* The socket, slot and worker counters are exact at every instant, on every
\* path through handle, acquire, run and the guards' drops.
THEOREM CountersAreExact == CapacitySpec => []SlotsAccounted
<1>1. CapacityInv => SlotsAccounted
  BY DEF CapacityInv
<1> QED BY <1>1, CapacityInvariant, PTL

\* Job::run abandons results, never threads: at most Workers threads are at
\* work, however many requests gave up on theirs.
THEOREM StalledWork == CapacitySpec => []StalledWorkIsBounded
<1>1. ASSUME CapacityInv PROVE StalledWorkIsBounded
  <2> DEFINE R == {j \in Jobs : job[j] = "running"}
  <2>1. R \in SUBSET Occupied
    BY PlaceKinds DEF Occupied
  <2>2. Cardinality(R) <= Cardinality(Occupied) /\ Cardinality(R) \in Nat
    BY <2>1, HoldersFinite, FS_Subset, FS_CardinalityType
  <2>3. Cardinality(Occupied) = workers /\ workers \in Nat /\ workers <= Workers
    BY <1>1, HoldersFinite, FS_CardinalityType DEF CapacityInv, SlotsAccounted, Within
  <2> QED BY <2>2, <2>3, CapacityAssumption DEF StalledWorkIsBounded
<1> QED BY <1>1, CapacityInvariant, PTL

\* dispatch_connection's reserve is never taken by forwarding.
THEOREM ControlReserve == CapacitySpec => []ControlIsReachable
<1>1. ASSUME CapacityInv PROVE ControlIsReachable
  <2>1. Forwarding \subseteq Connected
    BY PlaceKinds DEF Forwarding, Connected
  <2>2. Connected \intersect Forwarding = Forwarding
    BY <2>1
  <2>3. Cardinality(Connected \ Forwarding) = Cardinality(Connected) - Cardinality(Forwarding)
    BY <2>2, HoldersFinite, FS_Difference
  <2>4. /\ Cardinality(Connected) = active /\ Cardinality(Forwarding) = forwarding
        /\ active \in Nat /\ forwarding \in Nat /\ forwarding <= Limit
    BY <1>1, HoldersFinite, FS_CardinalityType DEF CapacityInv, SlotsAccounted, Within
  <2> QED BY <2>3, <2>4, CapacityAssumption DEF ControlIsReachable
<1> QED BY <1>1, CapacityInvariant, PTL

-----------------------------------------------------------------------------
(* Calibration: arithmetic                                                 *)


\* Division of naturals rounds down.
LEMMA Division ==
  ASSUME NEW a \in Nat, NEW b \in Nat \ {0}
  PROVE  /\ a \div b \in Nat
         /\ b * (a \div b) <= a
         /\ a < b * (a \div b) + b
OBVIOUS

\* The quotient is the only number with a remainder below the divisor.
LEMMA DivisionBound ==
  ASSUME NEW a \in Nat, NEW b \in Nat \ {0}, NEW n \in Nat, a < b * n + b
  PROVE  a \div b <= n
<1> DEFINE q == a \div b
<1>1. q \in Nat /\ b * q <= a
  BY Division
<1> HIDE DEF q
<1>2. SUFFICES ASSUME q >= n + 1 PROVE FALSE
  BY <1>1 DEF q
<1>3. b * q >= b * (n + 1)
  BY <1>1, <1>2
<1>4. b * (n + 1) = b * n + b
  OBVIOUS
<1> QED BY <1>1, <1>3, <1>4

LEMMA DivisionSmaller ==
  ASSUME NEW a \in Nat, NEW b \in Nat \ {0}
  PROVE  a \div b <= a
<1>1. a < b * a + b
  OBVIOUS
<1> QED BY <1>1, DivisionBound

\* A larger divisor gives no larger quotient.
LEMMA DivisionAntitone ==
  ASSUME NEW a \in Nat, NEW b \in Nat \ {0}, NEW c \in Nat \ {0}, b <= c
  PROVE  a \div c <= a \div b
<1> DEFINE q == a \div b
<1>1. q \in Nat /\ a < b * q + b
  BY Division
<1> HIDE DEF q
<1>2. b * q <= c * q
  BY <1>1
<1>3. a < c * q + c
  BY <1>1, <1>2
<1> QED BY <1>1, <1>3, DivisionBound DEF q

-----------------------------------------------------------------------------
\* The mean moves towards the sample and not past it.
LEMMA MovedBetween ==
  ASSUME NEW m \in Nat, NEW s \in Nat
  PROVE  Moved(m, s) \in Nat /\ Between(m, Moved(m, s), s)
<1>0. Weight \in Nat \ {0}
  BY SampleAssumption
<1>1. CASE s >= m
  <2> DEFINE d == (s - m) \div Weight
  <2>1. s - m \in Nat
    BY <1>1
  <2>2. d \in Nat /\ d <= s - m
    BY <1>0, <2>1, Division, DivisionSmaller
  <2>3. Moved(m, s) = m + d
    BY <1>1 DEF Moved
  <2> HIDE DEF d
  <2> QED BY <1>1, <2>2, <2>3 DEF Between
<1>2. CASE ~(s >= m)
  <2> DEFINE d == (m - s) \div Weight
  <2>1. m - s \in Nat
    BY <1>2
  <2>2. d \in Nat /\ d <= m - s
    BY <1>0, <2>1, Division, DivisionSmaller
  <2>3. Moved(m, s) = m - d
    BY <1>2 DEF Moved
  <2> HIDE DEF d
  <2> QED BY <1>2, <2>2, <2>3 DEF Between
<1> QED BY <1>1, <1>2

-----------------------------------------------------------------------------
CalibrationInv == CalibrationTypeOK /\ MeanInRange /\ MapBounded

\* One observation, seen from the key it is about and from the others.
LEMMA ObserveCalibrationInv ==
  ASSUME CalibrationInv, NEW k \in Key, NEW est \in Estimate, NEW reported \in Reported,
         Learn(k, est, reported)
  PROVE  CalibrationInv'
<1> DEFINE s == SampleOf(est, reported)
           c == CalibrationOf(k)
           n == IF Accepted(est, reported) THEN Observed(c, s) ELSE c
<1>1. /\ MayEnter(k) /\ c.samples < MaxSamples
      /\ Known' = Known \union {k}
      /\ \A q \in Known' : calibrations'[q] = IF q # k THEN calibrations[q] ELSE n
      /\ heard' = IF Accepted(est, reported) THEN [key |-> k, sample |-> s] ELSE heard
  BY DEF Learn, Known
<1>2. c \in Record /\ (c.samples > 0 => c.mean \in LowSample..HighSample)
  <2>1. Default \in Record
    BY SampleAssumption DEF Default, Record
  <2>2. CASE k \in Known
    BY <2>2 DEF CalibrationInv, CalibrationTypeOK, MeanInRange, CalibrationOf, Known
  <2>3. CASE k \notin Known
    BY <2>1, <2>3 DEF CalibrationOf, Default
  <2> QED BY <2>2, <2>3
<1>3. n \in Record /\ (n.samples > 0 => n.mean \in LowSample..HighSample)
  <2>1. CASE ~Accepted(est, reported)
    BY <1>2, <2>1
  <2>2. CASE Accepted(est, reported)
    <3>1. s \in LowSample..HighSample
      BY <2>2 DEF Accepted
    <3>2. s \in Nat /\ c.mean \in Nat /\ c.samples \in 0..MaxSamples
      BY <1>2, <3>1, SampleAssumption DEF Record
    <3>3. Moved(c.mean, s) \in Nat /\ Between(c.mean, Moved(c.mean, s), s)
      BY <3>2, MovedBetween
    <3>4. c.samples > 0 => Moved(c.mean, s) \in LowSample..HighSample
      BY <1>2, <3>1, <3>2, <3>3, SampleAssumption DEF Between
    <3>5. n = Observed(c, s)
      BY <2>2
    <3> HIDE DEF n, s, c
    <3>6. /\ n.samples = c.samples + 1 /\ n \in [samples: {c.samples + 1}, mean: {n.mean}]
          /\ n.mean = IF c.samples = 0 THEN s ELSE Moved(c.mean, s)
      BY <3>5 DEF Observed
    <3>7. n.mean \in LowSample..HighSample /\ n.mean \in Nat
      BY <3>1, <3>2, <3>3, <3>4, <3>6
    <3>8. n.samples \in 0..MaxSamples
      BY <1>1, <3>2, <3>6, SampleAssumption
    <3> QED BY <3>6, <3>7, <3>8 DEF Record
  <2> QED BY <2>1, <2>2
<1> HIDE DEF n, c
<1>4. CalibrationTypeOK'
  <2>1. heard' \in [key: Key, sample: Nat]
    BY <1>1, SampleAssumption DEF CalibrationInv, CalibrationTypeOK, Accepted
  <2>2. Known' \subseteq Key /\ \A q \in Known' : calibrations'[q] \in Record
    BY <1>1, <1>3 DEF CalibrationInv, CalibrationTypeOK, Known
  <2> QED BY <2>1, <2>2 DEF CalibrationTypeOK, Known
<1>5. MeanInRange'
  BY <1>1, <1>3 DEF CalibrationInv, MeanInRange
<1>6. MapBounded'
  <2>1. IsFiniteSet(Known) /\ Cardinality(Known) \in Nat
    BY KeyAssumption, FS_Subset, FS_CardinalityType DEF CalibrationInv, CalibrationTypeOK, Known
  <2>2. CASE k \in Known
    BY <1>1, <2>2 DEF CalibrationInv, MapBounded
  <2>3. CASE k \notin Known
    <3>1. Cardinality(Known \union {k}) = Cardinality(Known) + 1
      BY <2>1, <2>3, FS_AddElement
    <3>2. Cardinality(Known') = Cardinality(Known) + 1
      BY <1>1, <3>1
    <3> QED BY <1>1, <2>1, <2>3, <3>2, KeyAssumption DEF MayEnter, MapBounded
  <2> QED BY <2>2, <2>3
<1> QED BY <1>4, <1>5, <1>6 DEF CalibrationInv

LEMMA CalibrationInvariant == CalibrationSpec => []CalibrationInv
<1>1. CalibrationInit => CalibrationInv
  <2> SUFFICES ASSUME CalibrationInit PROVE CalibrationInv
    OBVIOUS
  <2>1. Known = {}
    BY DEF CalibrationInit, Known
  <2>2. CalibrationTypeOK /\ MeanInRange
    BY <2>1 DEF CalibrationInit, CalibrationTypeOK, MeanInRange, Known
  <2>3. MapBounded
    BY <2>1, KeyAssumption, FS_EmptySet DEF MapBounded
  <2> QED BY <2>2, <2>3 DEF CalibrationInv
<1>2. CalibrationInv /\ [CalibrationNext]_calibrationVars => CalibrationInv'
  <2>1. ASSUME CalibrationInv, UNCHANGED calibrationVars PROVE CalibrationInv'
    BY <2>1 DEF CalibrationInv, calibrationVars, CalibrationTypeOK, MeanInRange, MapBounded, Known
  <2> QED BY <2>1, ObserveCalibrationInv DEF CalibrationNext
<1> QED BY <1>1, <1>2, PTL DEF CalibrationSpec

-----------------------------------------------------------------------------
\* The running mean never leaves the accepted samples' range.
THEOREM MeanStays == CalibrationSpec => []MeanInRange
<1>1. CalibrationInv => MeanInRange
  BY DEF CalibrationInv
<1> QED BY <1>1, CalibrationInvariant, PTL

\* However many models answer, the map is bounded.
THEOREM MapStays == CalibrationSpec => []MapBounded
<1>1. CalibrationInv => MapBounded
  BY DEF CalibrationInv
<1> QED BY <1>1, CalibrationInvariant, PTL

\* A threshold is only ever lowered, and at most by the largest ratio.
THEOREM ThresholdBounds ==
  ASSUME NEW tokens \in Nat, NEW ratio \in MinRatio..MaxRatio
  PROVE  /\ Threshold(tokens, ratio) \in Nat
         /\ Threshold(tokens, MaxRatio) <= Threshold(tokens, ratio)
         /\ Threshold(tokens, ratio) <= tokens
<1> DEFINE a == tokens * MinRatio
<1>1. a \in Nat /\ ratio \in Nat \ {0} /\ MaxRatio \in Nat \ {0} /\ ratio <= MaxRatio
  BY RatioAssumption
<1>2. a < ratio * tokens + ratio
  <2>1. a <= ratio * tokens
    BY RatioAssumption
  <2>2. a \in Nat /\ ratio * tokens \in Nat
    BY <1>1
  <2> HIDE DEF a
  <2> QED BY <1>1, <2>1, <2>2
<1>3. Threshold(tokens, ratio) = a \div ratio /\ Threshold(tokens, MaxRatio) = a \div MaxRatio
  BY DEF Threshold
<1> HIDE DEF a
<1>4. a \div ratio \in Nat /\ a \div ratio <= tokens
  BY <1>1, <1>2, Division, DivisionBound
<1>5. a \div MaxRatio <= a \div ratio
  BY <1>1, DivisionAntitone
<1> QED BY <1>3, <1>4, <1>5

\* calibrated_threshold with the learned ratio can only compact earlier.
THEOREM Earlier == CalibrationSpec => []OnlyEarlier
<1>1. ASSUME CalibrationInv PROVE OnlyEarlier
  <2>1. ASSUME NEW k \in Known, NEW tokens \in Estimate
        PROVE  Threshold(tokens, Ratio(calibrations[k])) \in Threshold(tokens, MaxRatio)..tokens
    <3>1. calibrations[k].mean \in Nat
      BY <1>1 DEF CalibrationInv, CalibrationTypeOK, Record, Known
    <3>2. Ratio(calibrations[k]) \in MinRatio..MaxRatio
      BY <3>1, RatioAssumption DEF Ratio, Clamped
    <3>3. tokens \in Nat /\ MaxRatio \in MinRatio..MaxRatio
      BY CountAssumption, RatioAssumption
    <3> QED BY <3>2, <3>3, ThresholdBounds
  <2> QED BY <2>1 DEF OnlyEarlier
<1> QED BY <1>1, CalibrationInvariant, PTL

\* A sample moves its own key's mean towards itself, and no other's.
THEOREM SteadyMean == CalibrationSpec => NeverOvershoots
<1>1. ASSUME CalibrationInv, [CalibrationNext]_calibrationVars PROVE [TowardsSample]_calibrationVars
  <2>1. ASSUME NEW k \in Key, NEW est \in Estimate, NEW reported \in Reported,
               Learn(k, est, reported), NEW q \in Known
        PROVE  /\ q \in Known' /\ calibrations'[q].samples >= calibrations[q].samples
               /\ calibrations'[q] # calibrations[q] /\ calibrations[q].samples > 0 =>
                    /\ heard'.key = q
                    /\ Between(calibrations[q].mean, calibrations'[q].mean, heard'.sample)
    <3> DEFINE s == SampleOf(est, reported)
               c == calibrations[q]
    <3>1. /\ q \in Known' /\ c.samples \in Nat /\ c.mean \in Nat
          /\ q # k => calibrations'[q] = c
      BY <1>1, <2>1, SampleAssumption DEF Learn, Known, CalibrationInv, CalibrationTypeOK, Record
    <3>2. CASE q = k /\ Accepted(est, reported)
      <4>1. calibrations'[q] = Observed(c, s) /\ heard' = [key |-> q, sample |-> s]
        BY <2>1, <3>2 DEF Learn, Known, CalibrationOf
      <4>2. s \in Nat
        BY <3>2, SampleAssumption DEF Accepted
      <4>3. c.samples > 0 => Between(c.mean, Observed(c, s).mean, s)
        <5> HIDE DEF s, c
        <5>1. Between(c.mean, Moved(c.mean, s), s)
          BY <3>1, <4>2, MovedBetween
        <5>2. c.samples > 0 => Observed(c, s).mean = Moved(c.mean, s)
          BY <3>1 DEF Observed
        <5> QED BY <5>1, <5>2
      <4>4. Observed(c, s).samples = c.samples + 1
        BY DEF Observed
      <4> HIDE DEF s, c
      <4>5. heard'.key = q /\ heard'.sample = s
        BY <4>1
      <4> QED BY <3>1, <4>1, <4>3, <4>4, <4>5 DEF c
    <3>3. CASE q = k /\ ~Accepted(est, reported)
      <4>1. calibrations'[q] = c
        BY <2>1, <3>3 DEF Learn, Known, CalibrationOf
      <4> QED BY <3>1, <4>1
    <3>4. CASE q # k
      BY <3>1, <3>4
    <3> QED BY <3>1, <3>2, <3>3, <3>4
  <2> QED BY <1>1, <2>1 DEF CalibrationNext, TowardsSample
<1> QED BY <1>1, CalibrationInvariant, PTL DEF CalibrationSpec, NeverOvershoots

-----------------------------------------------------------------------------
(* Recorder: the invariant                                                 *)

\* What is stored or waits: the two may share what was appended and is not yet
\* taken off the queue, and, after a failure, what was appended in spite of it.
Traced == stored \cup Waiting

\* Events wait in the order of their numbers, and none is yet to come.
InOrder ==
  /\ \A i, j \in 1..Len(queue) : i < j => queue[i] < queue[j]
  /\ Traced \subseteq 1..emitted

\* The writer's batch is the head of the queue, on which nobody else lays hands.
BatchFits ==
  /\ IF writer.step \in {"append", "drain"} THEN writer.batch \in 1..Len(queue) ELSE writer.batch = 0
  /\ WriterAt("drain") => Batch \subseteq stored

\* Without trouble, only what was just appended is stored and waits.
Apart == trouble = 0 => Waiting \cap stored = IF WriterAt("drain") THEN Batch ELSE {}

Accounted ==
  /\ Cardinality(Traced) + dropped >= emitted
  /\ trouble = 0 => Cardinality(Traced) + dropped = emitted

RecorderInv ==
  /\ RecorderTypeOK /\ trouble \in Nat /\ count = Len(queue)
  /\ InOrder /\ BatchFits /\ Apart /\ Accounted

LEMMA Numbers ==
  /\ PendingLimit \in Nat \ {0} /\ FlushLimit \in Nat \ {0} /\ FlushLimit <= PendingLimit
  /\ MaxEvents \in Nat /\ MaxTrouble \in Nat
  BY RecorderAssumption

LEMMA UpTo ==
  ASSUME NEW a \in Nat, NEW n \in Nat
  PROVE  IsFiniteSet((a + 1)..(a + n)) /\ Cardinality((a + 1)..(a + n)) = n
<1>1. a + 1 \in Int /\ a + n \in Int /\ (a + 1 > a + n <=> n = 0) /\ a + n - (a + 1) + 1 = n
  OBVIOUS
<1> QED BY <1>1, FS_Interval

\* Events that wait have been emitted, and so are of their type.
LEMMA WaitingTyped ==
  ASSUME RecorderInv
  PROVE  Waiting \subseteq 1..MaxEvents /\ stored \subseteq 1..MaxEvents
<1>1. queue \in Seq(1..MaxEvents) /\ stored \subseteq 1..MaxEvents
  BY DEF RecorderInv, RecorderTypeOK
<1>2. \A i \in 1..Len(queue) : queue[i] \in 1..MaxEvents
  BY <1>1, ElementOfSeq
<1> QED BY <1>1, <1>2 DEF Waiting

LEMMA SetsFinite ==
  ASSUME RecorderInv
  PROVE  /\ IsFiniteSet(Traced) /\ IsFiniteSet(stored) /\ IsFiniteSet(Waiting)
         /\ Cardinality(Traced) \in Nat /\ Cardinality(stored) \in Nat /\ Cardinality(Waiting) \in Nat
<1>1. IsFiniteSet(1..emitted)
  BY Numbers, FS_Interval DEF RecorderInv, RecorderTypeOK
<1>2. Traced \in SUBSET (1..emitted) /\ stored \in SUBSET (1..emitted) /\ Waiting \in SUBSET (1..emitted)
  BY DEF RecorderInv, InOrder, Traced
<1> QED BY <1>1, <1>2, FS_Subset, FS_CardinalityType

\* Events that wait in order are as many as the queue is long.
LEMMA WaitingCounted ==
  ASSUME RecorderInv
  PROVE  Cardinality(Waiting) = Len(queue)
<1> DEFINE n == Len(queue)
           f == [i \in 1..n |-> queue[i]]
<1>1. n \in Nat /\ \A i \in 1..n : queue[i] \in Nat
  BY Numbers DEF RecorderInv, RecorderTypeOK
<1>2. f \in Bijection(1..n, Waiting)
  <2>1. f \in [1..n -> Waiting] /\ \A y \in Waiting : \E i \in 1..n : f[i] = y
    BY DEF Waiting
  <2>2. \A i, j \in 1..n : f[i] = f[j] => i = j
    <3> SUFFICES ASSUME NEW i \in 1..n, NEW j \in 1..n, i # j PROVE queue[i] # queue[j]
      OBVIOUS
    <3>1. i < j \/ j < i
      BY <1>1
    <3> QED BY <1>1, <3>1 DEF RecorderInv, InOrder
  <2> HIDE DEF f
  <2> QED BY <2>1, <2>2 DEF Bijection, Injection, Surjection, IsInjective
<1> HIDE DEF n, f
<1>3. IsFiniteSet(1..n) /\ Cardinality(1..n) = n
  <2>1. 0 + 1 = 1 /\ 0 + n = n
    BY <1>1
  <2> QED BY <1>1, <2>1, UpTo
<1>4. ExistsBijection(1..n, Waiting)
  BY <1>2 DEF ExistsBijection
<1> QED BY <1>3, <1>4, FS_Bijection DEF n

\* What the property counts one by one.
LEMMA TracedIsBoth ==
  ASSUME RecorderInv
  PROVE  Cardinality(Traced) = Cardinality(stored) + Cardinality(Waiting \ stored)
<1> DEFINE rest == Waiting \ stored
<1>1. IsFiniteSet(stored) /\ IsFiniteSet(rest)
  BY SetsFinite, FS_Difference
<1>2. Traced = stored \cup rest /\ stored \cap rest = {}
  BY DEF Traced
<1> HIDE DEF rest
<1>3. Cardinality(stored) \in Nat /\ Cardinality(rest) \in Nat
  BY <1>1, FS_CardinalityType
<1>4. Cardinality(Traced) = Cardinality(stored) + Cardinality(rest) - 0
  BY <1>1, <1>2, FS_Union, FS_EmptySet
<1> QED BY <1>3, <1>4 DEF rest

-----------------------------------------------------------------------------
(* Recorder: its steps                                                     *)

\* Whoever changes neither queue nor store, nor counts, disturbs only the batch.
LEMMA RecorderFrame ==
  ASSUME RecorderInv, UNCHANGED <<queue, count, dropped, emitted, stored>>,
         RecorderTypeOK', trouble' \in Nat, trouble' = 0 => trouble = 0,
         BatchFits', trouble' = 0 => (WriterAt("drain") <=> WriterAt("drain")'),
         trouble' = 0 /\ WriterAt("drain") => writer'.batch = writer.batch
  PROVE  RecorderInv'
<1>1. Traced' = Traced /\ Waiting' = Waiting
  BY DEF Traced, Waiting
<1>2. trouble' = 0 /\ WriterAt("drain") => Batch' = Batch
  BY DEF Batch
<1>3. InOrder' /\ Accounted' /\ Apart'
  BY <1>1, <1>2 DEF RecorderInv, InOrder, Accounted, Apart
<1> QED BY <1>3 DEF RecorderInv

WriterType == [step: WriterSteps, open: BOOLEAN, backoff: BOOLEAN, batch: 0..FlushLimit,
               timed: BOOLEAN, rounds: Nat, before: Nat]

LEMMA AfterTyped ==
  ASSUME NEW w \in WriterType, NEW left \in Nat, w.rounds = writer.rounds
  PROVE  /\ After(w, left) \in WriterType /\ After(w, left).batch = 0
         /\ After(w, left).step \in {"delay", "unwound", "flush"}
<1> DEFINE delay == [w EXCEPT !.step = "delay", !.batch = 0]
           unwound == [w EXCEPT !.step = "unwound", !.batch = 0]
           again == [w EXCEPT !.step = "flush", !.batch = 0, !.rounds = @ - 1, !.before = left]
<1>1. 0 \in 0..FlushLimit /\ {"delay", "unwound", "flush"} \subseteq WriterSteps
  BY Numbers DEF WriterSteps
<1>2. w.rounds \in Nat /\ (w.rounds > 0 => w.rounds - 1 \in Nat)
  BY DEF WriterType
<1>3. delay \in WriterType /\ delay.batch = 0 /\ delay.step = "delay"
  BY <1>1 DEF WriterType
<1>4. unwound \in WriterType /\ unwound.batch = 0 /\ unwound.step = "unwound"
  BY <1>1 DEF WriterType
<1>5. w.rounds > 0 => again \in WriterType /\ again.batch = 0 /\ again.step = "flush"
  BY <1>1, <1>2 DEF WriterType
<1>6. After(w, left) = delay \/ After(w, left) = unwound \/ (w.rounds > 0 /\ After(w, left) = again)
  BY DEF After, Shutdown
<1> HIDE DEF delay, unwound, again
<1> QED BY <1>3, <1>4, <1>5, <1>6

LEMMA RoundsTyped == Rounds \in Nat
<1> DEFINE n == PendingLimit + FlushLimit - 1
<1>1. n \in Nat /\ FlushLimit \in Nat \ {0}
  BY Numbers
<1> HIDE DEF n
<1>2. n \div FlushLimit \in Nat
  BY <1>1
<1> QED BY <1>2 DEF Rounds, n

LEMMA InitRecorderInv == RecorderInit => RecorderInv
<1> SUFFICES ASSUME RecorderInit PROVE RecorderInv
  OBVIOUS
<1> USE DEF RecorderInit
<1>1. RecorderTypeOK
  <2>1. Asleep \in WriterType /\ writer \in WriterType
    <3>1. 0 \in 0..FlushLimit /\ {"top", "ended"} \subseteq WriterSteps /\ 0 \in Nat
      BY Numbers DEF WriterSteps
    <3>2. Asleep \in WriterType /\ [Asleep EXCEPT !.step = "ended"] \in WriterType
      BY <3>1 DEF Asleep, WriterType
    <3> QED BY <3>2
  <2>2. <<>> \in Seq(1..MaxEvents)
    OBVIOUS
  <2> QED BY <2>1, <2>2, Numbers DEF RecorderTypeOK, WriterType
<1>2. Waiting = {} /\ Traced = {} /\ Len(queue) = 0
  BY DEF Waiting, Traced
<1>3. BatchFits /\ ~WriterAt("drain")
  BY DEF BatchFits, Asleep, WriterAt
<1> QED BY <1>1, <1>2, <1>3, FS_EmptySet DEF RecorderInv, InOrder, Apart, Accounted

\* A step of the writer that only goes on, or fails.
LEMMA WriterGoesOn ==
  ASSUME RecorderInv, NEW w \in WriterType, WriterIs(w), ~WriterAt("drain"), w.step # "drain",
         UNCHANGED <<queue, count, stored>>, Outside,
         trouble' \in Nat, trouble' = 0 => trouble = 0,
         IF w.step = "append" THEN w.batch \in 1..Len(queue) ELSE w.batch = 0
  PROVE  RecorderInv'
<1>1. RecorderTypeOK'
  BY DEF RecorderInv, RecorderTypeOK, WriterIs, Outside, producers, WriterType
<1>2. BatchFits' /\ ~WriterAt("drain")'
  BY DEF BatchFits, WriterIs, WriterAt
<1> QED BY <1>1, <1>2, RecorderFrame DEF Outside, producers, RecorderInv

LEMMA EmitKeeps ==
  ASSUME RecorderInv, NEW e \in Emitter, NEW n \in 1..2, Emit(e, n), ~stopped
  PROVE  RecorderInv'
<1> DEFINE k == Fewer(n)
           new == (emitted + 1)..(emitted + k)
<1> USE Numbers
<1>0. queue \in Seq(1..MaxEvents) /\ Len(queue) \in Nat /\ emitted \in Nat /\ count = Len(queue)
      /\ dropped \in Nat /\ Traced \subseteq 1..emitted /\ stored \subseteq Traced /\ Waiting \subseteq Traced
  BY DEF RecorderInv, RecorderTypeOK, InOrder, Traced
<1>1. k \in 0..n /\ n \in 1..2
  BY <1>0 DEF Fewer, Room
<1>2. /\ queue' = queue \o Events(k) /\ count' = count + k /\ dropped' = dropped + (n - k)
      /\ emitted' = emitted + n /\ emitted + n <= MaxEvents
      /\ emitter' = [emitter EXCEPT ![e] = "pushed"]
      /\ UNCHANGED <<wake, writer, stored, trouble>>
  BY DEF Emit, Lose
<1> HIDE DEF k
<1>3. Events(k) \in Seq(1..MaxEvents) /\ Len(Events(k)) = k /\ \A i \in 1..k : Events(k)[i] = emitted + i
  BY <1>0, <1>1, <1>2 DEF Events
<1>4. /\ queue' \in Seq(1..MaxEvents) /\ Len(queue') = Len(queue) + k
      /\ \A i \in 1..Len(queue) : queue'[i] = queue[i]
      /\ \A i \in 1..k : queue'[Len(queue) + i] = emitted + i
      /\ \A i \in 1..Len(queue') : i \in 1..Len(queue) \/ (i - Len(queue) \in 1..k /\ queue'[i] = emitted + (i - Len(queue)))
  <2>1. /\ queue' \in Seq(1..MaxEvents) /\ Len(queue') = Len(queue) + k
        /\ \A i \in 1..(Len(queue) + k) : queue'[i] = IF i <= Len(queue) THEN queue[i] ELSE Events(k)[i - Len(queue)]
    <3> DEFINE S == 1..MaxEvents
    <3>1. queue \in Seq(S) /\ Events(k) \in Seq(S)
      BY <1>0, <1>3
    <3> HIDE DEF S
    <3>2. /\ queue \o Events(k) \in Seq(S) /\ Len(queue \o Events(k)) = Len(queue) + Len(Events(k))
          /\ \A i \in 1..Len(queue) + Len(Events(k)) :
               (queue \o Events(k))[i] = IF i <= Len(queue) THEN queue[i] ELSE Events(k)[i - Len(queue)]
      BY <3>1, ConcatProperties
    <3> QED
      BY <1>2, <1>3, <3>2 DEF S
  <2>2. k \in Nat
    BY <1>1
  <2>3. \A i \in 1..Len(queue) : queue'[i] = queue[i]
    <3> TAKE i \in 1..Len(queue)
    <3>1. i \in 1..(Len(queue) + k) /\ i <= Len(queue)
      BY <1>0, <2>2
    <3> QED BY <2>1, <3>1
  <2>4. \A i \in 1..k : queue'[Len(queue) + i] = emitted + i
    <3> TAKE i \in 1..k
    <3>1. /\ Len(queue) + i \in 1..(Len(queue) + k) /\ ~(Len(queue) + i <= Len(queue))
          /\ (Len(queue) + i) - Len(queue) = i
      BY <1>0, <2>2
    <3>2. queue'[Len(queue) + i] = Events(k)[i]
      BY <2>1, <3>1
    <3> QED BY <1>3, <3>2
  <2>5. \A i \in 1..(Len(queue) + k) : i \notin 1..Len(queue) =>
          i - Len(queue) \in 1..k /\ i = Len(queue) + (i - Len(queue))
    BY <1>0, <2>2
  <2>6. \A i \in 1..(Len(queue) + k) : i \notin 1..Len(queue) =>
          queue'[i] = emitted + (i - Len(queue))
    BY <2>4, <2>5
  <2> QED BY <2>1, <2>3, <2>4, <2>5, <2>6
<1>5. Waiting' = Waiting \cup new
  <2>1. \A x \in Waiting' : x \in Waiting \cup new
    <3> SUFFICES ASSUME NEW i \in 1..Len(queue'), queue'[i] \notin new PROVE queue'[i] \in Waiting
      BY DEF Waiting
    <3>1. CASE i \in 1..Len(queue)
      BY <1>4, <3>1 DEF Waiting
    <3>2. CASE i - Len(queue) \in 1..k /\ queue'[i] = emitted + (i - Len(queue))
      BY <1>0, <1>1, <3>2
    <3> QED BY <1>4, <3>1, <3>2
  <2>2. \A x \in Waiting : x \in Waiting'
    BY <1>0, <1>1, <1>4 DEF Waiting
  <2>3. \A x \in new : x \in Waiting'
    <3> SUFFICES ASSUME NEW x \in new PROVE \E i \in 1..Len(queue') : queue'[i] = x
      BY DEF Waiting
    <3>1. x - emitted \in 1..k /\ x = emitted + (x - emitted)
      BY <1>0, <1>1
    <3>2. Len(queue) + (x - emitted) \in 1..Len(queue')
      BY <1>0, <1>1, <1>4, <3>1
    <3> QED BY <1>4, <3>1, <3>2
  <2> QED BY <2>1, <2>2, <2>3
<1>6. Traced' = Traced \cup new /\ Traced \cap new = {} /\ IsFiniteSet(new) /\ Cardinality(new) = k
  <2>1. Traced' = Traced \cup new /\ Traced \cap new = {}
    BY <1>0, <1>1, <1>2, <1>5 DEF Traced
  <2>2. IsFiniteSet(new) /\ Cardinality(new) = k
    BY <1>0, <1>1, UpTo
  <2> QED BY <2>1, <2>2
<1>7. Cardinality(Traced') = Cardinality(Traced) + k
  <2>1. k \in Nat /\ IsFiniteSet(Traced) /\ Cardinality(Traced) \in Nat
    BY <1>1, SetsFinite
  <2> HIDE DEF new
  <2>2. Cardinality(Traced \cup new) = Cardinality(Traced) + k - Cardinality(Traced \cap new)
    BY <1>6, <2>1, FS_Union
  <2>3. Cardinality(Traced \cap new) = 0
    BY <1>6, FS_EmptySet
  <2> QED BY <1>6, <2>1, <2>2, <2>3
<1>8. RecorderTypeOK'
  BY <1>0, <1>1, <1>2, <1>4 DEF RecorderInv, RecorderTypeOK
<1>9. InOrder'
  <2>1. Traced' \subseteq 1..emitted'
    BY <1>0, <1>1, <1>2, <1>6
  <2>2. ASSUME NEW i \in 1..Len(queue'), NEW j \in 1..Len(queue'), i < j PROVE queue'[i] < queue'[j]
    <3>1. CASE j \in 1..Len(queue)
      <4>1. i \in 1..Len(queue)
        BY <1>0, <1>4, <2>2, <3>1
      <4> QED BY <1>4, <2>2, <3>1, <4>1 DEF RecorderInv, InOrder
    <3>2. CASE j \notin 1..Len(queue) /\ i \in 1..Len(queue)
      <4>1. queue[i] \in Waiting /\ queue'[i] = queue[i] /\ queue'[j] = emitted + (j - Len(queue)) /\ j - Len(queue) \in 1..k
        BY <1>4, <3>2 DEF Waiting
      <4>2. queue[i] \in 1..emitted
        BY <1>0, <4>1
      <4> QED BY <1>0, <1>1, <4>1, <4>2
    <3>3. CASE j \notin 1..Len(queue) /\ i \notin 1..Len(queue)
      BY <1>0, <1>1, <1>4, <2>2, <3>3
    <3> QED BY <3>1, <3>2, <3>3
  <2> QED BY <2>1, <2>2 DEF InOrder
<1>10. Batch' = Batch \/ ~(writer.step \in {"append", "drain"})
  BY <1>0, <1>2, <1>4, SMTT(60) DEF RecorderInv, BatchFits, Batch
<1>11. BatchFits'
  BY <1>0, <1>1, <1>2, <1>4, <1>10 DEF RecorderInv, BatchFits, WriterAt
<1>12. Apart'
  <2>1. new \cap stored = {}
    BY <1>0, <1>6
  <2> QED BY <1>2, <1>5, <1>10, <2>1 DEF RecorderInv, Apart, WriterAt
<1>13. Accounted'
  <2>1. Cardinality(Traced) \in Nat /\ k \in Nat /\ n - k \in Nat /\ n \in Nat
    BY <1>1, SetsFinite
  <2>2. Cardinality(Traced) + dropped >= emitted /\ (trouble = 0 => Cardinality(Traced) + dropped = emitted)
    BY DEF RecorderInv, Accounted
  <2> QED BY <1>0, <1>2, <1>7, <2>1, <2>2, SMTT(60) DEF Accounted
<1> QED BY <1>0, <1>2, <1>4, <1>8, <1>9, <1>11, <1>12, <1>13 DEF RecorderInv

LEMMA AppendKeeps ==
  ASSUME RecorderInv, WriterAt("append"), stored' = stored \cup Batch,
         WriterIs([writer EXCEPT !.step = "drain"]), UNCHANGED <<queue, count, trouble>>, Outside
  PROVE  RecorderInv'
<1>1. Batch \subseteq Waiting
  BY Numbers, SMTT(60) DEF RecorderInv, RecorderTypeOK, BatchFits, WriterAt, Batch, Waiting
<1>2. /\ Waiting' = Waiting /\ Traced' = Traced /\ Batch' = Batch /\ WriterAt("drain")'
      /\ UNCHANGED <<queue, count, trouble, emitted, dropped>>
  BY <1>1 DEF Traced, Waiting, Batch, WriterIs, WriterAt, Outside, producers, RecorderInv, RecorderTypeOK
<1>3. RecorderTypeOK'
  <2>1. writer' \in WriterType
    BY DEF RecorderInv, RecorderTypeOK, WriterType, WriterSteps, WriterIs
  <2>2. stored' \subseteq 1..MaxEvents
    BY <1>1, WaitingTyped
  <2> QED BY <2>1, <2>2 DEF RecorderInv, RecorderTypeOK, WriterType, Outside, producers
<1>4. BatchFits'
  BY <1>2 DEF RecorderInv, BatchFits, WriterIs, WriterAt, RecorderTypeOK
<1>5. Apart'
  BY <1>1, <1>2 DEF RecorderInv, Apart, WriterAt
<1>6. InOrder' /\ Accounted'
  BY <1>2 DEF RecorderInv, InOrder, Accounted
<1> QED BY <1>2, <1>3, <1>4, <1>5, <1>6 DEF RecorderInv

LEMMA DrainKeeps == RecorderInv /\ Drain => RecorderInv'
<1> SUFFICES ASSUME RecorderInv, Drain PROVE RecorderInv'
  OBVIOUS
<1> DEFINE b == writer.batch
<1> USE Numbers
<1>1. /\ queue \in Seq(1..MaxEvents) /\ Len(queue) \in Nat /\ count = Len(queue)
      /\ b \in 1..Len(queue) /\ Batch \subseteq stored /\ writer \in WriterType
  BY DEF RecorderInv, RecorderTypeOK, BatchFits, Drain, WriterAt, WriterType
<1>2. /\ queue' = SubSeq(queue, b + 1, Len(queue)) /\ count' = count - b
      /\ writer' = After(Succeeded, count - b)
      /\ UNCHANGED <<emitted, emitter, dropped, stored, trouble>>
  BY DEF Drain, Drained, WriterIs, Outside, producers
<1> HIDE DEF b
<1>3. /\ queue' \in Seq(1..MaxEvents) /\ Len(queue') = Len(queue) - b
      /\ \A i \in 1..(Len(queue) - b) : queue'[i] = queue[b + i]
  <2>1. \A i \in (b + 1)..Len(queue) : queue[i] \in 1..MaxEvents
    BY <1>1
  <2>2. /\ queue' \in Seq(1..MaxEvents)
        /\ Len(queue') = IF b + 1 <= Len(queue) THEN Len(queue) - (b + 1) + 1 ELSE 0
        /\ \A i \in 1..(Len(queue) - (b + 1) + 1) : queue'[i] = queue[(b + 1) + i - 1]
    <3>1. b + 1 \in Int /\ Len(queue) \in Int
      BY <1>1
    <3> QED BY <1>2, <2>1, <3>1, SubSeqProperties
  <2>3. /\ Len(queue) - (b + 1) + 1 = Len(queue) - b
        /\ (~(b + 1 <= Len(queue)) => Len(queue) - b = 0)
        /\ \A i \in 1..(Len(queue) - b) : (b + 1) + i - 1 = b + i
    BY <1>1
  <2> QED BY <2>2, <2>3
<1>4. Waiting = Batch \cup Waiting'
  <2>1. \A x \in Waiting : x \in Batch \cup Waiting'
    <3> SUFFICES ASSUME NEW i \in 1..Len(queue), i \notin 1..b PROVE queue[i] \in Waiting'
      BY DEF Waiting, Batch, b
    <3>1. i - b \in 1..Len(queue') /\ b + (i - b) = i
      BY <1>1, <1>3, SMTT(60)
    <3>2. queue'[i - b] = queue[i]
      BY <1>3, <3>1
    <3> QED BY <3>1, <3>2 DEF Waiting
  <2>2. Batch \subseteq Waiting
    BY <1>1 DEF Waiting, Batch, b
  <2>3. Waiting' \subseteq Waiting
    BY <1>1, <1>3, SMTT(60) DEF Waiting
  <2> QED BY <2>1, <2>2, <2>3
<1>5. Batch \cap Waiting' = {}
  <2> SUFFICES ASSUME NEW i \in 1..b, NEW j \in 1..Len(queue') PROVE queue[i] # queue'[j]
    BY DEF Batch, Waiting, b
  <2>1. /\ queue'[j] = queue[b + j] /\ b + j \in 1..Len(queue) /\ i < b + j /\ i \in 1..Len(queue)
        /\ queue[i] \in Nat /\ queue[b + j] \in Nat
    <3>1. j \in 1..(Len(queue) - b) /\ b + j \in 1..Len(queue) /\ i < b + j /\ i \in 1..Len(queue)
      <4>1. /\ Len(queue) \in Nat /\ b \in 1..Len(queue) /\ Len(queue') = Len(queue) - b
            /\ i \in 1..b /\ j \in 1..Len(queue')
        BY <1>1, <1>3
      <4> QED BY <4>1
    <3>2. \A l \in 1..Len(queue) : queue[l] \in Nat
      <4>1. \A l \in 1..Len(queue) : queue[l] \in 1..MaxEvents
        BY <1>1, ElementOfSeq
      <4>2. 1..MaxEvents \subseteq Nat
        OBVIOUS
      <4> QED BY <4>1, <4>2
    <3> QED BY <1>3, <3>1, <3>2
  <2> QED BY <2>1 DEF RecorderInv, InOrder
<1>6. Traced' = Traced
  BY <1>1, <1>2, <1>4 DEF Traced
<1>7. /\ writer' \in WriterType /\ writer'.batch = 0 /\ writer'.step \in {"delay", "unwound", "flush"}
      /\ count' = Len(queue') /\ count' \in Nat
  <2>1. Succeeded \in WriterType /\ Succeeded.rounds = writer.rounds /\ count - b \in Nat
    <3>1. Succeeded \in WriterType /\ Succeeded.rounds = writer.rounds
      BY <1>1 DEF Succeeded, WriterType
    <3> QED BY <1>1, <3>1
  <2> QED BY <1>1, <1>2, <1>3, <2>1, AfterTyped
<1>8. RecorderTypeOK' /\ BatchFits' /\ ~WriterAt("drain")'
  BY <1>2, <1>3, <1>7 DEF RecorderInv, RecorderTypeOK, BatchFits, WriterAt, WriterType
<1>9. InOrder'
  <2>1. ASSUME NEW i \in 1..Len(queue'), NEW j \in 1..Len(queue'), i < j PROVE queue'[i] < queue'[j]
    <3>1. b + i \in 1..Len(queue) /\ b + j \in 1..Len(queue) /\ b + i < b + j
      <4>1. i \in 1..(Len(queue) - b) /\ j \in 1..(Len(queue) - b)
        BY <1>3
      <4> QED BY <1>1, <2>1, <4>1
    <3>2. queue'[i] = queue[b + i] /\ queue'[j] = queue[b + j]
      BY <1>3, <2>1
    <3> QED BY <3>1, <3>2 DEF RecorderInv, InOrder
  <2> QED BY <1>2, <1>6, <2>1 DEF RecorderInv, InOrder
<1>10. Apart'
  BY <1>2, <1>4, <1>5, <1>8 DEF RecorderInv, Apart, Drain, WriterAt
<1>11. Accounted'
  BY <1>2, <1>6 DEF RecorderInv, Accounted
<1> QED BY <1>2, <1>7, <1>8, <1>9, <1>10, <1>11 DEF RecorderInv

LEMMA ClearKeeps == RecorderInv /\ Clear => RecorderInv'
<1> SUFFICES ASSUME RecorderInv, Clear PROVE RecorderInv'
  OBVIOUS
<1>1. /\ queue' = <<>> /\ count' = 0 /\ dropped' = dropped + Len(queue)
      /\ writer' = [writer EXCEPT !.step = "ended"] /\ WriterAt("stopped")
      /\ UNCHANGED <<emitted, emitter, stored, trouble>>
  BY DEF Clear, WriterIs, producers
<1>2. Waiting' = {} /\ Traced' = stored /\ Len(queue') = 0
  BY <1>1 DEF Waiting, Traced
<1>3. RecorderTypeOK' /\ BatchFits' /\ ~WriterAt("drain")'
  <2>1. writer' \in WriterType /\ writer'.batch = 0 /\ writer'.step = "ended"
    BY <1>1 DEF RecorderInv, RecorderTypeOK, BatchFits, WriterAt, WriterType, WriterSteps
  <2>2. dropped' \in Nat /\ <<>> \in Seq(1..MaxEvents)
    BY <1>1 DEF RecorderInv, RecorderTypeOK
  <2> QED BY <1>1, <2>1, <2>2 DEF RecorderInv, RecorderTypeOK, BatchFits, WriterAt, WriterType
<1>4. Accounted'
  <2> DEFINE both == stored \cap Waiting
  <2>1. /\ Cardinality(Traced) = Cardinality(stored) + Len(queue) - Cardinality(both)
        /\ Cardinality(both) \in Nat /\ Cardinality(stored) \in Nat
    BY SetsFinite, WaitingCounted, FS_Union, FS_Intersection, FS_CardinalityType DEF Traced
  <2>2. trouble = 0 => Cardinality(both) = 0
    BY <1>1, FS_EmptySet DEF RecorderInv, Apart, WriterAt
  <2>3. dropped \in Nat /\ emitted \in Nat /\ Len(queue) \in Nat
    BY DEF RecorderInv, RecorderTypeOK
  <2> QED BY <1>1, <1>2, <2>1, <2>2, <2>3, SMTT(60) DEF RecorderInv, Accounted
<1>5. InOrder' /\ Apart'
  BY <1>1, <1>2, <1>3 DEF RecorderInv, InOrder, Apart, Traced
<1> QED BY <1>1, <1>2, <1>3, <1>4, <1>5 DEF RecorderInv

LEMMA NextRecorderInv == RecorderInv /\ [RecorderNext]_recorderVars => RecorderInv'
<1> SUFFICES ASSUME RecorderInv, [RecorderNext]_recorderVars PROVE RecorderInv'
  OBVIOUS
<1>0. /\ writer \in WriterType /\ count = Len(queue) /\ count \in Nat /\ trouble \in Nat
      /\ dropped \in Nat /\ emitted \in Nat
  BY DEF RecorderInv, RecorderTypeOK, WriterType
<1>1. CASE UNCHANGED recorderVars
  <2>1. UNCHANGED <<queue, count, dropped, emitted, stored, writer, trouble, emitter>>
    BY <1>1 DEF recorderVars
  <2>2. RecorderTypeOK' /\ BatchFits' /\ (WriterAt("drain") <=> WriterAt("drain")')
    BY <2>1 DEF RecorderInv, RecorderTypeOK, BatchFits, WriterAt, Batch
  <2> QED BY <1>0, <2>1, <2>2, RecorderFrame
<1>2. ASSUME NEW n \in 1..2, Lose(n), emitted' = emitted + n, emitted + n <= MaxEvents,
             UNCHANGED <<queue, count, emitter, wake, writer, stored, trouble>>
      PROVE  RecorderInv'
  <2>1. UNCHANGED <<Traced, Waiting, Batch>> /\ dropped' = dropped + n /\ dropped' \in Nat /\ emitted' \in Nat
    BY <1>0, <1>2 DEF Traced, Waiting, Batch, Lose
  <2>2. RecorderTypeOK' /\ BatchFits' /\ Apart' /\ InOrder'
    <3>1. 1..emitted \subseteq 1..emitted'
      BY <1>0, <1>2
    <3> QED BY <1>0, <1>2, <2>1, <3>1, Numbers
         DEF RecorderInv, RecorderTypeOK, BatchFits, Apart, InOrder, WriterAt
  <2>3. Accounted'
    BY <1>0, <1>2, <2>1, SetsFinite DEF RecorderInv, Accounted
  <2> QED BY <1>0, <1>2, <2>2, <2>3 DEF RecorderInv
<1>3. ASSUME NEW n \in 1..2, EmitContended(n) PROVE RecorderInv'
  BY <1>2, <1>3 DEF EmitContended
<1>4. ASSUME NEW n \in 1..2, NEW e \in Emitter, Emit(e, n) PROVE RecorderInv'
  <2>1. CASE stopped
    BY <1>2, <1>4, <2>1 DEF Emit
  <2> QED BY <1>4, <2>1, EmitKeeps
<1>5. ASSUME NEW e \in Emitter, Notify(e) \/ Unpark1(e) PROVE RecorderInv'
  <2>1. UNCHANGED <<queue, count, dropped, emitted, stored, writer, trouble>>
        /\ emitter' \in [Emitter -> {"idle", "pushed", "notified"}]
    BY <1>5 DEF Notify, Unpark1, RecorderInv, RecorderTypeOK
  <2>2. RecorderTypeOK' /\ BatchFits' /\ (WriterAt("drain") <=> WriterAt("drain")')
    BY <2>1 DEF RecorderInv, RecorderTypeOK, BatchFits, WriterAt, Batch
  <2> QED BY <1>0, <2>1, <2>2, RecorderFrame
<1>6. CASE DropRecorder
  <2>1. UNCHANGED <<queue, count, dropped, emitted, stored, writer, trouble, emitter>>
    BY <1>6 DEF DropRecorder, producers
  <2>2. RecorderTypeOK' /\ BatchFits' /\ (WriterAt("drain") <=> WriterAt("drain")')
    BY <2>1 DEF RecorderInv, RecorderTypeOK, BatchFits, WriterAt, Batch
  <2> QED BY <1>0, <2>1, <2>2, RecorderFrame
<1>7. ASSUME NEW w \in WriterType, WriterIs(w), w.step \notin {"append", "drain"}, ~WriterAt("drain"),
             w.batch = 0, UNCHANGED <<queue, count, stored>>, Outside,
             trouble' = trouble \/ Troubled
      PROVE  RecorderInv'
  BY <1>0, <1>7, WriterGoesOn DEF Troubled
<1>8. CASE Top
  <2>1. writer.batch = 0 /\ writer.step = "top"
    BY <1>8 DEF Top, WriterAt, RecorderInv, BatchFits
  <2>2. \E w \in WriterType : WriterIs(w) /\ w.step \in {"flush", "unwound"} /\ w.batch = 0
    <3> DEFINE on == [writer EXCEPT !.step = "flush"]
               off == [writer EXCEPT !.step = "unwound"]
               last == [writer EXCEPT !.step = "flush", !.rounds = Rounds, !.before = count]
    <3>1. on \in WriterType /\ on.step = "flush" /\ on.batch = 0
      BY <1>0, <2>1 DEF WriterType, WriterSteps
    <3>2. off \in WriterType /\ off.step = "unwound" /\ off.batch = 0
      BY <1>0, <2>1 DEF WriterType, WriterSteps
    <3>4. last \in WriterType /\ last.step = "flush" /\ last.batch = 0
      BY <1>0, <2>1, RoundsTyped DEF WriterType, WriterSteps
    <3>3. WriterIs(on) \/ WriterIs(off) \/ WriterIs(last)
      BY <1>8 DEF Top
    <3> HIDE DEF on, off, last
    <3> QED BY <3>1, <3>2, <3>3, <3>4
  <2> QED BY <1>7, <1>8, <2>1, <2>2 DEF Top, WriterAt
<1>9. \A w \in WriterType : w.rounds = writer.rounds =>
        After(w, count) \in WriterType /\ After(w, count).batch = 0
        /\ After(w, count).step \notin {"append", "drain"}
  BY <1>0, AfterTyped
<1>10. [writer EXCEPT !.backoff = TRUE] \in WriterType
       /\ [writer EXCEPT !.backoff = TRUE].rounds = writer.rounds
  BY <1>0 DEF WriterType
<1>11. CASE Flush
  <2>1. ~WriterAt("drain") /\ UNCHANGED <<queue, count, stored>> /\ Outside /\ writer.batch = 0
    BY <1>11 DEF Flush, WriterAt, RecorderInv, BatchFits
  <2>2. CASE WriterIs(After(writer, count)) /\ UNCHANGED trouble
    BY <1>0, <1>7, <1>9, <2>1, <2>2
  <2>3. CASE Failed /\ Troubled
    BY <1>7, <1>9, <1>10, <2>1, <2>3 DEF Failed
  <2>4. CASE LET n == IF Len(queue) < FlushLimit THEN Len(queue) ELSE FlushLimit
             IN /\ IF n = 0 THEN WriterIs(After([Succeeded EXCEPT !.open = TRUE], count))
                   ELSE WriterIs([writer EXCEPT !.step = "append", !.open = TRUE, !.batch = n])
                /\ UNCHANGED trouble
    <3> DEFINE n == IF Len(queue) < FlushLimit THEN Len(queue) ELSE FlushLimit
    <3>1. n \in 0..FlushLimit /\ n \in 0..Len(queue)
      BY <1>0, Numbers
    <3>2. CASE n = 0
      <4>1. [Succeeded EXCEPT !.open = TRUE] \in WriterType
            /\ [Succeeded EXCEPT !.open = TRUE].rounds = writer.rounds
        BY <1>0 DEF WriterType, Succeeded
      <4> QED BY <1>7, <1>9, <2>1, <2>4, <3>2, <4>1
    <3>3. CASE n # 0
      <4> DEFINE w == [writer EXCEPT !.step = "append", !.open = TRUE, !.batch = n]
      <4>1. w \in WriterType /\ w.step = "append" /\ w.batch = n /\ n \in 1..Len(queue)
        <5>1. n \in 1..Len(queue)
          BY <1>0, <3>1, <3>3
        <5>2. "append" \in WriterSteps
          BY DEF WriterSteps
        <5> HIDE DEF n
        <5> QED BY <1>0, <3>1, <5>1, <5>2 DEF WriterType
      <4>2. WriterIs(w) /\ UNCHANGED trouble
        BY <2>4, <3>3
      <4> HIDE DEF w, n
      <4> QED BY <1>0, <2>1, <4>1, <4>2, WriterGoesOn
    <3> QED BY <3>2, <3>3
  <2> QED BY <1>11, <2>2, <2>3, <2>4 DEF Flush
<1>12. ASSUME WriterAt("append") \/ (WriterAt("flush") /\ writer.batch = 0), NEW w \in WriterType,
              WriterIs(w), w.step \notin {"append", "drain"}, w.batch = 0,
              UNCHANGED <<queue, count>>, Outside, Troubled,
              stored' \in {stored, stored \cup Batch}
       PROVE  RecorderInv'
  <2>1. Batch \subseteq Waiting
    BY <1>12, <1>0, Numbers, SMTT(60)
    DEF RecorderInv, BatchFits, WriterAt, Batch, Waiting, RecorderTypeOK
  <2>2. /\ Traced' = Traced /\ Waiting' = Waiting /\ trouble' # 0 /\ trouble' \in Nat
        /\ UNCHANGED <<queue, count, dropped, emitted, emitter>> /\ writer' = w
    BY <1>0, <1>12, <2>1 DEF Traced, Waiting, Outside, producers, Troubled, WriterIs
  <2>3. RecorderTypeOK'
    <3>1. stored' \subseteq 1..MaxEvents
      BY <1>12, <2>1, WaitingTyped
    <3> QED BY <1>12, <2>2, <3>1 DEF RecorderInv, RecorderTypeOK, WriterType
  <2>4. BatchFits'
    BY <1>12, <2>2 DEF BatchFits, WriterAt
  <2> QED BY <1>0, <2>2, <2>3, <2>4 DEF RecorderInv, InOrder, Apart, Accounted
<1>13. CASE AppendBatch
  <2>1. CASE stored' = stored \cup Batch /\ WriterIs([writer EXCEPT !.step = "drain"]) /\ UNCHANGED trouble
    BY <1>13, <2>1, AppendKeeps DEF AppendBatch
  <2>2. CASE stored' \in {stored, stored \cup Batch} /\ Failed /\ Troubled
    BY <1>9, <1>10, <1>12, <1>13, <2>2 DEF AppendBatch, Failed
  <2> QED BY <1>13, <2>1, <2>2 DEF AppendBatch
<1>14. CASE WriterPanics
  <2> DEFINE w == [writer EXCEPT !.step = "unwound", !.batch = 0]
  <2>1. w \in WriterType /\ w.step = "unwound" /\ w.batch = 0
    <3>1. 0 \in 0..FlushLimit /\ "unwound" \in WriterSteps
      BY Numbers DEF WriterSteps
    <3> QED BY <1>0, <3>1 DEF WriterType
  <2>2. WriterAt("append") \/ (WriterAt("flush") /\ writer.batch = 0)
    BY <1>14 DEF WriterPanics, WriterAt, RecorderInv, BatchFits
  <2>3. /\ WriterIs(w) /\ UNCHANGED <<queue, count>> /\ Outside /\ Troubled
        /\ stored' \in {stored, stored \cup Batch}
    BY <1>14 DEF WriterPanics
  <2> HIDE DEF w
  <2> QED BY <1>12, <2>1, <2>2, <2>3
<1>15. ASSUME NEW step \in {"swap", "top", "park", "stopped"}, NEW timed \in BOOLEAN,
              writer.step \in {"delay", "swap", "park", "unwound"},
              WriterIs([writer EXCEPT !.step = step, !.timed = timed]),
              UNCHANGED <<queue, count, stored, trouble>>, Outside
       PROVE  RecorderInv'
  <2> DEFINE w == [writer EXCEPT !.step = step, !.timed = timed]
  <2>1. w \in WriterType /\ w.step = step /\ w.batch = 0 /\ ~WriterAt("drain")
    BY <1>0, <1>15 DEF WriterType, WriterSteps, WriterAt, RecorderInv, BatchFits
  <2>2. WriterIs(w)
    BY <1>15
  <2> HIDE DEF w
  <2> QED BY <1>7, <1>15, <2>1, <2>2
<1>16. \A step : [writer EXCEPT !.step = step] = [writer EXCEPT !.step = step, !.timed = writer.timed]
  BY <1>0 DEF WriterType
<1>17. CASE Delay \/ Swap \/ Park \/ StopQueue
  <2>1. CASE Delay
    <3> DEFINE timed == ~(writer.open /\ count = 0)
    <3>1. timed \in BOOLEAN /\ writer.step = "delay"
      BY <2>1 DEF Delay, WriterAt
    <3>2. /\ WriterIs([writer EXCEPT !.step = "swap", !.timed = timed])
          /\ UNCHANGED <<queue, count, stored, trouble>> /\ Outside
      BY <2>1, SMTT(60) DEF Delay, wake
    <3> HIDE DEF timed
    <3> QED BY <1>15, <3>1, <3>2
  <2>2. CASE Swap \/ Park \/ StopQueue
    <3>1. writer.timed \in BOOLEAN /\ writer.step \in {"swap", "park", "unwound"}
          /\ UNCHANGED <<queue, count, stored, trouble>> /\ Outside
          /\ \E step \in {"top", "park", "stopped"} : WriterIs([writer EXCEPT !.step = step])
      BY <1>0, <2>2 DEF WriterType, Swap, Park, StopQueue, WriterAt
    <3> QED BY <1>15, <1>16, <3>1, ZenonT(60)
  <2> QED BY <1>17, <2>1, <2>2
<1>18. CASE BackoffEnds
  <2> DEFINE w == [writer EXCEPT !.backoff = FALSE]
  <2>1. w \in WriterType /\ w.step = writer.step /\ w.batch = writer.batch
    BY <1>0 DEF WriterType
  <2>2. /\ UNCHANGED <<queue, count, stored, trouble, dropped, emitted, emitter>> /\ writer' = w
    BY <1>18 DEF BackoffEnds, WriterIs, Outside, producers
  <2> HIDE DEF w
  <2>3. RecorderTypeOK' /\ BatchFits' /\ (WriterAt("drain") <=> WriterAt("drain")')
    BY <2>1, <2>2 DEF RecorderInv, RecorderTypeOK, BatchFits, WriterAt, Batch, WriterType
  <2> QED BY <1>0, <2>1, <2>2, <2>3, RecorderFrame
<1> QED
  BY <1>1, <1>3, <1>4, <1>5, <1>6, <1>8, <1>11, <1>13, <1>14, <1>17, <1>18, DrainKeeps, ClearKeeps
  DEF RecorderNext, WriterStep

\* Each observation is stored, waits, or is counted as dropped, though the
\* Recorder goes, appends fail after they have committed, and the writer panics;
\* and without trouble it is exactly one of the three.
THEOREM NothingIsLost == RecorderSpec => [](RecorderTypeOK /\ NothingVanishes)
<1>1. RecorderInv => RecorderTypeOK /\ NothingVanishes
  <2> SUFFICES ASSUME RecorderInv PROVE RecorderTypeOK /\ NothingVanishes
    OBVIOUS
  <2> QED BY TracedIsBoth DEF RecorderInv, Accounted, NothingVanishes
<1> QED BY <1>1, InitRecorderInv, NextRecorderInv, PTL DEF RecorderSpec

-----------------------------------------------------------------------------
(* Power                                                                   *)

\* As long as the owner runs, what others are told is what it has.
TellsTheTruth ==
  /\ PowerTypeOK
  /\ owner \notin {"panicked", "ended"} => (held = TRUE <=> assertion # "none")
  /\ owner = "acquiring" => assertion = "none"

\* Its types without the one bound, and what the steps do to that.
PowerTypes ==
  /\ guard \in [Inference -> {"none", "counted", "serving", "uncounted"}]
  /\ power \in BOOLEAN /\ permit \in BOOLEAN /\ backoff \in BOOLEAN /\ held \in BOOLEAN
  /\ owner \in {"parked", "awake", "serving", "without", "acquiring", "looking",
                "panicked", "ended"}
  /\ assertion \in {"none", "held", "dead"}

LEMMA FailuresBounded ==
  ASSUME failures \in 0..MaxFailures, Fails \/ failures' = failures
  PROVE  failures' \in 0..MaxFailures
  BY FailureAssumption DEF Fails

LEMMA PowerInvariant == PowerSpec => []TellsTheTruth
<1> DEFINE tells == /\ owner \notin {"panicked", "ended"} => (held = TRUE <=> assertion # "none")
                    /\ owner = "acquiring" => assertion = "none"
<1>0. TellsTheTruth <=> PowerTypes /\ failures \in 0..MaxFailures /\ tells
  BY DEF TellsTheTruth, PowerTypeOK, PowerTypes
<1>1. PowerInit => TellsTheTruth
  <2> SUFFICES ASSUME PowerInit PROVE TellsTheTruth
    OBVIOUS
  <2>1. failures \in 0..MaxFailures
    BY FailureAssumption DEF PowerInit
  <2>2. PowerTypes /\ tells
    BY DEF PowerInit, PowerTypes
  <2> QED BY <1>0, <2>1, <2>2
<1>2. TellsTheTruth /\ [PowerNext]_powerVars => TellsTheTruth'
  <2> SUFFICES ASSUME TellsTheTruth, [PowerNext]_powerVars PROVE PowerTypes' /\ tells' /\ (Fails \/ failures' = failures)
    BY <1>0, FailuresBounded DEF TellsTheTruth, PowerTypeOK, PowerTypes
  <2>0. PowerTypes /\ tells
    BY <1>0
  <2> USE <2>0 DEF PowerTypes
  <2>1. CASE UNCHANGED powerVars
    BY <2>1 DEF powerVars
  <2>2. ASSUME NEW i \in Inference, CountIn(i) \/ WakeIn(i) \/ CountOut(i) \/ WakeOut(i)
        PROVE  PowerTypes' /\ tells' /\ failures' = failures
    <3>1. guard' \in [Inference -> {"none", "counted", "serving", "uncounted"}]
      BY <2>2 DEF CountIn, WakeIn, CountOut, WakeOut, GuardIs
    <3>2. permit' \in BOOLEAN /\ UNCHANGED <<power, owner, assertion, backoff, held, failures>>
      BY <2>2 DEF CountIn, WakeIn, CountOut, WakeOut, GuardIs
    <3> QED BY <3>1, <3>2
  <2>3. CASE DropPower \/ HelperExits \/ RetryIsDue
    BY <2>3 DEF DropPower, HelperExits, RetryIsDue
  <2>4. CASE Unpark \/ Expire \/ Idle \/ Busy
    BY <2>4 DEF Unpark, Expire, Idle, Busy, OwnerAt, LetsGo, Releases
  <2>5. CASE Check \/ BeginAcquire
    BY <2>5 DEF Check, BeginAcquire, OwnerAt, Alive, KeepsAll, Releases
  <2>6. CASE Acquired \/ NotAcquired
    BY <2>6 DEF Acquired, NotAcquired, OwnerAt
  <2>7. CASE Look \/ Panic \/ Unavailable
    BY <2>7 DEF Look, Panic, Unavailable, OwnerAt, LastLook, KeepsAll, Releases
  <2> QED BY <2>1, <2>2, <2>3, <2>4, <2>5, <2>6, <2>7 DEF PowerNext, OwnerSteps
<1> QED BY <1>1, <1>2, PTL DEF PowerSpec

\* When the owner parks, status() says of the assertion what is so, whatever
\* failed, exited or was late in between.
THEOREM StatusIsTrue == PowerSpec => [](PowerTypeOK /\ HeldIsTrue)
<1>1. TellsTheTruth => PowerTypeOK /\ HeldIsTrue
  BY DEF TellsTheTruth, HeldIsTrue
<1> QED BY <1>1, PowerInvariant, PTL

\* An assertion acquired late is not kept over a pause that begins when nobody is
\* served any more.
THEOREM NoLateAssertionHolds == PowerSpec => NoLateAssertion
<1>1. [PowerNext]_powerVars =>
        [owner # "parked" /\ owner' = "parked" /\ assertion' # "none" => Active # {}]_powerVars
  <2> SUFFICES ASSUME PowerNext, owner # "parked", owner' = "parked", assertion' # "none"
               PROVE  Active # {}
    OBVIOUS
  <2>1. CASE Idle \/ Look
    BY <2>1 DEF Idle, Look, LetsGo, LastLook, Releases, KeepsAll
  <2>2. CASE \E i \in Inference : CountIn(i) \/ WakeIn(i) \/ CountOut(i) \/ WakeOut(i)
    BY <2>2 DEF CountIn, WakeIn, CountOut, WakeOut
  <2>3. CASE DropPower \/ HelperExits \/ RetryIsDue \/ Panic
    BY <2>3 DEF DropPower, HelperExits, RetryIsDue, Panic
  <2>4. CASE Unpark \/ Expire \/ Busy \/ Check \/ BeginAcquire \/ Acquired \/ NotAcquired \/ Unavailable
    BY <2>4 DEF Unpark, Expire, Busy, Check, BeginAcquire, Acquired, NotAcquired, Unavailable, OwnerAt
  <2> QED BY <2>1, <2>2, <2>3, <2>4 DEF PowerNext, OwnerSteps
<1> QED BY <1>1, PTL DEF PowerSpec, NoLateAssertion

-----------------------------------------------------------------------------
(* Stream: sequences and their ends                                        *)

LEMMA Least ==
  ASSUME NEW T, T \subseteq Nat, T # {}
  PROVE  \E x \in T : \A y \in T : x <= y
<1>1. PICK x \in T : \A y \in T : ~(<<y, x>> \in OpToRel(<, Nat))
  BY NatLessThanWellFounded, WFMin
<1>2. \A y \in T : ~(y < x)
  BY <1>1 DEF OpToRel
<1> QED
  BY <1>2

\* t is the end of s.
EndOf(t, s) ==
  Len(t) <= Len(s) /\ \A i \in 1..Len(t) : t[i] = s[Len(s) - Len(t) + i]

LEMMA Appended ==
  ASSUME NEW s \in Seq(Byte), NEW b \in Byte
  PROVE  /\ Append(s, b) \in Seq(Byte) /\ Len(Append(s, b)) = Len(s) + 1
         /\ \A i \in 1..Len(s) : Append(s, b)[i] = s[i]
         /\ Append(s, b)[Len(s) + 1] = b
OBVIOUS

LEMMA Cut ==
  ASSUME NEW s \in Seq(Byte), NEW m \in 1..(Len(s) + 1), NEW n \in (m - 1)..Len(s)
  PROVE  /\ SubSeq(s, m, n) \in Seq(Byte) /\ Len(SubSeq(s, m, n)) = n - m + 1
         /\ \A i \in 1..(n - m + 1) : SubSeq(s, m, n)[i] = s[m + i - 1]
<1>1. \A i \in m..n : s[i] \in Byte
  BY ElementOfSeq
<1>2. m \in Int /\ n \in Int /\ (~(m <= n) => n - m + 1 = 0)
  OBVIOUS
<1> QED
  BY <1>1, <1>2, SubSeqProperties

LEMMA LastOfFacts ==
  ASSUME NEW s \in Seq(Byte), NEW n \in Nat
  PROVE  /\ LastOf(s, n) \in Seq(Byte) /\ Len(LastOf(s, n)) = IF Len(s) > n THEN n ELSE Len(s)
         /\ EndOf(LastOf(s, n), s)
<1>1. CASE Len(s) > n
  <2>1. /\ Len(s) - n + 1 \in 1..(Len(s) + 1) /\ Len(s) \in (Len(s) - n + 1 - 1)..Len(s)
        /\ Len(s) - (Len(s) - n + 1) + 1 = n
    BY <1>1
  <2>2. LastOf(s, n) = SubSeq(s, Len(s) - n + 1, Len(s))
    BY <1>1 DEF LastOf
  <2>3. /\ LastOf(s, n) \in Seq(Byte) /\ Len(LastOf(s, n)) = n
        /\ \A i \in 1..n : LastOf(s, n)[i] = s[(Len(s) - n + 1) + i - 1]
    BY <2>1, <2>2, Cut
  <2>4. \A i \in 1..n : (Len(s) - n + 1) + i - 1 = Len(s) - n + i
    OBVIOUS
  <2> QED
    BY <1>1, <2>3, <2>4 DEF EndOf
<1>2. CASE ~(Len(s) > n)
  BY <1>2 DEF LastOf, EndOf
<1> QED
  BY <1>1, <1>2

LEMMA Pair ==
  ASSUME NEW s \in Seq(Byte), NEW a, NEW b
  PROVE  s = <<a, b>> <=> Len(s) = 2 /\ s[1] = a /\ s[2] = b
<1> DEFINE S == Byte \cup {a, b}
           t == <<a, b>>
<1>1. s \in Seq(S) /\ t \in Seq(S) /\ Len(t) = 2 /\ t[1] = a /\ t[2] = b
  BY SeqMonotonic
<1> HIDE DEF S, t
<1>2. ASSUME Len(s) = 2, s[1] = a, s[2] = b PROVE s = t
  <2>1. \A i \in 1..Len(s) : s[i] = t[i]
    BY <1>1, <1>2
  <2> QED BY <1>1, <1>2, <2>1, SeqEqual
<1> QED BY <1>1, <1>2 DEF t

LEMMA Four ==
  ASSUME NEW s \in Seq(Byte), NEW a, NEW b, NEW c, NEW d
  PROVE  s = <<a, b, c, d>> <=> Len(s) = 4 /\ s[1] = a /\ s[2] = b /\ s[3] = c /\ s[4] = d
<1> DEFINE S == Byte \cup {a, b, c, d}
           t == <<a, b, c, d>>
<1>1. s \in Seq(S) /\ t \in Seq(S) /\ Len(t) = 4 /\ t[1] = a /\ t[2] = b /\ t[3] = c /\ t[4] = d
  BY SeqMonotonic
<1> HIDE DEF S, t
<1>2. ASSUME Len(s) = 4, s[1] = a, s[2] = b, s[3] = c, s[4] = d PROVE s = t
  <2>1. \A i \in 1..Len(s) : s[i] = t[i]
    BY <1>1, <1>2
  <2> QED BY <1>1, <1>2, <2>1, SeqEqual
<1> QED BY <1>1, <1>2 DEF t

LEMMA Shortened ==
  ASSUME NEW n \in Nat, NEW m \in Nat
  PROVE  (IF n > m THEN m ELSE n) = m <=> n >= m
OBVIOUS

LEMMA Enlarged ==
  ASSUME NEW v, NEW w, NEW x, NEW c, c = [events |-> v, rest |-> w]
  PROVE  [c EXCEPT !.events = @ \cup {x}] = [events |-> v \cup {x}, rest |-> w]
OBVIOUS

\* What makes an end is said by the last four bytes.
LEMMA EndsMeans ==
  ASSUME NEW s \in Seq(Byte)
  PROVE  Ends(s) <=> \/ Len(s) >= 2 /\ s[Len(s) - 1] = "n" /\ s[Len(s)] = "n"
                     \/ /\ Len(s) >= 4
                        /\ s[Len(s) - 3] = "r" /\ s[Len(s) - 2] = "n" /\ s[Len(s) - 1] = "r" /\ s[Len(s)] = "n"
<1> DEFINE u == LastOf(s, 2)
           v == LastOf(s, 4)
<1>1. /\ u \in Seq(Byte) /\ Len(u) = (IF Len(s) > 2 THEN 2 ELSE Len(s))
      /\ \A i \in 1..Len(u) : u[i] = s[Len(s) - Len(u) + i]
  BY LastOfFacts, ZenonT(60) DEF EndOf
<1>2. /\ v \in Seq(Byte) /\ Len(v) = (IF Len(s) > 4 THEN 4 ELSE Len(s))
      /\ \A i \in 1..Len(v) : v[i] = s[Len(s) - Len(v) + i]
  BY LastOfFacts, ZenonT(60) DEF EndOf
<1>0. Len(s) \in Nat
  OBVIOUS
<1> HIDE DEF u, v
<1>3. u = <<"n", "n">> <=> Len(s) >= 2 /\ s[Len(s) - 1] = "n" /\ s[Len(s)] = "n"
  <2>1. u = <<"n", "n">> <=> Len(u) = 2 /\ u[1] = "n" /\ u[2] = "n"
    BY <1>1, Pair
  <2>2. Len(u) = 2 <=> Len(s) >= 2
    <3>1. Len(u) = (IF Len(s) > 2 THEN 2 ELSE Len(s))
      BY <1>1
    <3>2. (IF Len(s) > 2 THEN 2 ELSE Len(s)) = 2 <=> Len(s) >= 2
      BY <1>0, Shortened
    <3> QED BY <3>1, <3>2
  <2>3. Len(u) = 2 => u[1] = s[Len(s) - 1] /\ u[2] = s[Len(s)]
    <3> SUFFICES ASSUME Len(u) = 2 PROVE u[1] = s[Len(s) - 1] /\ u[2] = s[Len(s)]
      OBVIOUS
    <3>1. 1 \in 1..Len(u) /\ 2 \in 1..Len(u) /\ Len(s) - Len(u) + 1 = Len(s) - 1 /\ Len(s) - Len(u) + 2 = Len(s)
      BY <1>0
    <3> QED BY <1>1, <3>1
  <2> QED BY <2>1, <2>2, <2>3
<1>4. v = <<"r", "n", "r", "n">> <=>
        /\ Len(s) >= 4
        /\ s[Len(s) - 3] = "r" /\ s[Len(s) - 2] = "n" /\ s[Len(s) - 1] = "r" /\ s[Len(s)] = "n"
  <2>1. v = <<"r", "n", "r", "n">> <=> Len(v) = 4 /\ v[1] = "r" /\ v[2] = "n" /\ v[3] = "r" /\ v[4] = "n"
    BY <1>2, Four
  <2>2. Len(v) = 4 <=> Len(s) >= 4
    <3>1. Len(v) = (IF Len(s) > 4 THEN 4 ELSE Len(s))
      BY <1>2
    <3>2. (IF Len(s) > 4 THEN 4 ELSE Len(s)) = 4 <=> Len(s) >= 4
      BY <1>0, Shortened
    <3> QED BY <3>1, <3>2
  <2>3. Len(v) = 4 => /\ v[1] = s[Len(s) - 3] /\ v[2] = s[Len(s) - 2]
                      /\ v[3] = s[Len(s) - 1] /\ v[4] = s[Len(s)]
    <3> SUFFICES ASSUME Len(v) = 4 PROVE /\ v[1] = s[Len(s) - 3] /\ v[2] = s[Len(s) - 2]
                                         /\ v[3] = s[Len(s) - 1] /\ v[4] = s[Len(s)]
      OBVIOUS
    <3>1. /\ \A i \in {1, 2, 3, 4} : i \in 1..Len(v)
          /\ Len(s) - Len(v) + 1 = Len(s) - 3 /\ Len(s) - Len(v) + 2 = Len(s) - 2
          /\ Len(s) - Len(v) + 3 = Len(s) - 1 /\ Len(s) - Len(v) + 4 = Len(s)
      BY <1>0
    <3> QED BY <1>2, <3>1
  <2> QED BY <2>1, <2>2, <2>3
<1> QED
  BY <1>3, <1>4 DEF Ends, u, v

LEMMA EndsAlike ==
  ASSUME NEW s \in Seq(Byte), NEW t \in Seq(Byte), EndOf(t, s), Len(t) >= 4
  PROVE  Ends(t) <=> Ends(s)
<1>1. Len(s) >= 4 /\ Len(s) \in Nat /\ Len(t) \in Nat
  BY DEF EndOf
<1>2. /\ t[Len(t)] = s[Len(s)] /\ t[Len(t) - 1] = s[Len(s) - 1]
      /\ t[Len(t) - 2] = s[Len(s) - 2] /\ t[Len(t) - 3] = s[Len(s) - 3]
  BY <1>1, SMTT(60) DEF EndOf
<1> QED
  BY <1>1, <1>2, EndsMeans, SMTT(60)

LEMMA EndAppended ==
  ASSUME NEW s \in Seq(Byte), NEW t \in Seq(Byte), NEW b \in Byte, EndOf(t, s)
  PROVE  EndOf(Append(t, b), Append(s, b))
<1> DEFINE u == Append(t, b)
           v == Append(s, b)
<1>1. /\ Len(u) = Len(t) + 1 /\ Len(v) = Len(s) + 1 /\ Len(t) \in Nat /\ Len(s) \in Nat /\ Len(t) <= Len(s)
      /\ \A i \in 1..Len(t) : u[i] = t[i] /\ t[i] = s[Len(s) - Len(t) + i]
      /\ \A i \in 1..Len(s) : v[i] = s[i]
      /\ u[Len(t) + 1] = b /\ v[Len(s) + 1] = b
  BY Appended DEF EndOf
<1> HIDE DEF u, v
<1>2. ASSUME NEW i \in 1..Len(u) PROVE u[i] = v[Len(v) - Len(u) + i]
  <2>1. CASE i = Len(t) + 1
    BY <1>1, <2>1
  <2>2. CASE i # Len(t) + 1
    <3>1. i \in 1..Len(t) /\ Len(v) - Len(u) + i = Len(s) - Len(t) + i /\ Len(s) - Len(t) + i \in 1..Len(s)
      BY <1>1, <2>2
    <3> QED BY <1>1, <3>1
  <2> QED BY <2>1, <2>2
<1>3. Len(u) <= Len(v)
  BY <1>1
<1> QED BY <1>2, <1>3 DEF EndOf, u, v

LEMMA EndOfEnd ==
  ASSUME NEW r \in Seq(Byte), NEW s \in Seq(Byte), NEW t \in Seq(Byte), EndOf(t, s), EndOf(s, r)
  PROVE  EndOf(t, r)
<1>1. Len(r) \in Nat /\ Len(s) \in Nat /\ Len(t) \in Nat /\ Len(t) <= Len(s) /\ Len(s) <= Len(r)
  BY DEF EndOf
<1>2. ASSUME NEW i \in 1..Len(t) PROVE t[i] = r[Len(r) - Len(t) + i]
  <2>1. /\ Len(s) - Len(t) + i \in 1..Len(s)
        /\ Len(r) - Len(s) + (Len(s) - Len(t) + i) = Len(r) - Len(t) + i
    BY <1>1
  <2> QED BY <2>1 DEF EndOf
<1> QED
  BY <1>1, <1>2 DEF EndOf

-----------------------------------------------------------------------------
(* Stream: the events of any sequence of bytes                             *)

\* Split, for any sequence r and from any place on.
EndIn(r, i) ==
  LET ends == {k \in (i + 1)..Len(r) : Ends(SubSeq(r, i + 1, k))}
  IN IF ends = {} THEN 0 ELSE CHOOSE k \in ends : \A e \in ends : k <= e
CutAt(r, g, i) ==
  IF EndIn(r, i) = 0 THEN [events |-> {}, rest |-> SubSeq(r, i + 1, Len(r))]
  ELSE [g[EndIn(r, i)] EXCEPT !.events = @ \cup {SubSeq(r, i + 1, EndIn(r, i))}]
Cuts(r) == CHOOSE g : g = [i \in 0..Len(r) |-> CutAt(r, g, i)]
Parted == [events : SUBSET Seq(Byte), rest : Seq(Byte)]

LEMMA SplitIsCut == Split = Cuts(reply)[0]
BY DEF Split, Cuts, CutAt, EndIn, EndAfter

LEMMA EndInFacts ==
  ASSUME NEW r \in Seq(Byte), NEW i \in 0..Len(r)
  PROVE  /\ EndIn(r, i) = 0 \/ EndIn(r, i) \in (i + 1)..Len(r)
         /\ EndIn(r, i) = 0 <=> \A k \in (i + 1)..Len(r) : ~Ends(SubSeq(r, i + 1, k))
         /\ EndIn(r, i) # 0 => /\ Ends(SubSeq(r, i + 1, EndIn(r, i)))
                               /\ \A k \in (i + 1)..(EndIn(r, i) - 1) : ~Ends(SubSeq(r, i + 1, k))
<1> DEFINE ends == {k \in (i + 1)..Len(r) : Ends(SubSeq(r, i + 1, k))}
<1>1. ends \subseteq Nat /\ 0 \notin ends
  OBVIOUS
<1>2. CASE ends = {}
  BY <1>2 DEF EndIn
<1>3. CASE ends # {}
  <2>1. \E k \in ends : \A e \in ends : k <= e
    BY <1>1, <1>3, Least
  <2>2. EndIn(r, i) = CHOOSE k \in ends : \A e \in ends : k <= e
    BY <1>3 DEF EndIn
  <2> HIDE DEF ends
  <2>3. EndIn(r, i) \in ends /\ \A e \in ends : EndIn(r, i) <= e
    BY <2>1, <2>2
  <2> USE DEF ends
  <2>4. \A k \in (i + 1)..(EndIn(r, i) - 1) : k \in (i + 1)..Len(r) /\ ~(EndIn(r, i) <= k)
    BY <2>3
  <2> QED
    BY <1>1, <2>3, <2>4
<1> QED
  BY <1>2, <1>3

LEMMA EndInIs ==
  ASSUME NEW r \in Seq(Byte), NEW i \in 0..Len(r), NEW e \in (i + 1)..Len(r),
         Ends(SubSeq(r, i + 1, e)), \A k \in (i + 1)..(e - 1) : ~Ends(SubSeq(r, i + 1, k))
  PROVE  EndIn(r, i) = e
<1>1. EndIn(r, i) # 0
  BY EndInFacts
<1>2. EndIn(r, i) \in (i + 1)..Len(r) /\ ~(EndIn(r, i) < e) /\ ~(e < EndIn(r, i))
  BY <1>1, EndInFacts
<1> QED
  BY <1>2

LEMMA CutAtTyped ==
  ASSUME NEW r \in Seq(Byte), NEW i \in 0..Len(r), NEW g,
         EndIn(r, i) # 0 => g[EndIn(r, i)] \in Parted
  PROVE  CutAt(r, g, i) \in Parted
<1>1. CASE EndIn(r, i) = 0
  <2>1. SubSeq(r, i + 1, Len(r)) \in Seq(Byte)
    BY Cut
  <2> QED BY <1>1, <2>1 DEF CutAt, Parted
<1>2. CASE EndIn(r, i) # 0
  <2>1. SubSeq(r, i + 1, EndIn(r, i)) \in Seq(Byte)
    BY <1>2, EndInFacts, Cut
  <2> QED BY <1>2, <2>1 DEF CutAt, Parted
<1> QED BY <1>1, <1>2

\* There are such cuts: found from the end of r backwards.
LEMMA CutsExist ==
  ASSUME NEW r \in Seq(Byte)
  PROVE  \E g : g = [i \in 0..Len(r) |-> CutAt(r, g, i)]
<1> DEFINE L == Len(r)
           From(d) == \E g \in [(L - d)..L -> Parted] : \A i \in (L - d)..L : g[i] = CutAt(r, g, i)
           T == {d \in 0..L : ~From(d)}
<1>1. L \in Nat
  OBVIOUS
<1>2. From(0)
  <2>1. EndIn(r, L) = 0
    BY <1>1, EndInFacts
  <2> DEFINE g == [i \in L..L |-> CutAt(r, <<>>, L)]
  <2>2. CutAt(r, <<>>, L) \in Parted
    BY <1>1, <2>1, CutAtTyped
  <2>3. g \in [L..L -> Parted]
    BY <2>2
  <2>4. \A i \in L..L : i = L /\ g[i] = CutAt(r, g, i)
    <3>1. CutAt(r, g, L) = CutAt(r, <<>>, L)
      BY <2>1 DEF CutAt
    <3>2. \A i \in L..L : i = L /\ g[i] = CutAt(r, <<>>, L)
      BY <1>1
    <3> HIDE DEF g
    <3> QED BY <3>1, <3>2
  <2>5. L - 0 = L
    BY <1>1
  <2> HIDE DEF g
  <2> QED BY <2>3, <2>4, <2>5
<1>3. ASSUME NEW d \in 1..L, From(d - 1) PROVE From(d)
  <2> DEFINE m == L - d
  <2>1. m \in 0..L /\ m + 1 = L - (d - 1) /\ m + 1 \in 1..L
    BY <1>1
  <2>2. PICK g \in [(m + 1)..L -> Parted] : \A i \in (m + 1)..L : g[i] = CutAt(r, g, i)
    BY <1>3, <2>1
  <2> DEFINE h == [i \in m..L |-> IF i = m THEN CutAt(r, g, m) ELSE g[i]]
  <2>3. \A i \in m..L : i \in 0..L /\ (EndIn(r, i) # 0 => EndIn(r, i) \in (m + 1)..L)
    BY <1>1, <2>1, EndInFacts
  <2>4. CutAt(r, g, m) \in Parted
    BY <2>1, <2>2, <2>3, CutAtTyped
  <2>5. h \in [m..L -> Parted]
    BY <2>1, <2>2, <2>4
  <2>6. \A i \in (m + 1)..L : i \in m..L /\ h[i] = g[i]
    BY <2>1
  <2> HIDE DEF h
  <2>7. \A i \in m..L : CutAt(r, h, i) = CutAt(r, g, i)
    BY <2>3, <2>6 DEF CutAt
  <2>8. h[m] = CutAt(r, g, m) /\ \A i \in m..L : i # m => i \in (m + 1)..L
    BY <2>1 DEF h
  <2>9. \A i \in m..L : h[i] = CutAt(r, h, i)
    BY <2>2, <2>6, <2>7, <2>8
  <2> QED BY <2>5, <2>9
<1> HIDE DEF From
<1>4. T = {}
  <2> SUFFICES ASSUME T # {} PROVE FALSE
    OBVIOUS
  <2>1. T \subseteq Nat
    OBVIOUS
  <2>2. PICK d \in T : \A e \in T : d <= e
    BY <2>1, Least
  <2>3. d # 0 /\ d \in 1..L /\ d - 1 \in 0..L /\ d - 1 \notin T
    BY <1>1, <1>2, <2>2
  <2> QED BY <1>3, <2>2, <2>3
<1>5. From(L)
  BY <1>1, <1>4
<1>6. PICK g \in [0..L -> Parted] : \A i \in 0..L : g[i] = CutAt(r, g, i)
  <2>1. L - L = 0
    BY <1>1
  <2> QED BY <1>5, <2>1 DEF From
<1> QED
  BY <1>6

LEMMA CutsFacts ==
  ASSUME NEW r \in Seq(Byte)
  PROVE  \A i \in 0..Len(r) : Cuts(r)[i] = CutAt(r, Cuts(r), i) /\ Cuts(r)[i] \in Parted
<1>1. Cuts(r) = [i \in 0..Len(r) |-> CutAt(r, Cuts(r), i)]
  BY CutsExist DEF Cuts
<1> DEFINE L == Len(r)
           g == Cuts(r)
           T == {d \in 0..L : g[L - d] \notin Parted}
<1> HIDE DEF g
<1>2. \A i \in 0..L : g[i] = CutAt(r, g, i)
  BY <1>1 DEF g
<1>3. L \in Nat /\ T \subseteq Nat
  OBVIOUS
<1>4. T = {}
  <2> SUFFICES ASSUME T # {} PROVE FALSE
    OBVIOUS
  <2>1. PICK d \in T : \A e \in T : d <= e
    BY <1>3, Least
  <2> DEFINE i == L - d
  <2>2. i \in 0..L /\ d \in 0..L /\ g[i] \notin Parted
    BY <1>3, <2>1
  <2>3. EndIn(r, i) # 0 => EndIn(r, i) \in (i + 1)..L
    BY <2>2, EndInFacts
  <2>4. EndIn(r, i) # 0 => g[EndIn(r, i)] \in Parted
    <3> SUFFICES ASSUME EndIn(r, i) # 0 PROVE g[EndIn(r, i)] \in Parted
      OBVIOUS
    <3> DEFINE e == L - EndIn(r, i)
    <3>1. e \in 0..L /\ e < d /\ L - e = EndIn(r, i)
      BY <1>3, <2>2, <2>3
    <3>2. e \notin T
      BY <2>1, <2>2, <3>1
    <3> QED BY <3>1, <3>2
  <2>5. g[i] = CutAt(r, g, i)
    BY <1>2, <2>2
  <2> HIDE DEF i
  <2> QED BY <2>2, <2>4, <2>5, CutAtTyped
<1>5. ASSUME NEW i \in 0..L PROVE g[i] \in Parted
  <2>1. L - i \in 0..L /\ L - (L - i) = i
    BY <1>3
  <2> QED BY <1>4, <2>1
<1> QED
  BY <1>2, <1>5 DEF g

\* One more byte: it ends an event, or the rest grows.
Grown(c, b) ==
  LET s == Append(c.rest, b)
  IN IF Ends(s) THEN [events |-> c.events \cup {s}, rest |-> <<>>]
     ELSE [events |-> c.events, rest |-> s]

LEMMA CutsGrow ==
  ASSUME NEW r \in Seq(Byte), NEW b \in Byte
  PROVE  \A i \in 0..Len(r) : Cuts(Append(r, b))[i] = Grown(Cuts(r)[i], b)
<1> DEFINE q == Append(r, b)
           L == Len(r)
<1>1. /\ q \in Seq(Byte) /\ Len(q) = L + 1 /\ L \in Nat /\ L + 1 \in 0..Len(q)
      /\ \A i \in 1..L : q[i] = r[i]
      /\ q[L + 1] = b
  BY Appended
<1> HIDE DEF q
<1>2. \A i \in 0..L : \A k \in i..L : SubSeq(q, i + 1, k) = SubSeq(r, i + 1, k)
  <2> SUFFICES ASSUME NEW i \in 0..L, NEW k \in i..L PROVE SubSeq(q, i + 1, k) = SubSeq(r, i + 1, k)
    OBVIOUS
  <2>1. i + 1 \in 1..(L + 1) /\ k \in (i + 1 - 1)..L /\ i + 1 \in 1..(Len(q) + 1) /\ k \in (i + 1 - 1)..Len(q)
    BY <1>1
  <2>2. /\ SubSeq(r, i + 1, k) \in Seq(Byte) /\ Len(SubSeq(r, i + 1, k)) = k - (i + 1) + 1
        /\ \A j \in 1..(k - (i + 1) + 1) : SubSeq(r, i + 1, k)[j] = r[i + 1 + j - 1]
    BY <2>1, Cut
  <2>3. /\ SubSeq(q, i + 1, k) \in Seq(Byte) /\ Len(SubSeq(q, i + 1, k)) = k - (i + 1) + 1
        /\ \A j \in 1..(k - (i + 1) + 1) : SubSeq(q, i + 1, k)[j] = q[i + 1 + j - 1]
    BY <1>1, <2>1, Cut
  <2>4. \A j \in 1..(k - (i + 1) + 1) : i + 1 + j - 1 \in 1..L
    BY <1>1
  <2>5. \A j \in 1..(k - (i + 1) + 1) : SubSeq(q, i + 1, k)[j] = SubSeq(r, i + 1, k)[j]
    BY <1>1, <2>2, <2>3, <2>4
  <2> QED BY <2>2, <2>3, <2>5, SeqEqual
<1>3. \A i \in 0..L : SubSeq(q, i + 1, L + 1) = Append(SubSeq(r, i + 1, L), b)
  <2> SUFFICES ASSUME NEW i \in 0..L PROVE SubSeq(q, i + 1, L + 1) = Append(SubSeq(r, i + 1, L), b)
    OBVIOUS
  <2> DEFINE s == SubSeq(r, i + 1, L)
             t == SubSeq(q, i + 1, L + 1)
             n == L - (i + 1) + 1
  <2>1. /\ i + 1 \in 1..(L + 1) /\ L \in (i + 1 - 1)..L /\ i + 1 \in 1..(Len(q) + 1)
        /\ L + 1 \in (i + 1 - 1)..Len(q) /\ L + 1 - (i + 1) + 1 = n + 1 /\ n \in Nat
    BY <1>1
  <2>2. s \in Seq(Byte) /\ Len(s) = n /\ \A j \in 1..n : s[j] = r[i + 1 + j - 1]
    BY <2>1, Cut
  <2>3. t \in Seq(Byte) /\ Len(t) = n + 1 /\ \A j \in 1..(n + 1) : t[j] = q[i + 1 + j - 1]
    BY <1>1, <2>1, Cut
  <2> HIDE DEF s, t
  <2>4. /\ Append(s, b) \in Seq(Byte) /\ Len(Append(s, b)) = n + 1
        /\ (\A j \in 1..n : Append(s, b)[j] = s[j]) /\ Append(s, b)[n + 1] = b
    BY <2>2, Appended
  <2>5. ASSUME NEW j \in 1..(n + 1) PROVE t[j] = Append(s, b)[j]
    <3>1. CASE j = n + 1
      <4>1. i + 1 + j - 1 = L + 1
        BY <1>1, <3>1
      <4> QED BY <1>1, <2>3, <2>4, <3>1, <4>1
    <3>2. CASE j # n + 1
      <4>1. j \in 1..n /\ i + 1 + j - 1 \in 1..L
        BY <1>1, <2>1, <3>2
      <4>2. t[j] = q[i + 1 + j - 1]
        BY <2>3
      <4>3. s[j] = r[i + 1 + j - 1] /\ Append(s, b)[j] = s[j]
        BY <2>2, <2>4, <4>1
      <4>4. q[i + 1 + j - 1] = r[i + 1 + j - 1]
        BY <1>1, <4>1
      <4> QED BY <4>2, <4>3, <4>4
    <3> QED BY <3>1, <3>2
  <2>6. t = Append(s, b)
    BY <2>3, <2>4, <2>5, SeqEqual
  <2> QED BY <2>6 DEF s, t
<1>4. \A i \in 0..L : EndIn(r, i) # 0 => EndIn(r, i) \in (i + 1)..L /\ EndIn(q, i) = EndIn(r, i)
  <2> SUFFICES ASSUME NEW i \in 0..L, EndIn(r, i) # 0
               PROVE  EndIn(r, i) \in (i + 1)..L /\ EndIn(q, i) = EndIn(r, i)
    OBVIOUS
  <2>1. /\ EndIn(r, i) \in (i + 1)..L /\ Ends(SubSeq(r, i + 1, EndIn(r, i)))
        /\ \A k \in (i + 1)..(EndIn(r, i) - 1) : ~Ends(SubSeq(r, i + 1, k))
    BY EndInFacts
  <2>2. /\ EndIn(r, i) \in i..L /\ EndIn(r, i) \in (i + 1)..Len(q) /\ i \in 0..Len(q)
        /\ \A k \in (i + 1)..(EndIn(r, i) - 1) : k \in i..L
    BY <1>1, <2>1
  <2>3. /\ Ends(SubSeq(q, i + 1, EndIn(r, i)))
        /\ \A k \in (i + 1)..(EndIn(r, i) - 1) : ~Ends(SubSeq(q, i + 1, k))
    BY <1>2, <2>1, <2>2
  <2> QED BY <1>1, <2>1, <2>2, <2>3, EndInIs
<1>5. \A i \in 0..L : EndIn(r, i) = 0 =>
        EndIn(q, i) = IF Ends(SubSeq(q, i + 1, L + 1)) THEN L + 1 ELSE 0
  <2> SUFFICES ASSUME NEW i \in 0..L, EndIn(r, i) = 0
               PROVE  EndIn(q, i) = IF Ends(SubSeq(q, i + 1, L + 1)) THEN L + 1 ELSE 0
    OBVIOUS
  <2>1. \A k \in (i + 1)..L : ~Ends(SubSeq(r, i + 1, k))
    BY EndInFacts
  <2>2. \A k \in (i + 1)..L : k \in i..L
    BY <1>1
  <2>3. \A k \in (i + 1)..L : ~Ends(SubSeq(q, i + 1, k))
    BY <1>2, <2>1, <2>2
  <2>4. /\ i \in 0..Len(q) /\ L + 1 \in (i + 1)..Len(q) /\ (L + 1) - 1 = L
        /\ \A k \in (i + 1)..Len(q) : k = L + 1 \/ k \in (i + 1)..L
    BY <1>1
  <2>5. CASE Ends(SubSeq(q, i + 1, L + 1))
    BY <1>1, <2>3, <2>4, <2>5, EndInIs
  <2>6. CASE ~Ends(SubSeq(q, i + 1, L + 1))
    BY <1>1, <2>3, <2>4, <2>6, EndInFacts
  <2> QED BY <2>5, <2>6
<1>6. Cuts(q)[L + 1] = [events |-> {}, rest |-> <<>>]
  <2>1. EndIn(q, L + 1) = 0
    BY <1>1, EndInFacts
  <2>2. SubSeq(q, L + 1 + 1, L + 1) = <<>>
    BY <1>1, SubSeqEmpty
  <2>3. Cuts(q)[L + 1] = CutAt(q, Cuts(q), L + 1)
    BY <1>1, CutsFacts
  <2>4. Len(q) = L + 1
    BY <1>1
  <2> QED BY <2>1, <2>2, <2>3, <2>4 DEF CutAt
<1>7. ASSUME NEW i \in 0..L,
             EndIn(r, i) # 0 => Cuts(q)[EndIn(r, i)] = Grown(Cuts(r)[EndIn(r, i)], b)
      PROVE  Cuts(q)[i] = Grown(Cuts(r)[i], b)
  <2>1. Cuts(q)[i] = CutAt(q, Cuts(q), i) /\ Cuts(r)[i] = CutAt(r, Cuts(r), i)
    BY <1>1, CutsFacts
  <2>2. CASE EndIn(r, i) # 0
    <3> DEFINE e == EndIn(r, i)
               x == SubSeq(r, i + 1, e)
               c == Cuts(r)[e]
    <3>1. e \in (i + 1)..L /\ EndIn(q, i) = e
      BY <1>4, <2>2
    <3>2. SubSeq(q, i + 1, e) = x /\ c \in Parted
      BY <1>1, <1>2, <3>1, CutsFacts
    <3>3. Cuts(q)[i] = [Grown(c, b) EXCEPT !.events = @ \cup {x}]
      BY <1>7, <2>1, <2>2, <3>1, <3>2 DEF CutAt
    <3>4. Cuts(r)[i] = [c EXCEPT !.events = @ \cup {x}]
      BY <2>1, <2>2 DEF CutAt
    <3> HIDE DEF e, x, c
    <3> DEFINE g == Grown(c, b)
    <3>5. [g EXCEPT !.events = @ \cup {x}] = Grown([c EXCEPT !.events = @ \cup {x}], b)
      <4>1. PICK v \in SUBSET Seq(Byte), w \in Seq(Byte) : c = [events |-> v, rest |-> w]
        BY <3>2 DEF Parted
      <4>2. [c EXCEPT !.events = @ \cup {x}] = [events |-> v \cup {x}, rest |-> w]
        BY <4>1, Enlarged, ZenonT(60)
      <4>3. CASE Ends(Append(w, b))
        <5>1. g = [events |-> v \cup {Append(w, b)}, rest |-> <<>>]
          BY <4>1, <4>3 DEF Grown
        <5>2. Grown([events |-> v \cup {x}, rest |-> w], b) = [events |-> (v \cup {x}) \cup {Append(w, b)}, rest |-> <<>>]
          BY <4>3 DEF Grown
        <5>3. (v \cup {x}) \cup {Append(w, b)} = (v \cup {Append(w, b)}) \cup {x}
          OBVIOUS
        <5>4. [g EXCEPT !.events = @ \cup {x}] = [events |-> (v \cup {Append(w, b)}) \cup {x}, rest |-> <<>>]
          <6> HIDE DEF g
          <6> QED BY <5>1, Enlarged, ZenonT(60)
        <5> HIDE DEF g
        <5> QED BY <4>2, <5>2, <5>3, <5>4
      <4>4. CASE ~Ends(Append(w, b))
        <5>1. g = [events |-> v, rest |-> Append(w, b)]
          BY <4>1, <4>4 DEF Grown
        <5>2. Grown([events |-> v \cup {x}, rest |-> w], b) = [events |-> v \cup {x}, rest |-> Append(w, b)]
          BY <4>4 DEF Grown
        <5>3. [g EXCEPT !.events = @ \cup {x}] = [events |-> v \cup {x}, rest |-> Append(w, b)]
          <6> HIDE DEF g
          <6> QED BY <5>1, Enlarged, ZenonT(60)
        <5> HIDE DEF g
        <5> QED BY <4>2, <5>2, <5>3, ZenonT(60)
      <4> QED BY <4>3, <4>4
    <3> QED BY <3>3, <3>4, <3>5
  <2>3. CASE EndIn(r, i) = 0
    <3> DEFINE s == SubSeq(q, i + 1, L + 1)
    <3>1. Cuts(r)[i] = [events |-> {}, rest |-> SubSeq(r, i + 1, L)] /\ s = Append(SubSeq(r, i + 1, L), b)
      BY <1>3, <2>1, <2>3 DEF CutAt
    <3>2. CASE Ends(s)
      <4>1. EndIn(q, i) = L + 1 /\ L + 1 # 0
        BY <1>1, <1>5, <2>3, <3>2
      <4>2. Cuts(q)[i] = [events |-> {} \cup {s}, rest |-> <<>>]
        <5> DEFINE h == Cuts(q)[L + 1]
        <5>1. Cuts(q)[i] = [h EXCEPT !.events = @ \cup {s}]
          BY <2>1, <4>1 DEF CutAt
        <5>2. h = [events |-> {}, rest |-> <<>>]
          BY <1>6
        <5> HIDE DEF s, h
        <5>3. [h EXCEPT !.events = @ \cup {s}] = [events |-> {} \cup {s}, rest |-> <<>>]
          BY <5>2, Enlarged
        <5> QED BY <5>1, <5>3
      <4> HIDE DEF s
      <4> QED BY <3>1, <3>2, <4>2 DEF Grown
    <3>3. CASE ~Ends(s)
      <4>1. EndIn(q, i) = 0
        BY <1>1, <1>5, <2>3, <3>3
      <4>2. Cuts(q)[i] = [events |-> {}, rest |-> s]
        BY <1>1, <2>1, <4>1 DEF CutAt
      <4> HIDE DEF s
      <4> QED BY <3>1, <3>3, <4>2 DEF Grown
    <3> QED BY <3>2, <3>3
  <2> QED BY <2>2, <2>3
<1> DEFINE Good(i) == Cuts(q)[i] = Grown(Cuts(r)[i], b)
           T == {d \in 0..L : ~Good(L - d)}
<1>8. T = {}
  <2> SUFFICES ASSUME T # {} PROVE FALSE
    OBVIOUS
  <2> HIDE DEF Good
  <2>0. T \subseteq Nat
    OBVIOUS
  <2>1. PICK d \in T : \A e \in T : d <= e
    BY <2>0, Least
  <2> DEFINE i == L - d
  <2>2. i \in 0..L /\ d \in 0..L /\ ~Good(i)
    BY <1>1, <2>1
  <2>3. EndIn(r, i) # 0 => Good(EndIn(r, i))
    <3> SUFFICES ASSUME EndIn(r, i) # 0 PROVE Good(EndIn(r, i))
      OBVIOUS
    <3> DEFINE e == L - EndIn(r, i)
    <3>1. EndIn(r, i) \in (i + 1)..L
      BY <1>4, <2>2
    <3>2. e \in 0..L /\ e < d /\ L - e = EndIn(r, i)
      BY <1>1, <2>2, <3>1
    <3>3. e \notin T
      BY <2>1, <2>2, <3>2
    <3> QED BY <3>2, <3>3
  <2> HIDE DEF i
  <2> QED BY <1>7, <2>2, <2>3 DEF Good
<1>9. ASSUME NEW i \in 0..L PROVE Good(i)
  <2>1. L - i \in 0..L /\ L - (L - i) = i
    BY <1>1
  <2> HIDE DEF Good
  <2> QED BY <1>8, <2>1
<1> QED
  BY <1>9 DEF q

-----------------------------------------------------------------------------
(* Stream: the invariant                                                   *)

Frames == Cuts(reply)[0].events
Rest == Cuts(reply)[0].rest

\* What is kept of the event that is being read.
BufferFits ==
  /\ discard = FALSE => buffer = Rest /\ Len(Rest) <= BufferLimit
  /\ discard = TRUE => Len(Rest) > BufferLimit /\ Len(buffer) >= 3 /\ EndOf(buffer, Rest)

\* What has been heard is what the events say.
HeardAll ==
  /\ failed = TRUE <=> \E e \in Frames : Says(e, "f")
  /\ terminal = TRUE <=> \E e \in Frames : Says(e, "t") \/ Says(e, "f")
  /\ observed = TRUE <=> \E e \in Frames : ~TooLarge(e) /\ Len(Content(e)) = 1
  /\ uncertain = TRUE <=> discard = TRUE \/ \E e \in Frames : TooLarge(e) \/ Len(Content(e)) > 1

StreamInv ==
  /\ StreamTypeOK
  /\ reason = "none" => BufferFits /\ HeardAll
  /\ OutcomeIsTrue

LEMMA RestTyped ==
  ASSUME StreamTypeOK
  PROVE  Frames \in SUBSET Seq(Byte) /\ Rest \in Seq(Byte) /\ Cuts(reply)[0] = [events |-> Frames, rest |-> Rest]
<1>1. 0 \in 0..Len(reply) /\ reply \in Seq(Byte)
  BY DEF StreamTypeOK
<1>2. Cuts(reply)[0] \in Parted
  BY <1>1, CutsFacts
<1> QED
  BY <1>2 DEF Parted, Frames, Rest

LEMMA Arrives ==
  ASSUME StreamTypeOK, NEW b \in Byte, reply' = Append(reply, b)
  PROVE  IF Ends(Append(Rest, b)) THEN Frames' = Frames \cup {Append(Rest, b)} /\ Rest' = <<>>
         ELSE Frames' = Frames /\ Rest' = Append(Rest, b)
<1>1. 0 \in 0..Len(reply) /\ reply \in Seq(Byte)
  BY DEF StreamTypeOK
<1>2. Cuts(reply')[0] = Grown([events |-> Frames, rest |-> Rest], b)
  BY <1>1, CutsGrow, RestTyped
<1>3. Frames' = Cuts(reply')[0].events /\ Rest' = Cuts(reply')[0].rest
  BY DEF Frames, Rest
<1> HIDE DEF Frames, Rest
<1> QED
  BY <1>2, <1>3 DEF Grown

LEMMA InitStream == StreamInit => StreamInv
<1> SUFFICES ASSUME StreamInit PROVE StreamInv
  OBVIOUS
<1>1. StreamTypeOK
  <2>1. <<>> \in Seq(Byte)
    BY EmptySeq
  <2> QED BY <2>1 DEF StreamInit, StreamTypeOK
<1>2. reply = <<>> /\ Len(reply) = 0 /\ reply \in Seq(Byte) /\ 0 \in 0..Len(reply)
  BY EmptySeq DEF StreamInit
<1>3. EndIn(reply, 0) = 0
  <2>1. \A k \in (0 + 1)..Len(reply) : FALSE
    BY <1>2
  <2> QED BY <1>2, <2>1, EndInFacts
<1>4. SubSeq(reply, 0 + 1, Len(reply)) = <<>>
  BY <1>2, SubSeqEmpty
<1>5. Cuts(reply)[0] = [events |-> {}, rest |-> <<>>]
  <2>1. Cuts(reply)[0] = CutAt(reply, Cuts(reply), 0)
    BY <1>2, CutsFacts
  <2> QED BY <1>3, <1>4, <2>1 DEF CutAt
<1>6. Frames = {} /\ Rest = <<>>
  BY <1>5 DEF Frames, Rest
<1>7. BufferFits
  <2>1. Len(<<>>) <= BufferLimit
    BY StreamAssumption, EmptySeq
  <2> QED BY <1>6, <2>1 DEF StreamInit, BufferFits
<1>8. HeardAll
  BY <1>6 DEF StreamInit, HeardAll
<1>9. OutcomeIsTrue
  BY DEF StreamInit, OutcomeIsTrue
<1> QED
  BY <1>1, <1>7, <1>8, <1>9 DEF StreamInv

LEMMA Skips ==
  ASSUME StreamInv, NEW b \in Byte, reason = "none", reply' = Append(reply, b), Skip1(b)
  PROVE  buffer' \in Seq(Byte) /\ discard' \in BOOLEAN /\ BufferFits' /\ HeardAll'
<1> DEFINE s == Append(Rest, b)
           u == Append(buffer, b)
           tail == LastOf(u, 4)
<1>1. /\ StreamTypeOK /\ discard = TRUE /\ buffer \in Seq(Byte) /\ Rest \in Seq(Byte)
      /\ Len(Rest) > BufferLimit /\ Len(buffer) >= 3 /\ EndOf(buffer, Rest) /\ HeardAll
  BY RestTyped DEF StreamInv, StreamTypeOK, BufferFits, Skip1
<1>2. s \in Seq(Byte) /\ u \in Seq(Byte) /\ Len(s) = Len(Rest) + 1 /\ Len(u) = Len(buffer) + 1 /\ EndOf(u, s)
  BY <1>1, Appended, EndAppended
<1>3. tail \in Seq(Byte) /\ Len(tail) = 4 /\ EndOf(tail, u)
  <2>1. Len(u) >= 4 /\ Len(u) \in Nat
    BY <1>1, <1>2
  <2>2. 4 \in Nat
    OBVIOUS
  <2>3. tail \in Seq(Byte) /\ Len(tail) = (IF Len(u) > 4 THEN 4 ELSE Len(u)) /\ EndOf(tail, u)
    BY <1>2, <2>2, LastOfFacts
  <2> HIDE DEF u, tail
  <2>4. (IF Len(u) > 4 THEN 4 ELSE Len(u)) = 4
    BY <2>1, <2>2, Shortened
  <2> QED BY <2>3, <2>4
<1>4. EndOf(tail, s)
  BY <1>2, <1>3, EndOfEnd
<1>5. Ends(tail) <=> Ends(s)
  <2>1. Len(tail) >= 4
    <3> HIDE DEF tail
    <3> QED BY <1>3
  <2> HIDE DEF tail, s
  <2> QED BY <1>2, <1>3, <1>4, <2>1, EndsAlike
<1>6. IF Ends(s) THEN Frames' = Frames \cup {s} /\ Rest' = <<>>
      ELSE Frames' = Frames /\ Rest' = s
  BY <1>1, Arrives
<1>7. TooLarge(s) /\ Len(s) > BufferLimit /\ Len(<<>>) <= BufferLimit
  <2>1. Len(Rest) \in Nat /\ BufferLimit \in Nat /\ Len(<<>>) = 0
    BY <1>1, StreamAssumption
  <2> QED BY <1>1, <1>2, <2>1 DEF TooLarge
<1>8. /\ UNCHANGED <<terminal, failed, observed, uncertain>>
      /\ IF Ends(tail) THEN discard' = FALSE /\ buffer' = <<>> ELSE buffer' = tail /\ discard' = TRUE
  BY <1>1 DEF Skip1, Unjudged
<1> HIDE DEF s, u, tail
<1>9. BufferFits' /\ buffer' \in Seq(Byte) /\ discard' \in BOOLEAN
  <2>1. CASE Ends(s)
    <3>1. discard' = FALSE /\ buffer' = <<>> /\ Rest' = <<>>
      BY <1>5, <1>6, <1>8, <2>1
    <3>2. <<>> \in Seq(Byte)
      BY EmptySeq
    <3> QED BY <1>7, <3>1, <3>2 DEF BufferFits
  <2>2. CASE ~Ends(s)
    <3>1. discard' = TRUE /\ buffer' = tail /\ Rest' = s
      BY <1>5, <1>6, <1>8, <2>2
    <3>2. Len(tail) >= 3
      BY <1>3
    <3> QED BY <1>3, <1>4, <1>7, <3>1, <3>2 DEF BufferFits
  <2> QED BY <2>1, <2>2
<1>10. HeardAll'
  <2>1. uncertain = TRUE
    BY <1>1 DEF HeardAll
  <2>2. CASE Ends(s)
    <3>1. Frames' = Frames \cup {s} /\ discard' = FALSE
      BY <1>5, <1>6, <1>8, <2>2
    <3> QED BY <1>1, <1>7, <1>8, <2>1, <3>1 DEF HeardAll, Says
  <2>3. CASE ~Ends(s)
    <3>1. Frames' = Frames /\ discard' = TRUE
      BY <1>5, <1>6, <1>8, <2>3
    <3> QED BY <1>1, <1>8, <2>1, <3>1 DEF HeardAll
  <2> QED BY <2>2, <2>3
<1> QED BY <1>9, <1>10

LEMMA Reads ==
  ASSUME StreamInv, NEW b \in Byte, reason = "none", reply' = Append(reply, b), Read1(b)
  PROVE  /\ buffer' \in Seq(Byte) /\ {discard', terminal', failed', uncertain', observed'} \subseteq BOOLEAN
         /\ BufferFits' /\ HeardAll'
<1> DEFINE s == Append(Rest, b)
<1>1. /\ StreamTypeOK /\ discard = FALSE /\ buffer = Rest /\ Rest \in Seq(Byte)
      /\ Len(Rest) <= BufferLimit /\ HeardAll
  BY RestTyped DEF StreamInv, StreamTypeOK, BufferFits, Read1
<1>2. s \in Seq(Byte) /\ Len(s) = Len(Rest) + 1 /\ Len(Rest) \in Nat /\ BufferLimit \in Nat /\ BufferLimit >= 4
      /\ Len(<<>>) = 0
  BY <1>1, Appended, StreamAssumption
<1>3. IF Ends(s) THEN Frames' = Frames \cup {s} /\ Rest' = <<>>
      ELSE Frames' = Frames /\ Rest' = s
  BY <1>1, Arrives
<1>4. ~TooLarge(s)
  BY <1>1, <1>2 DEF TooLarge
<1>5. {discard, terminal, failed, uncertain, observed} \subseteq BOOLEAN
  BY <1>1 DEF StreamTypeOK
<1>6. \/ Ends(s) /\ buffer' = <<>> /\ Heard(s) /\ discard' = discard
      \/ /\ ~Ends(s) /\ Len(s) > BufferLimit /\ buffer' = KeepTail(s)
         /\ discard' = TRUE /\ uncertain' = TRUE /\ UNCHANGED <<terminal, failed, observed>>
      \/ /\ ~Ends(s) /\ Len(s) <= BufferLimit /\ buffer' = s
         /\ UNCHANGED <<uncertain, discard, terminal, failed, observed>>
  BY <1>1 DEF Read1, Unjudged
<1> HIDE DEF s
<1>7. CASE Ends(s) /\ buffer' = <<>> /\ Heard(s) /\ discard' = discard
  <2>1. Frames' = Frames \cup {s} /\ Rest' = <<>>
    BY <1>3, <1>7
  <2>2. BufferFits' /\ buffer' \in Seq(Byte) /\ discard' = FALSE
    BY <1>1, <1>2, <1>7, <2>1 DEF BufferFits
  <2>3. /\ terminal' = (terminal \/ Content(s) = <<"t">> \/ Content(s) = <<"f">>)
        /\ failed' = (failed \/ Content(s) = <<"f">>)
        /\ observed' = (observed \/ Len(Content(s)) = 1)
        /\ uncertain' = (uncertain \/ Len(Content(s)) > 1)
    BY <1>7 DEF Heard
  <2>4. failed' = TRUE <=> \E e \in Frames' : Says(e, "f")
    BY <1>1, <1>4, <1>5, <2>1, <2>3 DEF HeardAll, Says
  <2>5. terminal' = TRUE <=> \E e \in Frames' : Says(e, "t") \/ Says(e, "f")
    BY <1>1, <1>4, <1>5, <2>1, <2>3 DEF HeardAll, Says
  <2>6. observed' = TRUE <=> \E e \in Frames' : ~TooLarge(e) /\ Len(Content(e)) = 1
    BY <1>1, <1>4, <1>5, <2>1, <2>3 DEF HeardAll
  <2>7. uncertain' = TRUE <=> discard' = TRUE \/ \E e \in Frames' : TooLarge(e) \/ Len(Content(e)) > 1
    BY <1>1, <1>4, <1>5, <2>1, <2>2, <2>3 DEF HeardAll
  <2>8. {discard', terminal', failed', uncertain', observed'} \subseteq BOOLEAN
    BY <1>5, <2>2, <2>3
  <2> QED BY <2>2, <2>4, <2>5, <2>6, <2>7, <2>8 DEF HeardAll
<1>8. CASE /\ ~Ends(s) /\ Len(s) > BufferLimit /\ buffer' = KeepTail(s)
           /\ discard' = TRUE /\ uncertain' = TRUE /\ UNCHANGED <<terminal, failed, observed>>
  <2>1. Frames' = Frames /\ Rest' = s
    BY <1>3, <1>8
  <2>2. KeepTail(s) \in Seq(Byte) /\ Len(KeepTail(s)) = 3 /\ EndOf(KeepTail(s), s)
    <3>1. 3 \in Nat /\ Len(s) > 3
      BY <1>2, <1>8
    <3> QED BY <1>2, <3>1, LastOfFacts DEF KeepTail
  <2>3. BufferFits'
    BY <1>8, <2>1, <2>2 DEF BufferFits
  <2>4. HeardAll'
    BY <1>1, <1>8, <2>1 DEF HeardAll
  <2> QED BY <1>5, <1>8, <2>2, <2>3, <2>4
<1>9. CASE /\ ~Ends(s) /\ Len(s) <= BufferLimit /\ buffer' = s
           /\ UNCHANGED <<uncertain, discard, terminal, failed, observed>>
  <2>1. Frames' = Frames /\ Rest' = s
    BY <1>3, <1>9
  <2>2. BufferFits'
    BY <1>1, <1>9, <2>1 DEF BufferFits
  <2>3. HeardAll'
    BY <1>1, <1>9, <2>1 DEF HeardAll
  <2> QED BY <1>2, <1>5, <1>9, <2>2, <2>3
<1> QED BY <1>6, <1>7, <1>8, <1>9

LEMMA Finishes ==
  ASSUME StreamInv, Finish1
  PROVE  StreamInv'
<1>1. StreamTypeOK /\ BufferFits /\ HeardAll /\ reason = "none" /\ BufferLimit \in Nat /\ Rest \in Seq(Byte)
  BY RestTyped, StreamAssumption DEF StreamInv, Finish1
<1>2. {discard, terminal, failed, uncertain, observed} \subseteq BOOLEAN
  BY <1>1 DEF StreamTypeOK
<1>3. reply' = reply /\ Split' = Split /\ Split.events = Frames /\ Split.rest = Rest
  <2>1. reply' = reply
    BY DEF Finish1
  <2>2. (Split = Cuts(reply)[0])'
    BY SplitIsCut, PTL
  <2>3. (Cuts(reply)[0])' = Cuts(reply)[0]
    BY <2>1
  <2>4. Split' = Split
    BY <2>2, <2>3, SplitIsCut
  <2> QED BY <2>1, <2>4, SplitIsCut DEF Frames, Rest
<1>4. reason' = Judged /\ reason' \in {"error", "uncertain", "completed", "missing"}
  BY DEF Finish1, Judged
<1>5. StreamTypeOK'
  <2>1. uncertain' \in BOOLEAN
    BY DEF Finish1
  <2> QED BY <1>1, <1>3, <1>4, <2>1 DEF StreamTypeOK, Finish1, Unjudged
<1> DEFINE is(b) == \E event \in Frames : Says(event, b)
           lost == \/ \E event \in Frames : TooLarge(event) \/ Len(Content(event)) > 1
                   \/ Content(Rest) # <<>> \/ Len(Rest) > BufferLimit
<1>6. uncertain = TRUE \/ Unfinished <=> lost
  <2>1. discard = TRUE <=> Len(Rest) > BufferLimit
    BY <1>1, <1>2 DEF BufferFits
  <2>2. discard = FALSE => buffer = Rest
    BY <1>1 DEF BufferFits
  <2> QED BY <1>1, <1>2, <2>1, <2>2 DEF HeardAll, Unfinished
<1>7. (failed = TRUE <=> is("f")) /\ (terminal = TRUE <=> is("t") \/ is("f")) /\ (observed = TRUE => Frames # {})
  BY <1>1 DEF HeardAll
<1> HIDE DEF is, lost
<1>8. Judged = IF is("f") THEN "error" ELSE IF lost THEN "uncertain"
               ELSE IF is("t") THEN "completed" ELSE IF observed = TRUE THEN "missing" ELSE "uncertain"
  BY <1>2, <1>6, <1>7 DEF Judged
<1>9. /\ reason' = "error" <=> is("f")
      /\ reason' = "completed" => is("t") /\ ~lost
      /\ is("t") /\ ~is("f") /\ ~lost => reason' = "completed"
      /\ reason' = "missing" => Frames # {} /\ ~lost /\ ~is("t")
  BY <1>4, <1>7, <1>8
<1>10. OutcomeIsTrue'
  BY <1>3, <1>9 DEF OutcomeIsTrue, is, lost
<1> QED BY <1>4, <1>5, <1>10 DEF StreamInv

LEMMA StreamSteps == StreamInv /\ [StreamNext]_streamVars => StreamInv'
<1>1. ASSUME StreamInv, NEW b \in Byte, Arrive(b) PROVE StreamInv'
  <2>1. reason = "none" /\ reason' = "none" /\ reply' = Append(reply, b) /\ (Skip1(b) \/ Read1(b))
    BY <1>1 DEF Arrive
  <2>2. StreamTypeOK /\ reply' \in Seq(Byte)
    BY <1>1, <2>1, Appended DEF StreamInv, StreamTypeOK
  <2>3. /\ buffer' \in Seq(Byte) /\ {discard', terminal', failed', uncertain', observed'} \subseteq BOOLEAN
        /\ BufferFits' /\ HeardAll'
    <3>1. CASE Skip1(b)
      <4>1. buffer' \in Seq(Byte) /\ discard' \in BOOLEAN /\ BufferFits' /\ HeardAll'
        BY <1>1, <2>1, <3>1, Skips
      <4>2. UNCHANGED <<terminal, failed, observed, uncertain>>
        BY <3>1 DEF Skip1, Unjudged
      <4> QED BY <2>2, <4>1, <4>2 DEF StreamTypeOK
    <3>2. CASE Read1(b)
      BY <1>1, <2>1, <3>2, Reads
    <3> QED BY <2>1, <3>1, <3>2
  <2>4. OutcomeIsTrue'
    BY <2>1 DEF OutcomeIsTrue
  <2> QED BY <2>1, <2>2, <2>3, <2>4 DEF StreamInv, StreamTypeOK
<1>2. ASSUME StreamInv, UNCHANGED streamVars PROVE StreamInv'
  <2>1. UNCHANGED <<reply, buffer, discard, terminal, failed, uncertain, observed, reason>>
    BY <1>2 DEF streamVars, metrics
  <2>2. Frames' = Frames /\ Rest' = Rest /\ Split' = Split
    BY <2>1 DEF Frames, Rest, Split, EndAfter
  <2>3. StreamTypeOK'
    BY <1>2, <2>1 DEF StreamInv, StreamTypeOK
  <2>4. reason = "none" => BufferFits' /\ HeardAll'
    BY <1>2, <2>1, <2>2 DEF StreamInv, BufferFits, HeardAll
  <2>5. OutcomeIsTrue'
    BY <1>2, <2>1, <2>2 DEF StreamInv, OutcomeIsTrue
  <2> QED BY <2>1, <2>3, <2>4, <2>5 DEF StreamInv
<1> QED
  BY <1>1, <1>2, Finishes DEF StreamNext

\* However the reply arrives, is cut up and is skipped in parts, the outcome
\* recorded at its end is that of the events of the whole (StreamMetrics).
THEOREM OutcomeHolds == StreamSpec => [](StreamTypeOK /\ OutcomeIsTrue)
<1>1. StreamInv => StreamTypeOK /\ OutcomeIsTrue
  BY DEF StreamInv
<1> QED
  BY <1>1, InitStream, StreamSteps, PTL DEF StreamSpec
-----------------------------------------------------------------------------
(* Admission                                                               *)

(* The inductive invariant: the types, the two fences apart, idleness of   *)
(* whoever fenced for good, and the promise of a waiting lease.            *)
AdmissionInv == TypeOK /\ FencedIsIdle /\ OneFence /\ WithinDeadline

LEMMA LesserBound ==
  ASSUME NEW a \in Nat, NEW b \in Nat
  PROVE  Lesser(a, b) \in Nat /\ Lesser(a, b) <= a /\ Lesser(a, b) <= b
  BY DEF Lesser

LEMMA InitAdmission == Init => AdmissionInv
<1> SUFFICES ASSUME Init PROVE AdmissionInv
  OBVIOUS
<1>1. epoch \in 0..MaxEpoch /\ inference \in 0..Slots
  BY LimitsAssumption DEF Init
<1>2. legacy \in BOOLEAN /\ lease \in Lease \union {NoLease}
  BY DEF Init
<1>3. FencedIsIdle /\ OneFence
  BY DEF Init, FencedIsIdle, OneFence, Committed
<1>4. WithinDeadline
  BY DEF Init, WithinDeadline
<1> QED BY <1>1, <1>2, <1>3, <1>4 DEF AdmissionInv, TypeOK

LEMMA CurrentTyped ==
  ASSUME AdmissionInv
  PROVE  /\ Current \in Lease \union {NoLease}
         /\ Current # NoLease => Current = lease
  BY DEF AdmissionInv, TypeOK, Current

LEMMA TickTyped ==
  ASSUME AdmissionInv, Tick
  PROVE  /\ lease \in Lease /\ lease' \in Lease
         /\ lease'.owner = lease.owner
         /\ lease'.committed = lease.committed
         /\ lease'.expires = OneLess(lease.expires)
         /\ lease'.deadline = OneLess(lease.deadline)
         /\ UNCHANGED <<epoch, legacy, inference>>
<1>1. /\ lease \in Lease
      /\ lease' = [lease EXCEPT !.expires = OneLess(@), !.deadline = OneLess(@)]
      /\ UNCHANGED <<epoch, legacy, inference>>
  BY DEF AdmissionInv, TypeOK, Tick
<1>2. OneLess(lease.expires) \in 0..TTL /\ OneLess(lease.deadline) \in 0..MaxWait
  BY <1>1, TimesAssumption DEF OneLess, Lease
<1> QED BY <1>1, <1>2 DEF Lease

(* Every step keeps the invariant. *)
LEMMA NextAdmission == AdmissionInv /\ [Next]_vars => AdmissionInv'
<1> SUFFICES ASSUME AdmissionInv, [Next]_vars PROVE AdmissionInv'
  OBVIOUS
<1> USE TimesAssumption, LimitsAssumption, NoLeaseAssumption
        DEF AdmissionInv, TypeOK, FencedIsIdle, OneFence, WithinDeadline, Committed, Lease
<1>1. CASE Observe
  BY <1>1 DEF Observe, Current, Expired
<1>2. CASE Admit
  BY <1>2 DEF Admit, Blocked, Current, Expired
<1>3. CASE Finish
  BY <1>3 DEF Finish
<1>4. ASSUME NEW drain \in BOOLEAN, Legacy(drain) PROVE AdmissionInv'
  BY <1>4 DEF Legacy, Current, Expired
<1>5. ASSUME NEW o \in Owner, NEW e \in 0..MaxEpoch, Control(o, e) PROVE AdmissionInv'
  <2>0. CASE \E action \in Action : Refuse(action, o, e)
    BY <1>1, <2>0 DEF Refuse
  <2>1. ASSUME NEW wait \in 1..MaxWait, Acquire(o, e, wait) PROVE AdmissionInv'
    BY <1>5, <2>1, LesserBound DEF Acquire, Grantable, Current, Expired
  <2>2. CASE AcquireAgain(o, e)
    BY <2>2 DEF AcquireAgain, vars
  <2>3. CASE Inspect(o, e)
    BY <2>3 DEF Inspect, vars
  <2>4. CASE Renew(o, e)
    <3>1. Current = lease /\ lease \in Lease
      BY <2>4, CurrentTyped DEF Renew, Holds
    <3>2. Lesser(TTL, lease.deadline) \in 0..TTL /\ Lesser(TTL, lease.deadline) <= lease.deadline
      BY <3>1, LesserBound
    <3> QED BY <2>4, <3>1, <3>2 DEF Renew, Extended, Holds
  <2>5. CASE Release(o, e)
    BY <2>5 DEF Release, Holds
  <2>6. CASE Commit(o, e)
    BY <2>6, CurrentTyped DEF Commit, Committable, Holds
  <2>7. CASE CommitAgain(o, e)
    BY <2>7 DEF CommitAgain, vars
  <2> QED BY <1>5, <2>0, <2>1, <2>2, <2>3, <2>4, <2>5, <2>6, <2>7 DEF Control
<1>6. CASE Tick
  <2>1. lease.expires <= lease.deadline => OneLess(lease.expires) <= OneLess(lease.deadline)
    BY <1>6, TickTyped DEF OneLess
  <2> QED BY <1>6, <2>1, TickTyped
<1>7. CASE UNCHANGED vars
  BY <1>7 DEF vars
<1> QED BY <1>1, <1>2, <1>3, <1>4, <1>5, <1>6, <1>7 DEF Next

(* In every reachable state the process is idle once it is fenced for a    *)
(* stop, the fences do not overlap and a waiting lease keeps within its    *)
(* deadline (proxy_drain.rs control, legacy and expire against the guard   *)
(* that proxy.rs forward takes).                                           *)
THEOREM AdmissionIsSafe == Spec => [](TypeOK /\ FencedIsIdle /\ OneFence /\ WithinDeadline)
<1>1. Spec => []AdmissionInv
  BY InitAdmission, NextAdmission, PTL DEF Spec
<1> QED BY <1>1, PTL DEF AdmissionInv

(* A committed stop is never undone: whatever a controller, an older       *)
(* controller or the clock does, the lease and the epoch stay.             *)
THEOREM CommitIsFinal == Spec => CommittedIsFinal
<1>1. AdmissionInv /\ [Next]_vars
        => [Committed => Committed' /\ lease'.owner = lease.owner /\ epoch' = epoch]_vars
  <2> SUFFICES ASSUME AdmissionInv, Committed, Next
               PROVE  Committed' /\ lease'.owner = lease.owner /\ epoch' = epoch
    OBVIOUS
  <2>1. Current = lease /\ lease \in Lease /\ lease # NoLease /\ lease.committed
    BY NoLeaseAssumption DEF Committed, Current, Expired, AdmissionInv, TypeOK
  <2>2. CASE Observe
    BY <2>1, <2>2 DEF Observe, Committed
  <2>3. CASE Admit
    BY <2>1, <2>3 DEF Admit, Blocked
  <2>4. CASE Finish
    BY <2>1, <2>4 DEF Finish, Committed
  <2>5. CASE \E drain \in BOOLEAN : Legacy(drain)
    BY <2>1, <2>5 DEF Legacy
  <2>6. CASE \E o \in Owner, e \in 0..MaxEpoch : Control(o, e)
    BY <2>1, <2>6 DEF Control, Refuse, Observe, Acquire, AcquireAgain, Inspect, Renew, Release,
                      Grantable, Commit, CommitAgain, Committed, vars
  <2>7. CASE Tick
    BY <2>1, <2>7, TickTyped, NoLeaseAssumption DEF Committed
  <2> QED BY <2>2, <2>3, <2>4, <2>5, <2>6, <2>7 DEF Next
<1> QED BY <1>1, InitAdmission, NextAdmission, PTL DEF Spec, CommittedIsFinal

(* Neither a renewal nor the retry of an acquire buys a lease more time    *)
(* than its acquire asked for.                                             *)
THEOREM DeadlineHolds == Spec => DeadlineNeverExtended
<1> DEFINE Kept == lease # NoLease /\ lease' # NoLease /\ epoch' = epoch
                     => lease'.deadline <= lease.deadline
<1>1. AdmissionInv /\ [Next]_vars => [Kept]_vars
  <2> SUFFICES ASSUME AdmissionInv, Next, lease # NoLease, lease' # NoLease, epoch' = epoch
               PROVE  lease'.deadline <= lease.deadline
    OBVIOUS
  <2>1. lease \in Lease /\ lease.deadline \in Nat /\ epoch \in Nat
    BY LimitsAssumption DEF AdmissionInv, TypeOK, Lease
  <2>2. lease' = lease => lease'.deadline <= lease.deadline
    BY <2>1
  <2>3. CASE Observe \/ Admit \/ Finish \/ \E drain \in BOOLEAN : Legacy(drain)
    BY <2>2, <2>3 DEF Observe, Admit, Finish, Legacy, Current
  <2>4. CASE \E o \in Owner, e \in 0..MaxEpoch : Control(o, e)
    <3> PICK o \in Owner, e \in 0..MaxEpoch : Control(o, e)
      BY <2>4
    <3>0. CASE \E action \in Action : Refuse(action, o, e)
      BY <2>2, <3>0 DEF Refuse, Observe, Current
    <3>1. ASSUME NEW wait \in 1..MaxWait, Acquire(o, e, wait) PROVE FALSE
      BY <2>1, <3>1 DEF Acquire, Grantable
    <3>2. CASE AcquireAgain(o, e) \/ Inspect(o, e) \/ CommitAgain(o, e)
      BY <2>2, <3>2 DEF AcquireAgain, Inspect, CommitAgain, vars
    <3>3. CASE Renew(o, e) \/ Commit(o, e)
      <4>1. Current = lease
        BY <3>3 DEF Renew, Commit, Holds, Current
      <4> QED BY <2>1, <3>3, <4>1 DEF Renew, Extended, Commit, Lease
    <3>4. CASE Release(o, e)
      BY <3>4 DEF Release
    <3> QED BY <3>0, <3>1, <3>2, <3>3, <3>4 DEF Control
  <2>5. CASE Tick
    BY <2>1, <2>5, TickTyped DEF OneLess
  <2> QED BY <2>3, <2>4, <2>5 DEF Next
<1> QED BY <1>1, InitAdmission, NextAdmission, PTL DEF Spec, DeadlineNeverExtended

(* The gate promised by Gate.tla is what Admission implements: nothing     *)
(* enters while a lease or a legacy drain is in force, only an idle        *)
(* process is closed, and a closed one never opens again.                  *)
LEMMA StepRefines == AdmissionInv /\ [Next]_vars => [G!GateNext]_(G!gateVars)
<1> SUFFICES ASSUME AdmissionInv, [Next]_vars PROVE [G!GateNext]_(G!gateVars)
  OBVIOUS
<1> USE DEF G!GateNext, G!Enter, G!Leave, G!Hold, G!Reopen, G!Close, G!gateVars
<1>0. /\ lease \in Lease \union {NoLease} /\ inference \in Nat
      /\ lease \in Lease => lease # NoLease /\ lease.committed \in BOOLEAN
  BY NoLeaseAssumption, LimitsAssumption DEF AdmissionInv, TypeOK, Lease
<1>1. CASE Observe
  <2>1. GateState' = GateState
    BY <1>1 DEF Observe, GateState, Committed, Blocked, Current, Expired
  <2> QED BY <1>1, <2>1 DEF Observe
<1>2. CASE Admit
  <2>1. GateState = "open" /\ GateState' = "open"
    BY <1>2 DEF Admit, GateState, Committed, Blocked, Current, Expired
  <2> QED BY <1>2, <2>1 DEF Admit
<1>3. CASE Finish
  <2>1. GateState' = GateState
    BY <1>3 DEF Finish, GateState, Committed, Blocked, Current, Expired
  <2> QED BY <1>3, <2>1 DEF Finish
<1>4. ASSUME NEW drain \in BOOLEAN, Legacy(drain) PROVE [G!GateNext]_(G!gateVars)
  <2>1. GateState \in {"open", "held"} /\ GateState' \in {"open", "held"}
    BY <1>4 DEF Legacy, GateState, Committed, Blocked, Current, Expired
  <2> QED BY <1>4, <2>1 DEF Legacy
<1>5. ASSUME NEW o \in Owner, NEW e \in 0..MaxEpoch, Control(o, e)
      PROVE [G!GateNext]_(G!gateVars)
  <2>0. CASE \E action \in Action : Refuse(action, o, e)
    BY <1>1, <2>0 DEF Refuse
  <2>1. ASSUME NEW wait \in 1..MaxWait, Acquire(o, e, wait)
        PROVE [G!GateNext]_(G!gateVars)
    <3>1. lease' = [owner |-> o, expires |-> Lesser(TTL, wait), deadline |-> wait,
                    committed |-> FALSE]
          /\ Lesser(TTL, wait) \in 1..TTL /\ wait \in 0..MaxWait
      BY <2>1, TimesAssumption DEF Acquire, Lesser
    <3>2. lease' \in Lease /\ lease'.expires # 0 /\ ~lease'.committed
      BY <3>1 DEF Lease
    <3>3. lease' # NoLease
      BY <3>2, NoLeaseAssumption
    <3>4. GateState = "open"
      BY <2>1 DEF Acquire, Grantable, GateState, Committed, Blocked, Current, Expired
    <3>5. GateState' = "held"
      BY <3>2, <3>3 DEF GateState, Committed, Blocked, Current, Expired
    <3> QED BY <2>1, <3>4, <3>5 DEF Acquire
  <2>2. CASE AcquireAgain(o, e)
    <3> QED BY <2>2 DEF AcquireAgain, vars, GateState, Committed, Blocked, Current, Expired
  <2>3. CASE Inspect(o, e)
    BY <2>3 DEF Inspect, vars, GateState, Committed, Blocked, Current, Expired
  <2>4. CASE Renew(o, e)
    <3>1. /\ Current = lease /\ lease \in Lease /\ lease # NoLease
          /\ ~lease.committed /\ lease.expires > 0
      BY <2>4, <1>0 DEF Renew, Holds, Current, Expired, Lease
    <3>2. lease.deadline > 0
      BY <3>1, TimesAssumption DEF AdmissionInv, WithinDeadline, Lease
    <3>3. Lesser(TTL, lease.deadline) \in 1..TTL
      BY <3>1, <3>2, TimesAssumption DEF Lesser, Lease
    <3>4. lease' \in Lease /\ lease'.expires # 0 /\ ~lease'.committed
      BY <2>4, <3>1, <3>3 DEF Renew, Extended, Lease
    <3>5. GateState = "held" /\ GateState' = "held"
      BY <2>4, <3>1, <3>4, NoLeaseAssumption
      DEF Renew, GateState, Committed, Blocked, Current, Expired
    <3> QED BY <2>4, <3>5 DEF Renew
  <2>5. CASE Release(o, e)
    <3>1. GateState = "held"
      BY <2>5 DEF Release, Holds, GateState, Committed, Blocked, Current, Expired
    <3>2. GateState' \in {"open", "held"}
      BY <2>5 DEF Release, GateState, Committed, Blocked, Current, Expired
    <3> QED BY <2>5, <3>1, <3>2 DEF Release
  <2>6. CASE Commit(o, e)
    <3>1. GateState = "held"
      BY <2>6 DEF Commit, Holds, GateState, Committed, Blocked, Current, Expired
    <3>2. Current = lease /\ lease \in Lease
      BY <2>6, <1>0 DEF Commit, Holds, Current
    <3>3. lease' \in Lease /\ lease'.committed
      BY <2>6, <3>2 DEF Commit, Lease
    <3>4. GateState' = "closed"
      BY <3>3, NoLeaseAssumption DEF GateState, Committed
    <3> QED BY <2>6, <3>1, <3>4 DEF Commit, Committable
  <2>7. CASE CommitAgain(o, e)
    BY <2>7 DEF CommitAgain, vars, GateState, Committed, Blocked, Current, Expired
  <2> QED BY <1>5, <2>0, <2>1, <2>2, <2>3, <2>4, <2>5, <2>6, <2>7 DEF Control
<1>6. CASE Tick
  <2>1. /\ lease # NoLease /\ lease' # NoLease
        /\ lease'.committed = lease.committed
        /\ lease'.expires = OneLess(lease.expires)
        /\ lease.expires \in Nat
        /\ UNCHANGED <<legacy, inference>>
    BY <1>6, TickTyped, NoLeaseAssumption DEF Lease
  <2>2. lease.expires = 0 => lease'.expires = 0
    BY <2>1 DEF OneLess
  <2>3. GateState' = GateState \/ (GateState = "held" /\ GateState' = "open")
    BY <2>1, <2>2 DEF GateState, Committed, Blocked, Current, Expired
  <2> QED BY <2>1, <2>3
<1>7. CASE UNCHANGED vars
  BY <1>7 DEF vars, GateState, Committed, Blocked, Current, Expired
<1> QED BY <1>1, <1>2, <1>3, <1>4, <1>5, <1>6, <1>7 DEF Next

THEOREM GateIsImplemented == Spec => GateRefined
<1>1. Init => G!GateInit
  BY DEF Init, G!GateInit, GateState, Committed, Blocked, Current, Expired
<1> QED BY <1>1, InitAdmission, NextAdmission, StepRefines, PTL DEF Spec, GateRefined, G!GateSpec
=============================================================================
