--------------------------- MODULE ForwardProofs ---------------------------
(***************************************************************************)
(* Theorems about Forward, for any number of requests and any sizes.       *)
(*                                                                         *)
(* Requests meet only at the gate, so the invariant has two halves: what   *)
(* is so of each request by itself (Sound), which only its own steps can   *)
(* change, and that the gate counts exactly the requests inside it         *)
(* (Counted), which is where requests and drains meet.  What outlives a    *)
(* request, its sample and the prefixes it publishes, is related to what   *)
(* it sent by a third part (Remembered, SamplesAreTrue, StoreFits).        *)
(***************************************************************************)
EXTENDS Forward, FiniteSetTheorems, SequenceTheorems, TLAPS

Early == {"new", "admitted", "scoped", "prepared", "ready"}
Ended == {"returning", "done"}
Refusals == {"local503", "local400"}
Body == [original: BOOLEAN, size: Size]

\* The part of the state that belongs to one request.
Typed(r) ==
  /\ at[r] \in Place
  /\ input[r] \in Input
  /\ decision[r] \in Capacity
  /\ prepared[r] \in Context \union {Absent}
  /\ sent[r] \in Seq(Body)
  /\ performed[r] \in Nat

Sound(r) ==
  /\ Typed(r)
  /\ at[r] \in Early => sent[r] = <<>>
  /\ at[r] \notin Ended => performed[r] = 0 /\ reply[r] = "none"
  /\ performed[r] <= 1
  /\ reply[r] \in Refusals => sent[r] = <<>>
  /\ Ctx(r) # Absent => (~Ctx(r).modified => Ctx(r).out = input[r].size)
  /\ at[r] = "ready" => ~Unsized(r) /\ ~Unfit(r)
  /\ Dialect(r) /\ InputCapacity(r) # Unknown =>
       \A i \in DOMAIN sent[r] : sent[r][i].size <= InputCapacity(r)

\* Functions whose domain is Request: every step changes one point of them.
Functions ==
  /\ at \in [Request -> Place]
  /\ input \in [Request -> Input]
  /\ decision \in [Request -> Capacity]
  /\ prepared \in [Request -> Context \union {Absent}]
  /\ sent \in [Request -> Seq(Body)]
  /\ performed \in [Request -> Nat]
  /\ reply \in [Request -> Reply]

Inside == {r \in Request : Inference(r) /\ at[r] \notin {"new", "done"}}
Counted == inside = Cardinality(Inside) /\ (gate = "closed" => inside = 0)

IInv == Functions /\ (\A r \in Request : Sound(r)) /\ Counted

-----------------------------------------------------------------------------
\* What a step leaves of a request it is not about.
Same(q) ==
  /\ at'[q] = at[q] /\ input'[q] = input[q] /\ decision'[q] = decision[q]
  /\ prepared'[q] = prepared[q] /\ sent'[q] = sent[q]
  /\ performed'[q] = performed[q] /\ reply'[q] = reply[q]

LEMMA Frame ==
  ASSUME NEW q \in Request, Sound(q), Same(q), UNCHANGED settings
  PROVE  Sound(q)'
<1>1. InputCapacity(q)' = InputCapacity(q) /\ Ctx(q)' = Ctx(q) /\ Dialect(q)' = Dialect(q)
  BY DEF Same, settings, InputCapacity, Ctx, Dialect
<1>2. Unsized(q)' = Unsized(q)
  BY <1>1 DEF Same, settings, Unsized, SizingRequired
<1>3. Unfit(q)' = Unfit(q)
  BY <1>1 DEF Same, settings, Unfit, TooLarge, SentSize
<1> QED BY <1>1, <1>2, <1>3 DEF Same, Sound, Typed

LEMMA OneMoves ==
  ASSUME Functions, NEW r \in Request, Forwarding(r)
  PROVE  /\ UNCHANGED settings /\ input' = input
         /\ \A q \in Request \ {r} : Same(q)
<1> USE DEF Functions, Same, Step, Answer, Send, Refuse
<1>1. CASE Admit(r)
  BY <1>1 DEF Admit
<1>2. CASE RefuseDraining(r)
  BY <1>2 DEF RefuseDraining
<1>3. CASE PassUncounted(r)
  BY <1>3 DEF PassUncounted
<1>4. CASE RefuseScope(r)
  BY <1>4 DEF RefuseScope
<1>5. CASE Consume(r)
  BY <1>5 DEF Consume
<1>6. CASE Prepare(r)
  BY <1>6 DEF Prepare
<1>7. CASE PassThrough(r)
  BY <1>7 DEF PassThrough
<1>8. CASE PrepareFails(r)
  BY <1>8 DEF PrepareFails
<1>9. CASE RefuseUnsized(r)
  BY <1>9 DEF RefuseUnsized
<1>10. CASE RefuseUnfit(r)
  BY <1>10 DEF RefuseUnfit
<1>11. CASE Accept(r)
  BY <1>11 DEF Accept
<1>12. CASE SendFirst(r)
  BY <1>12 DEF SendFirst
<1>13. CASE UpstreamFails(r)
  BY <1>13 DEF UpstreamFails
<1>14. CASE Relay(r)
  BY <1>14 DEF Relay
<1>15. CASE ReadRefusal(r)
  BY <1>15 DEF ReadRefusal
<1>16. CASE ResendOriginal(r)
  BY <1>16 DEF ResendOriginal
<1>17. CASE Retry(r)
  BY <1>17 DEF Retry
<1>18. CASE GiveRefusal(r)
  BY <1>18 DEF GiveRefusal
<1>19. CASE Return(r)
  BY <1>19 DEF Return
<1> QED BY <1>1, <1>2, <1>3, <1>4, <1>5, <1>6, <1>7, <1>8, <1>9, <1>10, <1>11, <1>12,
        <1>13, <1>14, <1>15, <1>16, <1>17, <1>18, <1>19 DEF Forwarding

\* The steps that move a request on without sending: what they keep.
LEMMA Sending ==
  ASSUME NEW s \in Seq(Body), NEW b \in Body, NEW limit,
         \A i \in DOMAIN s : s[i].size <= limit, b.size <= limit
  PROVE  /\ Append(s, b) \in Seq(Body)
         /\ \A i \in DOMAIN Append(s, b) : Append(s, b)[i].size <= limit
<1>1. Append(s, b) \in Seq(Body) /\ Len(Append(s, b)) = Len(s) + 1 /\ Len(s) \in Nat
  BY AppendProperties, LenProperties
<1>2. ASSUME NEW i \in DOMAIN Append(s, b)
      PROVE  Append(s, b)[i].size <= limit
  <2>1. DOMAIN Append(s, b) = 1..(Len(s) + 1) /\ DOMAIN s = 1..Len(s)
    BY <1>1, LenProperties
  <2>2. CASE i \in DOMAIN s
    BY <2>1, <2>2, AppendProperties
  <2>3. CASE i = Len(s) + 1
    BY <2>3, AppendProperties
  <2> QED BY <1>1, <1>2, <2>1, <2>2, <2>3
<1> QED BY <1>1, <1>2

LEMMA Moves ==
  ASSUME IInv, NEW r \in Request, Forwarding(r)
  PROVE  Functions' /\ Sound(r)'
<1> USE DEF Functions, Step, Answer, Refuse, Early, Ended, Refusals, Place, Reply
<1>0. Functions /\ Sound(r) /\ UNCHANGED <<shadow, strict, window, input>>
  BY OneMoves DEF IInv, settings
<1>1. Dialect(r)' = Dialect(r)
  BY <1>0 DEF Dialect
\* A step that sends nothing, grants nothing and prepares nothing.
<1>2. ASSUME UNCHANGED <<decision, prepared, sent>>, at'[r] # "ready",
             at'[r] \in Early => at[r] \in Early,
             at'[r] \notin Ended => at[r] \notin Ended /\ UNCHANGED <<performed, reply>>,
             reply'[r] \in Refusals => reply[r] \in Refusals \/ at[r] \in Early,
             performed'[r] <= 1,
             Functions'
      PROVE  Sound(r)'
  <2>1. /\ InputCapacity(r)' = InputCapacity(r) /\ Ctx(r)' = Ctx(r)
        /\ Ctx(r) # Absent => (~Ctx(r).modified => Ctx(r).out = input[r].size)
    BY <1>0, <1>2 DEF InputCapacity, Ctx, Sound
  <2> QED BY <1>0, <1>1, <1>2, <2>1 DEF Sound, Typed, Ctx
<1>3. CASE Admit(r)
  BY <1>0, <1>2, <1>3 DEF Admit, Sound
<1>4. CASE RefuseDraining(r)
  BY <1>0, <1>2, <1>4 DEF RefuseDraining, Sound
<1>5. CASE PassUncounted(r)
  BY <1>0, <1>2, <1>5 DEF PassUncounted, Sound
<1>6. CASE RefuseScope(r)
  BY <1>0, <1>2, <1>6 DEF RefuseScope, Sound
<1>7. CASE Consume(r)
  <2>1. Functions'
    BY <1>0, <1>7 DEF Consume, Capacity
  <2>2. sent'[r] = <<>> /\ UNCHANGED <<prepared, performed, reply>> /\ at'[r] = "scoped"
    BY <1>0, <1>7 DEF Consume, Sound
  <2> QED BY <1>0, <1>7, <2>1, <2>2 DEF Consume, Sound, Typed, Ctx
<1>8. CASE Prepare(r)
  <2>1. PICK c \in Prepares(r) : prepared' = [prepared EXCEPT ![r] = c]
    BY <1>8 DEF Prepare
  <2>2. c \in Context /\ (~c.modified => c.out = input[r].size)
    BY <2>1 DEF Prepares
  <2>3. Functions'
    BY <1>0, <1>8, <2>1, <2>2 DEF Prepare
  <2> QED BY <1>0, <1>8, <2>1, <2>2, <2>3 DEF Prepare, Sound, Typed, Ctx
<1>9. CASE PassThrough(r)
  BY <1>0, <1>2, <1>9 DEF PassThrough, Sound
<1>10. CASE PrepareFails(r)
  BY <1>0, <1>2, <1>10 DEF PrepareFails, Sound
<1>11. CASE RefuseUnsized(r)
  BY <1>0, <1>2, <1>11 DEF RefuseUnsized, Sound
<1>12. CASE RefuseUnfit(r)
  BY <1>0, <1>2, <1>12 DEF RefuseUnfit, Sound
<1>13. CASE Accept(r)
  <2>1. Functions'
    BY <1>0, <1>13 DEF Accept
  <2>2. Unsized(r)' = Unsized(r) /\ Unfit(r)' = Unfit(r)
    BY <1>0, <1>1, <1>13 DEF Accept, Unsized, Unfit, SizingRequired, Ctx, TooLarge, SentSize,
       InputCapacity
  <2> QED BY <1>0, <1>1, <1>13, <2>1, <2>2 DEF Accept, Sound, Typed, Ctx, InputCapacity
<1>14. CASE UpstreamFails(r)
  BY <1>0, <1>2, <1>14 DEF UpstreamFails, Sound
<1>15. CASE Relay(r)
  <2>1. /\ at[r] = "upstream" /\ at' = [at EXCEPT ![r] = "returning"]
        /\ UNCHANGED <<decision, prepared, sent>>
    BY <1>15 DEF Relay
  <2>2. reply' \in [Request -> Reply] /\ reply'[r] \notin Refusals
    BY <1>0, <1>15 DEF Relay
  <2>3. performed[r] = 0
    BY <1>0, <2>1 DEF Sound
  <2>4. PICK n \in 0..1 : performed' = [performed EXCEPT ![r] = @ + n]
    BY <1>15 DEF Relay
  <2>5. performed' \in [Request -> Nat] /\ performed'[r] <= 1
    BY <1>0, <2>3, <2>4
  <2>6. Functions'
    BY <1>0, <2>1, <2>2, <2>5
  <2> QED BY <1>0, <1>2, <2>1, <2>2, <2>5, <2>6
<1>16. CASE ReadRefusal(r)
  BY <1>0, <1>2, <1>16 DEF ReadRefusal, Sound
<1>17. CASE GiveRefusal(r)
  BY <1>0, <1>2, <1>17 DEF GiveRefusal, Sound
<1>18. CASE Return(r)
  BY <1>0, <1>2, <1>18 DEF Return, Sound
\* The steps that send.
<1>19. ASSUME NEW b \in Body, sent' = [sent EXCEPT ![r] = Append(@, b)],
              Dialect(r) /\ InputCapacity(r) # Unknown => b.size <= InputCapacity(r),
              at' = [at EXCEPT ![r] = "upstream"], at[r] \notin Ended,
              UNCHANGED <<decision, reply, performed>>,
              prepared' \in [Request -> Context \union {Absent}],
              Ctx(r)' # Absent => (~Ctx(r)'.modified => Ctx(r)'.out = input[r].size)
       PROVE  Functions' /\ Sound(r)'
  <2>1. InputCapacity(r)' = InputCapacity(r)
    BY <1>0, <1>19 DEF InputCapacity
  <2>2. sent'[r] = Append(sent[r], b) /\ sent[r] \in Seq(Body)
    BY <1>0, <1>19
  <2>3. sent'[r] \in Seq(Body)
    BY <1>19, <2>2, AppendProperties
  <2>4. Functions'
    BY <1>0, <1>19, <2>2, <2>3
  <2>5. Dialect(r) /\ InputCapacity(r) # Unknown =>
          \A i \in DOMAIN sent'[r] : sent'[r][i].size <= InputCapacity(r)
    BY <1>0, <1>19, <2>2, Sending DEF Sound
  <2> QED BY <1>0, <1>1, <1>19, <2>1, <2>3, <2>4, <2>5 DEF Sound, Typed
<1>20. CASE SendFirst(r)
  <2> DEFINE new == Ctx(r) # Absent /\ Ctx(r).modified /\ ~shadow
             b == IF new THEN [original |-> FALSE, size |-> Ctx(r).out]
                         ELSE [original |-> TRUE, size |-> input[r].size]
  <2>1. /\ at[r] = "ready" /\ at' = [at EXCEPT ![r] = "upstream"]
        /\ UNCHANGED <<decision, prepared, reply, performed>>
    BY <1>20 DEF SendFirst
  <2>2. sent' = [sent EXCEPT ![r] = Append(@, b)]
    BY <1>20 DEF SendFirst, Send
  <2>3. b \in Body
    BY <1>0 DEF Sound, Typed, Ctx, Context, Input, Body
  <2>4. ASSUME Dialect(r), InputCapacity(r) # Unknown
        PROVE  b.size <= InputCapacity(r)
    <3>1. SizingRequired(r)
      BY <2>4 DEF SizingRequired, InputCapacity
    <3>2. Ctx(r) # Absent /\ ~TooLarge(r)
      BY <1>0, <2>1, <2>4, <3>1 DEF Sound, Unsized, Unfit
    <3>3. SentSize(r) <= InputCapacity(r)
      BY <2>4, <3>2 DEF TooLarge, Within
    <3>4. b.size = SentSize(r)
      BY <1>0, <3>2 DEF SentSize, Sound
    <3> QED BY <3>3, <3>4
  <2>5. Ctx(r)' = Ctx(r) /\ (Ctx(r) # Absent => (~Ctx(r).modified => Ctx(r).out = input[r].size))
    BY <1>0, <2>1 DEF Ctx, Sound
  <2> HIDE DEF b
  <2> QED BY <1>0, <1>19, <2>1, <2>2, <2>3, <2>4, <2>5
<1>21. CASE ResendOriginal(r)
  <2> DEFINE b == [original |-> TRUE, size |-> input[r].size]
  <2>1. /\ at[r] = "refused" /\ at' = [at EXCEPT ![r] = "upstream"]
        /\ UNCHANGED <<decision, prepared, reply, performed>>
        /\ sent' = [sent EXCEPT ![r] = Append(@, b)]
    BY <1>21 DEF ResendOriginal, Send
  <2>2. b \in Body
    BY <1>0 DEF Input, Body
  <2>3. Dialect(r) /\ InputCapacity(r) # Unknown => b.size <= InputCapacity(r)
    BY <1>21 DEF ResendOriginal, MayResend, Within
  <2>4. Ctx(r)' = Ctx(r) /\ (Ctx(r) # Absent => (~Ctx(r).modified => Ctx(r).out = input[r].size))
    BY <1>0, <2>1 DEF Ctx, Sound
  <2> HIDE DEF b
  <2> QED BY <1>0, <1>19, <2>1, <2>2, <2>3, <2>4
<1>22. CASE Retry(r)
  <2>1. PICK n \in Harsher(Ctx(r)) :
          /\ Within(n.out, InputCapacity(r))
          /\ prepared' = [prepared EXCEPT ![r] = n]
          /\ Send(r, FALSE, n.out)
    BY <1>22 DEF Retry
  <2> DEFINE b == [original |-> FALSE, size |-> n.out]
  <2>2. /\ at[r] = "refused" /\ at' = [at EXCEPT ![r] = "upstream"]
        /\ UNCHANGED <<decision, reply, performed>>
        /\ sent' = [sent EXCEPT ![r] = Append(@, b)]
    BY <1>22, <2>1 DEF Retry, Send
  <2>3. n \in Context /\ n.modified
    BY <2>1 DEF Harsher
  <2>4. b \in Body
    BY <2>3 DEF Context, Body
  <2>5. Dialect(r) /\ InputCapacity(r) # Unknown => b.size <= InputCapacity(r)
    BY <2>1 DEF Within
  <2>6. /\ prepared' \in [Request -> Context \union {Absent}]
        /\ Ctx(r)' = n
    BY <1>0, <2>1, <2>3 DEF Ctx
  <2> HIDE DEF b
  <2> QED BY <1>0, <1>19, <2>2, <2>3, <2>4, <2>5, <2>6
<1> QED BY <1>3, <1>4, <1>5, <1>6, <1>7, <1>8, <1>9, <1>10, <1>11, <1>12, <1>13, <1>14,
        <1>15, <1>16, <1>17, <1>18, <1>20, <1>21, <1>22 DEF Forwarding

-----------------------------------------------------------------------------
(* The gate.                                                               *)

LEMMA InsideFinite == IsFiniteSet(Inside) /\ Cardinality(Inside) \in Nat
<1>1. Inside \in SUBSET Request
  BY DEF Inside
<1> QED BY <1>1, RequestAssumption, FS_Subset, FS_CardinalityType

\* A thread that neither enters nor returns stays on its side of the gate.
LEMMA Stays ==
  ASSUME Functions, NEW r \in Request, Forwarding(r), ~Admit(r), ~Return(r)
  PROVE  Inside' = Inside /\ UNCHANGED gateVars
<1> USE DEF Functions, Step, Refuse, gateVars, shared
<1>1. /\ UNCHANGED gateVars
      /\ \/ at[r] \notin {"new", "done"} /\ at'[r] \notin {"new", "done"}
         \/ at[r] = "new" /\ at'[r] = "done"
         \/ ~Inference(r)
  BY DEF Forwarding, RefuseDraining, PassUncounted, RefuseScope, Consume, Prepare,
         PassThrough, PrepareFails, RefuseUnsized, RefuseUnfit, Accept, SendFirst,
         UpstreamFails, Relay, ReadRefusal, ResendOriginal, Retry, GiveRefusal
<1>2. input' = input /\ \A q \in Request \ {r} : at'[q] = at[q]
  BY OneMoves DEF Same
<1> QED BY <1>1, <1>2 DEF Inside, Inference

LEMMA CountedMoves ==
  ASSUME IInv, NEW r \in Request, Forwarding(r)
  PROVE  Counted'
<1>0. Functions /\ Counted /\ IsFiniteSet(Inside) /\ Cardinality(Inside) \in Nat
  BY InsideFinite DEF IInv
<1>1. input' = input /\ \A q \in Request \ {r} : at'[q] = at[q]
  BY <1>0, OneMoves DEF Same
<1>2. CASE Admit(r)
  <2>1. Inference(r) /\ at[r] = "new" /\ at'[r] = "admitted"
    BY <1>0, <1>2 DEF Admit, Step, Functions
  <2>2. Inside' = Inside \union {r} /\ r \notin Inside
    BY <1>1, <2>1 DEF Inside, Inference
  <2>3. Cardinality(Inside') = Cardinality(Inside) + 1
    BY <1>0, <2>2, FS_AddElement
  <2> QED BY <1>0, <1>2, <2>3 DEF Admit, Enter, Counted
<1>3. CASE Return(r)
  <2>1. at[r] = "returning" /\ at'[r] = "done"
    BY <1>0, <1>3 DEF Return, Step, Functions
  <2>2. CASE Inference(r)
    <3>1. Inside' = Inside \ {r} /\ r \in Inside
      BY <1>1, <2>1, <2>2 DEF Inside, Inference
    <3>2. Cardinality(Inside') = Cardinality(Inside) - 1
      BY <1>0, <3>1, FS_RemoveElement
    <3>3. inside > 0 /\ inside' = inside - 1 /\ gate' = gate
      BY <1>3, <2>2 DEF Return, Leave
    <3> QED BY <1>0, <3>2, <3>3 DEF Counted
  <2>3. CASE ~Inference(r)
    <3>1. Inside' = Inside
      BY <1>1, <2>3 DEF Inside, Inference
    <3>2. UNCHANGED gateVars
      BY <1>3, <2>3 DEF Return
    <3> QED BY <1>0, <3>1, <3>2 DEF Counted, gateVars
  <2> QED BY <2>2, <2>3
<1>4. CASE ~Admit(r) /\ ~Return(r)
  BY <1>0, <1>4, Stays DEF Counted, gateVars
<1> QED BY <1>2, <1>3, <1>4

LEMMA InitIInv == Init => IInv
<1> SUFFICES ASSUME Init PROVE IInv
  OBVIOUS
<1>1. Functions
  BY DEF Init, Functions, Place, Capacity, Reply
<1>2. ASSUME NEW r \in Request PROVE Sound(r)
  BY <1>1 DEF Init, Functions, Sound, Typed, Ctx, Early, Refusals
<1>3. Inside = {}
  BY DEF Init, Inside
<1>4. Counted
  BY <1>3, FS_EmptySet DEF Init, GateInit, Counted
<1> QED BY <1>1, <1>2, <1>4 DEF IInv

LEMMA NextIInv == IInv /\ [Next]_vars => IInv'
<1> SUFFICES ASSUME IInv, [Next]_vars PROVE IInv'
  OBVIOUS
<1>1. ASSUME NEW r \in Request, Forwarding(r) PROVE IInv'
  <2>1. ASSUME NEW q \in Request PROVE Sound(q)'
    <3>1. CASE q = r
      BY <1>1, <3>1, Moves
    <3>2. CASE q # r
      BY <1>1, <3>2, OneMoves, Frame DEF IInv
    <3> QED BY <3>1, <3>2
  <2> QED BY <1>1, <2>1, Moves, CountedMoves DEF IInv
<1>2. ASSUME UNCHANGED <<settings, request>> PROVE Functions' /\ Inside' = Inside
        /\ \A q \in Request : Sound(q)'
  <2>1. \A q \in Request : Same(q)
    BY <1>2 DEF request, Same
  <2>2. \A q \in Request : Sound(q)'
    BY <1>2, <2>1, Frame DEF IInv
  <2> QED BY <1>2, <2>2 DEF IInv, Functions, request, Inside, Inference
<1>3. CASE Drain
  <2>1. Counted'
    BY <1>2, <1>3 DEF Drain, Hold, Reopen, Close, IInv, Counted
  <2> QED BY <1>2, <1>3, <2>1 DEF Drain, IInv
<1>4. CASE UNCHANGED vars
  BY <1>2, <1>4 DEF vars, shared, IInv, Counted
<1> QED BY <1>1, <1>3, <1>4 DEF Next

LEMMA Invariant == Spec => []IInv
<1> QED BY InitIInv, NextIInv, PTL DEF Spec

-----------------------------------------------------------------------------
\* Whatever the engine returns and the provider answers, no body above a
\* known input capacity is sent.
THEOREM Capacities == Spec => []CapacityRespected
<1>1. IInv => CapacityRespected
  BY DEF IInv, Sound, CapacityRespected
<1> QED BY <1>1, Invariant, PTL

\* A local 503 or 400 is given only before anything was sent.
THEOREM LocalRefusals == Spec => []RefusedMeansUnsent
<1>1. IInv => RefusedMeansUnsent
  BY DEF IInv, Sound, Refusals, RefusedMeansUnsent
<1> QED BY <1>1, Invariant, PTL

\* Every body but the last was refused: inference is done at most once.
THEOREM Once == Spec => []PerformedOnce
<1>1. IInv => PerformedOnce
  BY DEF IInv, Sound, PerformedOnce
<1> QED BY <1>1, Invariant, PTL

\* The count the drain waits for misses no request.
THEOREM Quiet == Spec => []ClosedIsQuiet
<1>1. ASSUME IInv PROVE ClosedIsQuiet
  <2>1. gate = "closed" => Inside = {}
    BY <1>1, InsideFinite, FS_EmptySet DEF IInv, Counted
  <2> QED BY <2>1 DEF ClosedIsQuiet, Inside
<1> QED BY <1>1, Invariant, PTL

-----------------------------------------------------------------------------
(* What is remembered of requests                                          *)

\* What was sent is what the context says: it is sampled at that size.
Remembered(r) ==
  /\ at[r] \in {"upstream", "refused"} => sent[r] # <<>>
  /\ at[r] = "refused" => ~shadow /\ Ctx(r) # Absent
  /\ at[r] = "upstream" /\ Ctx(r) # Absent => SampledSize(r) = Last(sent[r]).size
  /\ strict /\ ~shadow /\ Dialect(r) /\ sent[r] # <<>> =>
       Ctx(r) # Absent /\ sent[r][1].size <= Ctx(r).threshold

\* A request that was sampled sends nothing more.
SamplesAreTrue ==
  \A s \in samples : at[s.of] \in Ended /\ s.size = Last(sent[s.of]).size
StoreFits == ~shadow => \A e \in store : e.capacity # Unknown => e.size <= e.capacity

MInv == IInv /\ TypeOK /\ (\A r \in Request : Remembered(r)) /\ SamplesAreTrue /\ StoreFits

LEMMA SizesAre ==
  ASSUME IInv, NEW r \in Request
  PROVE  /\ input[r].size \in Size
         /\ Ctx(r) # Absent => Ctx(r) \in Context /\ Ctx(r).out \in Size
         /\ sent[r] \in Seq(Body) /\ Len(sent[r]) \in Nat
  BY LenProperties DEF IInv, Functions, Ctx, Context, Input

LEMMA AppendIs ==
  ASSUME NEW s \in Seq(Body), NEW b \in Body
  PROVE  /\ Append(s, b) \in Seq(Body) /\ Append(s, b) # <<>> /\ Last(Append(s, b)) = b
         /\ Len(Append(s, b)) = Len(s) + 1 /\ Len(s) \in Nat
         /\ s # <<>> => Append(s, b)[1] = s[1]
         /\ s = <<>> => Append(s, b)[1] = b
<1>1. Append(s, b) \in Seq(Body) /\ Append(s, b) # <<>> /\ Len(Append(s, b)) = Len(s) + 1
      /\ Len(s) \in Nat /\ Append(s, b)[Len(s) + 1] = b
      /\ \A i \in 1..Len(s) : Append(s, b)[i] = s[i]
  BY AppendProperties, LenProperties
<1>2. s # <<>> => 1 \in 1..Len(s)
  BY EmptySeq
<1>3. s = <<>> => Len(s) = 0
  BY EmptySeq
<1> QED BY <1>1, <1>2, <1>3 DEF Last

LEMMA RememberedFrame ==
  ASSUME NEW q \in Request, Remembered(q), Same(q), UNCHANGED settings
  PROVE  Remembered(q)'
<1>1. Ctx(q)' = Ctx(q) /\ Dialect(q)' = Dialect(q)
  BY DEF Same, Ctx, Dialect
<1>2. SampledSize(q)' = SampledSize(q)
  BY <1>1 DEF Same, settings, SampledSize, Ctx
<1> QED BY <1>1, <1>2 DEF Same, settings, Remembered, Last

\* A step that sends nothing and prepares nothing.
LEMMA NothingSent ==
  ASSUME IInv, NEW r \in Request, Remembered(r), Forwarding(r), UNCHANGED <<sent, prepared>>,
         at'[r] # "upstream", at'[r] = "refused" => at[r] = "upstream" /\ Reactive(r)
  PROVE  Remembered(r)'
<1>1. UNCHANGED settings /\ input' = input
  BY OneMoves DEF IInv
<1>2. Ctx(r)' = Ctx(r) /\ Dialect(r)' = Dialect(r)
  BY <1>1 DEF Ctx, Dialect
<1> QED BY <1>1, <1>2 DEF Remembered, settings, Reactive, Ctx

LEMMA RememberedMoves ==
  ASSUME IInv, NEW r \in Request, Remembered(r), Forwarding(r)
  PROVE  Remembered(r)'
<1>0. /\ Functions /\ Sound(r) /\ UNCHANGED settings /\ input' = input /\ Dialect(r)' = Dialect(r)
      /\ UNCHANGED <<shadow, strict>>
  BY OneMoves DEF IInv, Dialect, settings
<1>1. CASE Prepare(r) \/ Consume(r)
  <2>1. sent'[r] = <<>> /\ at'[r] \notin {"upstream", "refused"}
    BY <1>0, <1>1 DEF Prepare, Consume, Step, Functions, Sound, Early
  <2> QED BY <2>1 DEF Remembered
<1>2. CASE \/ Admit(r) \/ RefuseDraining(r) \/ PassUncounted(r) \/ RefuseScope(r) \/ PassThrough(r)
           \/ PrepareFails(r) \/ RefuseUnsized(r) \/ RefuseUnfit(r) \/ Accept(r) \/ UpstreamFails(r)
           \/ Relay(r) \/ GiveRefusal(r) \/ Return(r) \/ ReadRefusal(r)
  <2>1. UNCHANGED <<sent, prepared>>
    BY <1>2 DEF Admit, RefuseDraining, PassUncounted, RefuseScope, PassThrough, PrepareFails,
                RefuseUnsized, RefuseUnfit, Accept, UpstreamFails, Relay, GiveRefusal, Return,
                ReadRefusal, Refuse
  <2>2. at'[r] # "upstream" /\ (at'[r] = "refused" => at[r] = "upstream" /\ Reactive(r))
    BY <1>0, <1>2 DEF Admit, RefuseDraining, PassUncounted, RefuseScope, PassThrough, PrepareFails,
                RefuseUnsized, RefuseUnfit, Accept, UpstreamFails, Relay, GiveRefusal, Return,
                ReadRefusal, Refuse, Step, Functions
  <2> QED BY <2>1, <2>2, NothingSent
<1>3. CASE SendFirst(r)
  <2> DEFINE new == Ctx(r) # Absent /\ Ctx(r).modified /\ ~shadow
             b == IF new THEN [original |-> FALSE, size |-> Ctx(r).out]
                         ELSE [original |-> TRUE, size |-> input[r].size]
  <2>1. /\ at[r] = "ready" /\ at'[r] = "upstream" /\ Ctx(r)' = Ctx(r)
        /\ sent' = [sent EXCEPT ![r] = Append(@, b)] /\ sent[r] = <<>>
    BY <1>0, <1>3 DEF SendFirst, Send, Step, Functions, Ctx, Sound, Early
  <2>2. b \in Body /\ b.size = (IF new THEN Ctx(r).out ELSE input[r].size)
    BY SizesAre DEF Body
  <2>3. Ctx(r) # Absent => b.size = SentSize(r)
    BY <1>0, <2>2 DEF SentSize, Sound
  <2> HIDE DEF b
  <2>4. sent'[r] = Append(sent[r], b)
    BY <1>0, <2>1 DEF Functions
  <2>5. sent'[r] # <<>> /\ Len(sent'[r]) = 1 /\ Last(sent'[r]) = b /\ sent'[r][1] = b
    <3>1. sent[r] \in Seq(Body) /\ Len(sent[r]) = 0
      BY <2>1, SizesAre, EmptySeq
    <3>2. /\ sent'[r] # <<>> /\ Last(sent'[r]) = b /\ Len(sent'[r]) = Len(sent[r]) + 1
          /\ sent'[r][1] = b
      <4>1. /\ Append(sent[r], b) # <<>> /\ Last(Append(sent[r], b)) = b
            /\ Len(Append(sent[r], b)) = Len(sent[r]) + 1
            /\ sent[r] = <<>> => Append(sent[r], b)[1] = b
        BY <2>2, <3>1, AppendIs
      <4> QED BY <2>1, <2>4, <4>1
    <3> QED BY <3>1, <3>2
  <2>6. Ctx(r) # Absent => SampledSize(r)' = b.size
    BY <1>0, <2>1, <2>3, <2>5 DEF SampledSize, SentSize, Ctx
  <2>7. strict /\ ~shadow /\ Dialect(r) => Ctx(r) # Absent /\ b.size <= Ctx(r).threshold
    <3>1. ~Unsized(r) /\ ~Unfit(r)
      BY <1>0, <2>1 DEF Sound
    <3> QED BY <2>3, <3>1, SizesAre DEF Unsized, SizingRequired, Unfit, OverBudget, SentSize, Context, Size
  <2> QED BY <1>0, <2>1, <2>5, <2>6, <2>7 DEF Remembered, Last
<1>4. CASE ResendOriginal(r)
  <2> DEFINE b == [original |-> TRUE, size |-> input[r].size]
  <2>1. /\ at[r] = "refused" /\ at'[r] = "upstream" /\ Ctx(r)' = Ctx(r)
        /\ sent' = [sent EXCEPT ![r] = Append(@, b)]
        /\ sent[r] # <<>> /\ ~shadow /\ Ctx(r) # Absent /\ Len(sent[r]) = 1
    BY <1>0, <1>4 DEF ResendOriginal, MayResend, Send, Step, Functions, Ctx, Remembered
  <2>2. b \in Body /\ b.original = TRUE /\ b.size = input[r].size
    BY SizesAre DEF Body
  <2> HIDE DEF b
  <2>3. sent'[r] = Append(sent[r], b) /\ sent[r] \in Seq(Body)
    BY <1>0, <2>1 DEF Functions
  <2>4. sent'[r] # <<>> /\ Len(sent'[r]) = 2 /\ Last(sent'[r]) = b /\ sent'[r][1] = sent[r][1]
    BY <2>1, <2>2, <2>3, AppendIs
  <2>5. SampledSize(r)' = b.size
    BY <1>0, <2>2, <2>4 DEF SampledSize, Last
  <2> QED BY <1>0, <2>1, <2>4, <2>5 DEF Remembered, Last
<1>5. CASE Retry(r)
  <2>1. PICK n \in Harsher(Ctx(r)) : prepared' = [prepared EXCEPT ![r] = n] /\ Send(r, FALSE, n.out)
    BY <1>5 DEF Retry
  <2> DEFINE b == [original |-> FALSE, size |-> n.out]
  <2>2. n \in Context /\ n.threshold = Ctx(r).threshold /\ n.out \in Size
    BY <2>1 DEF Harsher, Context
  <2>3. /\ at[r] = "refused" /\ at'[r] = "upstream" /\ Ctx(r)' = n
        /\ sent' = [sent EXCEPT ![r] = Append(@, b)]
        /\ sent[r] # <<>> /\ ~shadow /\ Ctx(r) # Absent
    BY <1>0, <1>5, <2>1 DEF Retry, Send, Step, Functions, Ctx, Remembered
  <2>4. b \in Body /\ b.original = FALSE /\ b.size = n.out
    BY <2>2 DEF Body
  <2> HIDE DEF b
  <2>5. sent'[r] = Append(sent[r], b) /\ sent[r] \in Seq(Body)
    BY <1>0, <2>3 DEF Functions
  <2>6. sent'[r] # <<>> /\ Last(sent'[r]) = b /\ sent'[r][1] = sent[r][1]
    BY <2>3, <2>4, <2>5, AppendIs
  <2>7. SampledSize(r)' = b.size
    BY <1>0, <2>3, <2>4, <2>6 DEF SampledSize, Last, Ctx
  <2>8. n # Absent
    BY <2>2, AbsentAssumption
  <2> QED BY <1>0, <2>2, <2>3, <2>6, <2>7, <2>8 DEF Remembered, Last
<1> QED BY <1>1, <1>2, <1>3, <1>4, <1>5 DEF Forwarding

-----------------------------------------------------------------------------
(* The prefix store and the calibration                                    *)

\* What a thread writes to them.
LEMMA Writes ==
  ASSUME MInv, NEW r \in Request, Forwarding(r)
  PROVE  /\ samples' # samples =>
              /\ samples' = samples \union {[of |-> r, size |-> Last(sent[r]).size]}
              /\ sent' = sent /\ at'[r] \in Ended /\ sent[r] # <<>>
         /\ store' # store =>
              \E c \in Context :
                /\ store' = store \union {[size |-> c.out, capacity |-> InputCapacity(r)]}
                /\ ~shadow => Within(c.out, InputCapacity(r))
<1>0. Functions /\ Remembered(r)
  BY DEF MInv, IInv
<1>1. CASE Relay(r)
  <2>1. /\ at[r] = "upstream" /\ at'[r] \in Ended /\ sent' = sent /\ store' = store
        /\ \/ samples' = samples
           \/ /\ Ctx(r) # Absent
              /\ samples' = samples \union {[of |-> r, size |-> SampledSize(r)]}
    BY <1>0, <1>1 DEF Relay, Step, Functions, Ended
  <2> QED BY <1>0, <2>1 DEF Remembered
<1>2. CASE Accept(r)
  <2>1. samples' = samples /\ ~Unfit(r) /\ (Ctx(r) = Absent => store' = store)
        /\ (Ctx(r) # Absent => Publish(r, Ctx(r)))
    BY <1>2 DEF Accept
  <2>2. Ctx(r) # Absent => Ctx(r) \in Context /\ (~shadow => Within(Ctx(r).out, InputCapacity(r)))
    BY <2>1, SizesAre DEF MInv, Unfit, TooLarge, SentSize
  <2> QED BY <2>1, <2>2 DEF Publish
<1>3. CASE Retry(r)
  BY <1>3 DEF Retry, Harsher, Publish
<1>4. CASE ~Relay(r) /\ ~Accept(r) /\ ~Retry(r)
  <2>1. UNCHANGED <<samples, store>>
    BY <1>4 DEF Forwarding, Admit, RefuseDraining, PassUncounted, RefuseScope, Consume, Prepare, PassThrough,
            PrepareFails, RefuseUnsized, RefuseUnfit, SendFirst, UpstreamFails, ReadRefusal,
            ResendOriginal, GiveRefusal, Return, Refuse, shared
  <2> QED BY <2>1
<1> QED BY <1>1, <1>2, <1>3, <1>4

LEMMA CapacityTyped == ASSUME IInv, TypeOK, NEW r \in Request PROVE InputCapacity(r) \in Capacity
  BY DEF IInv, TypeOK, Functions, InputCapacity

LEMMA TypeMoves ==
  ASSUME MInv, NEW r \in Request, Forwarding(r)
  PROVE  TypeOK'
<1>0. /\ Functions /\ TypeOK /\ UNCHANGED settings /\ InputCapacity(r) \in Capacity
  BY OneMoves, CapacityTyped DEF MInv, IInv
<1>1. Functions'
  BY Moves DEF MInv
<1>2. failed' \in [Request -> BOOLEAN]
  BY <1>0 DEF TypeOK, Forwarding, Admit, RefuseDraining, PassUncounted, RefuseScope, Consume, Prepare,
     PassThrough, PrepareFails, RefuseUnsized, RefuseUnfit, Accept, SendFirst, UpstreamFails, Relay,
     ReadRefusal, ResendOriginal, Retry, GiveRefusal, Return, Refuse
<1>3. refusal' \in [Request -> {"none", "length", "other"}]
  BY <1>0 DEF TypeOK, Forwarding, Admit, RefuseDraining, PassUncounted, RefuseScope, Consume, Prepare,
     PassThrough, PrepareFails, RefuseUnsized, RefuseUnfit, Accept, SendFirst, UpstreamFails, Relay,
     ReadRefusal, ResendOriginal, Retry, GiveRefusal, Return, Refuse
<1>4. samples' \subseteq [of: Request, size: Size]
  <2>1. sent[r] # <<>> => Last(sent[r]).size \in Size
    <3>1. sent[r] \in Seq(Body) /\ Len(sent[r]) \in Nat
      BY SizesAre DEF MInv
    <3>2. sent[r] # <<>> => Len(sent[r]) \in 1..Len(sent[r])
      BY <3>1, EmptySeq
    <3>3. sent[r] # <<>> => Last(sent[r]) \in Body
      BY <3>1, <3>2, ElementOfSeq DEF Last
    <3> QED BY <3>3 DEF Body
  <2> QED BY <1>0, <2>1, Writes DEF TypeOK
<1>5. store' \subseteq [size: Size, capacity: Capacity]
  <2>1. \A c \in Context : [size |-> c.out, capacity |-> InputCapacity(r)] \in [size: Size, capacity: Capacity]
    BY <1>0 DEF Context
  <2>2. store \subseteq [size: Size, capacity: Capacity]
    BY <1>0 DEF TypeOK
  <2>3. CASE store' # store
    BY <2>1, <2>2, <2>3, Writes
  <2> QED BY <2>2, <2>3
<1>6. gate' \in {"open", "held", "closed"} /\ inside' \in Nat
  <2>1. CASE Admit(r)
    BY <1>0, <2>1 DEF TypeOK, Admit, Enter
  <2>2. CASE Return(r)
    BY <1>0, <2>2 DEF TypeOK, Return, Leave, gateVars
  <2>3. CASE ~Admit(r) /\ ~Return(r)
    BY <1>0, <2>3, Stays DEF TypeOK, gateVars
  <2> QED BY <2>1, <2>2, <2>3
<1> QED BY <1>0, <1>1, <1>2, <1>3, <1>4, <1>5, <1>6 DEF TypeOK, settings, Functions, Body

LEMMA InitMInv == Init => MInv
<1> SUFFICES ASSUME Init PROVE MInv
  OBVIOUS
<1>1. TypeOK
  <2>1. \A r \in Request : <<>> \in Seq(Body)
    BY EmptySeq
  <2> QED BY <2>1 DEF Init, TypeOK, GateInit, Place, Capacity, Reply, Body
<1>2. (\A r \in Request : Remembered(r)) /\ SamplesAreTrue /\ StoreFits
  BY DEF Init, Remembered, SamplesAreTrue, StoreFits
<1> QED BY <1>1, <1>2, InitIInv DEF MInv

LEMMA NextMInv == MInv /\ [Next]_vars => MInv'
<1> SUFFICES ASSUME MInv, [Next]_vars PROVE MInv'
  OBVIOUS
<1>0. IInv'
  BY NextIInv DEF MInv
<1>1. ASSUME NEW r \in Request, Forwarding(r) PROVE MInv'
  <2>1. ASSUME NEW q \in Request PROVE Remembered(q)'
    <3>1. CASE q = r
      BY <1>1, <3>1, RememberedMoves DEF MInv
    <3>2. CASE q # r
      BY <1>1, <3>2, OneMoves, RememberedFrame DEF MInv, IInv
    <3> QED BY <3>1, <3>2
  <2>2. SamplesAreTrue'
    <3>1. ASSUME NEW s \in samples PROVE at'[s.of] \in Ended /\ sent'[s.of] = sent[s.of]
      <4>1. s.of \in Request /\ at[s.of] \in Ended
        BY <3>1 DEF MInv, TypeOK, SamplesAreTrue
      <4>2. CASE s.of # r
        BY <1>1, <4>1, <4>2, OneMoves DEF MInv, IInv, Same
      <4>3. CASE s.of = r
        BY <1>1, <4>1, <4>3 DEF MInv, IInv, Functions, Ended, Step, Forwarding, Admit, RefuseDraining,
           PassUncounted, RefuseScope, Consume, Prepare, PassThrough, PrepareFails, RefuseUnsized,
           RefuseUnfit, Accept, SendFirst, UpstreamFails, Relay, ReadRefusal, ResendOriginal, Retry,
           GiveRefusal, Return, Refuse
      <4> QED BY <4>2, <4>3
    <3>2. \A s \in samples : at'[s.of] \in Ended /\ s.size = Last(sent'[s.of]).size
      BY <3>1 DEF MInv, SamplesAreTrue
    <3> QED BY <1>1, <3>2, Writes DEF SamplesAreTrue
  <2>3. StoreFits'
    <3>1. UNCHANGED shadow
      BY <1>1, OneMoves DEF MInv, IInv, settings
    <3> QED BY <1>1, <3>1, Writes DEF MInv, StoreFits, Within
  <2> QED BY <1>0, <1>1, <2>1, <2>2, <2>3, TypeMoves DEF MInv
<1>2. CASE Drain \/ UNCHANGED vars
  <2>0. UNCHANGED <<settings, request, store, samples>>
    BY <1>2 DEF Drain, vars, shared
  <2>1. ASSUME NEW r \in Request PROVE Remembered(r)'
    BY <2>0, RememberedFrame DEF MInv, request, Same
  <2>2. TypeOK'
    <3>1. gate' \in {"open", "held", "closed"} /\ inside' \in Nat
      BY <1>2 DEF MInv, TypeOK, vars, shared, Drain, Hold, Reopen, Close
    <3> QED BY <2>0, <3>1 DEF MInv, TypeOK, settings, request
  <2> QED BY <1>0, <2>0, <2>1, <2>2 DEF MInv, SamplesAreTrue, StoreFits, settings, request
<1> QED BY <1>1, <1>2 DEF Next

LEMMA MemoryInvariant == Spec => []MInv
<1> QED BY InitMInv, NextMInv, PTL DEF Spec

\* Strict mode sends no first body over the threshold, whatever failed to prepare it.
THEOREM Strictness == Spec => [](TypeOK /\ StrictHonoured)
<1>1. MInv => TypeOK /\ StrictHonoured
  BY DEF MInv, Remembered, StrictHonoured
<1> QED BY <1>1, MemoryInvariant, PTL

\* A sample is of the body that the provider counted, and no prefix is published
\* that does not fit the capacity it is for.
THEOREM Memory == Spec => []MemoryHonest
<1>1. MInv => MemoryHonest
  BY DEF MInv, SamplesAreTrue, StoreFits, MemoryHonest
<1> QED BY <1>1, MemoryInvariant, PTL
=============================================================================
