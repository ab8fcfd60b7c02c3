------------------------------ MODULE Forward ------------------------------
(***************************************************************************)
(* One forwarded request, from admission to its answer (forward,           *)
(* prepare_scoped, publish_prepared, reactive, reactive_step and           *)
(* relay_observed of proxy.rs), and any number of them at the gate, the    *)
(* prefix store and the calibration they share.                            *)
(*                                                                         *)
(* The engine appears as the results its prepare and reactive can return,  *)
(* the pools as the ways a job can fail, the provider as any answer to any *)
(* body.  Bodies are known by their size: the estimate, in tokens, that    *)
(* the checks of the code compare (estimates and capacities already have   *)
(* the calibration ratio applied).  Admission implements Gate, and what    *)
(* the drain does to it is Gate's.                                         *)
(***************************************************************************)
EXTENDS Gate, FiniteSets, Sequences

CONSTANTS
  Request,   \* requests that ever reach forward
  MaxSize,   \* sizes are 1..MaxSize
  Unknown,   \* an input capacity the proxy has not been told
  Absent     \* no prepared context (Option::None)

ASSUME SizeAssumption == MaxSize \in Nat \ {0}
ASSUME UnknownAssumption == Unknown \notin Nat
ASSUME RequestAssumption == IsFiniteSet(Request)

Size == 1..MaxSize
Capacity == 0..MaxSize \union {Unknown}

\* "dialect" is a path with a body the proxy can rewrite; "compact" is the
\* provider's own compaction, inference too, but never rewritten.
Kind == {"dialect", "compact", "other"}
Input == [kind: Kind, scoped: BOOLEAN, oversized: BOOLEAN, size: Size]

\* What the engine prepared (RequestCtx): the size it leaves, whether that is
\* another list than the original, whether a compaction ran, the highest rung,
\* the threshold it compacted for, and whether the head alone is too large.
Context == [out: Size, modified: BOOLEAN, compacted: BOOLEAN, rung: 0..3,
            threshold: 0..MaxSize, floorOver: BOOLEAN]
ASSUME AbsentAssumption == Absent \notin Context

Place == {"new", "admitted", "scoped", "prepared", "ready", "upstream", "refused",
          "returning", "done"}
Reply == {"none", "local503", "local400", "badGateway", "relayed", "disconnected"}

VARIABLES
  shadow, strict, window,  \* settings of the process
  at,        \* where a request's thread is
  input,     \* the request
  decision,  \* the capacity its context scope grants
  prepared,  \* the context, or Absent
  failed,    \* preparation_unavailable
  sent,      \* bodies sent upstream: whether the original, and the size
  refusal,   \* what the last refused response says, or unreadable
  reply,     \* how the client was answered
  performed, \* how often the provider has, or may have, done the inference
  store,     \* sizes of published prefixes, with the capacity they are for
  samples    \* calibration samples: the request and the size it was sampled at

settings == <<shadow, strict, window>>
shared == <<gate, inside, store, samples>>
request == <<at, input, decision, prepared, failed, sent, refusal, reply, performed>>
vars == <<settings, request, shared>>

TypeOK ==
  /\ shadow \in BOOLEAN /\ strict \in BOOLEAN /\ window \in Capacity
  /\ at \in [Request -> Place]
  /\ input \in [Request -> Input]
  /\ decision \in [Request -> Capacity]
  /\ prepared \in [Request -> Context \union {Absent}]
  /\ failed \in [Request -> BOOLEAN]
  /\ sent \in [Request -> Seq([original: BOOLEAN, size: Size])]
  /\ refusal \in [Request -> {"none", "length", "other"}]
  /\ reply \in [Request -> Reply]
  /\ performed \in [Request -> Nat]
  /\ store \subseteq [size: Size, capacity: Capacity]
  /\ samples \subseteq [of: Request, size: Size]
  /\ gate \in {"open", "held", "closed"} /\ inside \in Nat

Init ==
  /\ GateInit
  /\ shadow \in BOOLEAN /\ strict \in BOOLEAN /\ window \in Capacity
  /\ at = [r \in Request |-> "new"]
  /\ input \in [Request -> Input]
  /\ decision = [r \in Request |-> Unknown]
  /\ prepared = [r \in Request |-> Absent]
  /\ failed = [r \in Request |-> FALSE]
  /\ sent = [r \in Request |-> <<>>]
  /\ refusal = [r \in Request |-> "none"]
  /\ reply = [r \in Request |-> "none"]
  /\ performed = [r \in Request |-> 0]
  /\ store = {} /\ samples = {}

-----------------------------------------------------------------------------
Step(r, from, to) == at[r] = from /\ at' = [at EXCEPT ![r] = to]
Answer(r, what) == reply' = [reply EXCEPT ![r] = what]

Dialect(r) == input[r].kind = "dialect"
Inference(r) == input[r].kind # "other"
Scoped(r) == Dialect(r) /\ input[r].scoped
Ctx(r) == prepared[r]

\* The hard input capacity of a prepared request.
InputCapacity(r) ==
  IF decision[r] # Unknown THEN decision[r] ELSE window

Within(size, capacity) == capacity # Unknown => size <= capacity

\* Nothing unsized may be sent.
SizingRequiredByCapacity(r) == window # Unknown \/ decision[r] # Unknown  \* Mutant
SizingRequired(r) ==
  window # Unknown \/ decision[r] # Unknown \/ (strict /\ ~shadow)

\* In shadow mode the original goes out and is what must fit.
SentSize(r) == IF shadow THEN input[r].size ELSE Ctx(r).out

TooLarge(r) == ~(Within(SentSize(r), InputCapacity(r)) /\ ~Ctx(r).floorOver)

OverBudget(c) == c.out > c.threshold

-----------------------------------------------------------------------------
(* Admission.                                                              *)

Admit(r) ==
  /\ Inference(r)
  /\ Enter
  /\ Step(r, "new", "admitted")
  /\ UNCHANGED <<settings, input, decision, prepared, failed, sent, refusal, reply,
                 performed, store, samples>>

RefuseDraining(r) ==
  /\ Inference(r)
  /\ gate # "open"
  /\ Step(r, "new", "done")
  /\ Answer(r, "local503")
  /\ UNCHANGED <<settings, input, decision, prepared, failed, sent, refusal, performed, shared>>

PassUncounted(r) ==
  /\ ~Inference(r)
  /\ Step(r, "new", "admitted")
  /\ UNCHANGED <<settings, input, decision, prepared, failed, sent, refusal, reply, performed, shared>>

\* A local refusal, in the status that says whether to retry.
Refuse(r, what) ==
  /\ Answer(r, what)
  /\ UNCHANGED <<settings, input, decision, prepared, failed, sent, refusal, performed, shared>>

-----------------------------------------------------------------------------
(* The context scope and the prepared context.                             *)

RefuseScope(r) ==
  /\ Scoped(r)
  /\ Step(r, "admitted", "returning")
  /\ \E what \in IF input[r].oversized THEN {"local400"} ELSE {"local503", "local400"} :
       Refuse(r, what)

Consume(r) ==
  /\ Scoped(r) => ~input[r].oversized
  /\ Step(r, "admitted", "scoped")
  /\ \E c \in IF Scoped(r) THEN Capacity ELSE {Unknown} :
       decision' = [decision EXCEPT ![r] = c]
  /\ UNCHANGED <<settings, input, prepared, failed, sent, refusal, reply, performed, shared>>

\* What prepare_policy can return for a request.
Prepares(r) ==
  {c \in Context :
    /\ ~c.modified => c.out = input[r].size
    /\ c.compacted => c.modified
    /\ c.rung > 0 => c.compacted
    /\ c.rung = 3 => strict
    /\ window # Unknown \/ decision[r] # Unknown => c.threshold <= InputCapacity(r)
    /\ c.floorOver => InputCapacity(r) # Unknown}

Prepare(r) ==
  /\ Dialect(r) /\ ~input[r].oversized
  /\ Step(r, "scoped", "prepared")
  /\ \E c \in Prepares(r) : prepared' = [prepared EXCEPT ![r] = c]
  /\ UNCHANGED <<settings, input, decision, failed, sent, refusal, reply, performed, shared>>

\* A path that is not rewritten, or a body that cannot be: compressed, too
\* large, not an object, without a history.
PassThrough(r) ==
  /\ Step(r, "scoped", "prepared")
  /\ UNCHANGED <<settings, input, decision, prepared, failed, sent, refusal, reply, performed, shared>>

\* No worker, no memory, no calibration, a panic, or a timeout.
PrepareFails(r) ==
  /\ Dialect(r) /\ ~input[r].oversized
  /\ Step(r, "scoped", "prepared")
  /\ failed' = [failed EXCEPT ![r] = TRUE]
  /\ UNCHANGED <<settings, input, decision, prepared, sent, refusal, reply, performed, shared>>

Unsized(r) == Dialect(r) /\ SizingRequired(r) /\ Ctx(r) = Absent
Unfit(r) ==
  /\ Ctx(r) # Absent
  /\ TooLarge(r) \/ (OverBudget(Ctx(r)) /\ strict /\ ~shadow)

RefuseUnsized(r) ==
  /\ Step(r, "prepared", "returning")
  /\ Unsized(r)
  /\ Refuse(r, IF failed[r] THEN "local503" ELSE "local400")

RefuseUnfit(r) ==
  /\ Step(r, "prepared", "returning")
  /\ Unfit(r)
  /\ Refuse(r, "local400")

\* publish_prepared: a busy store skips the write.
Publish(r, c) ==
  \/ UNCHANGED store
  \/ /\ c.compacted
     /\ store' = store \union {[size |-> c.out, capacity |-> InputCapacity(r)]}

Accept(r) ==
  /\ Step(r, "prepared", "ready")
  /\ ~Unsized(r) /\ ~Unfit(r)
  /\ IF Ctx(r) = Absent THEN UNCHANGED store ELSE Publish(r, Ctx(r))
  /\ UNCHANGED <<settings, input, decision, prepared, failed, sent, refusal, reply, performed, gate,
                 inside, samples>>

-----------------------------------------------------------------------------
(* Upstream.                                                               *)

Send(r, original, size) ==
  sent' = [sent EXCEPT ![r] = Append(@, [original |-> original, size |-> size])]

\* The outgoing body, or the request's own.
SendFirst(r) ==
  /\ Step(r, "ready", "upstream")
  /\ IF Ctx(r) # Absent /\ Ctx(r).modified /\ ~shadow
       THEN Send(r, FALSE, Ctx(r).out)
       ELSE Send(r, TRUE, input[r].size)
  /\ UNCHANGED <<settings, input, decision, prepared, failed, refusal, reply, performed, shared>>

\* No response: the provider may have done its work all the same.
UpstreamFails(r) ==
  /\ Step(r, "upstream", "returning")
  /\ Answer(r, "badGateway")
  /\ \E n \in 0..1 : performed' = [performed EXCEPT ![r] = @ + n]
  /\ UNCHANGED <<settings, input, decision, prepared, failed, sent, refusal, shared>>

\* The size an answer is sampled at: original_attempt's, or the context's.
SampledSizePrepared(r) == Ctx(r).out               \* Mutant
SampledSize(r) ==
  IF shadow \/ (Len(sent[r]) > 1 /\ sent[r][Len(sent[r])].original)
    THEN input[r].size ELSE Ctx(r).out

\* reactive takes a 400 over, once for the original and while retries last.
\* A 400 to the original that was sent again is relayed.
Reactive(r) ==
  /\ Ctx(r) # Absent /\ ~shadow
  /\ Len(sent[r]) > 1 => ~sent[r][Len(sent[r])].original

\* Any other answer, and a 400 that cannot be read, is passed on; the client
\* may be gone.  Usage is sampled from a complete 200.
Relay(r) ==
  /\ Step(r, "upstream", "returning")
  /\ reply' \in {[reply EXCEPT ![r] = w] : w \in {"relayed", "disconnected"}}
  /\ \E n \in 0..1 : performed' = [performed EXCEPT ![r] = @ + n]
  /\ \/ UNCHANGED samples
     \/ /\ reply'[r] = "relayed" /\ Ctx(r) # Absent /\ performed'[r] = performed[r] + 1
        /\ samples' = samples \union {[of |-> r, size |-> SampledSize(r)]}
  /\ UNCHANGED <<settings, input, decision, prepared, failed, sent, refusal, gate, inside,
                 store>>

\* A 400 whose body was read whole.
ReadRefusal(r) ==
  /\ Step(r, "upstream", "refused")
  /\ Reactive(r)
  /\ \E what \in {"length", "other"} : refusal' = [refusal EXCEPT ![r] = what]
  /\ UNCHANGED <<settings, input, decision, prepared, failed, sent, reply, performed, shared>>

\* The first refusal of a changed list, not for its length.
MayResendAnySize(r) ==   \* Mutant
  Len(sent[r]) = 1 /\ Ctx(r).modified /\ refusal[r] = "other"
MayResend(r) ==
  /\ Len(sent[r]) = 1
  /\ Ctx(r).modified
  /\ refusal[r] = "other"
  /\ Within(input[r].size, InputCapacity(r))

ResendOriginal(r) ==
  /\ Step(r, "refused", "upstream")
  /\ MayResend(r)
  /\ Send(r, TRUE, input[r].size)
  /\ UNCHANGED <<settings, input, decision, prepared, failed, refusal, reply, performed, shared>>

\* Engine::reactive: a first compaction if none ran, then rung by rung, each
\* skipped if it changes nothing; the last shortens a summary that is still
\* over the threshold.
Harsher(c) ==
  {n \in Context :
    /\ n.threshold = c.threshold /\ n.floorOver = c.floorOver
    /\ n.modified /\ n.compacted
    /\ \/ ~c.compacted /\ c.rung = 0 /\ n.rung = 0
       \/ n.rung > c.rung /\ n.rung < 3
       \/ n.rung = 3 /\ c.rung < 3 /\ c.compacted /\ OverBudget(c)}

Retry(r) ==
  /\ Step(r, "refused", "upstream")
  /\ refusal[r] = "length"
  /\ \E n \in Harsher(Ctx(r)) :
       /\ Within(n.out, InputCapacity(r))
       /\ prepared' = [prepared EXCEPT ![r] = n]
       /\ Send(r, FALSE, n.out)
       /\ Publish(r, n)
  /\ UNCHANGED <<settings, input, decision, failed, refusal, reply, performed, gate,
                 inside, samples>>

\* Mutant: a refusal for another reason is left to the resend.
GiveRefusalOfLength(r) ==
  /\ Step(r, "refused", "returning")
  /\ refusal[r] = "length"
  /\ \E w \in {"relayed", "disconnected"} : Refuse(r, w)

\* No harsher list, none that fits, no worker for it, or a timeout: the
\* client is given the refusal.
GiveRefusal(r) ==
  /\ Step(r, "refused", "returning")
  /\ ~MayResend(r)
  /\ \E w \in {"relayed", "disconnected"} : Refuse(r, w)

\* Mutant: the guard of a client that went away is kept.
ReturnUnlessDisconnected(r) ==
  /\ Step(r, "returning", "done")
  /\ IF Inference(r) /\ reply[r] # "disconnected" THEN Leave ELSE UNCHANGED gateVars
  /\ UNCHANGED <<settings, input, decision, prepared, failed, sent, refusal, reply,
                 performed, store, samples>>

\* The guards are dropped when forward returns.
Return(r) ==
  /\ Step(r, "returning", "done")
  /\ IF Inference(r) THEN Leave ELSE UNCHANGED gateVars
  /\ UNCHANGED <<settings, input, decision, prepared, failed, sent, refusal, reply, performed, store,
                 samples>>

-----------------------------------------------------------------------------
Forwarding(r) ==
  \/ Admit(r) \/ RefuseDraining(r) \/ PassUncounted(r) \/ RefuseScope(r) \/ Consume(r)
  \/ Prepare(r) \/ PassThrough(r) \/ PrepareFails(r) \/ RefuseUnsized(r)
  \/ RefuseUnfit(r) \/ Accept(r) \/ SendFirst(r) \/ UpstreamFails(r) \/ Relay(r)
  \/ ReadRefusal(r) \/ ResendOriginal(r) \/ Retry(r) \/ GiveRefusal(r) \/ Return(r)

\* What drains do to the gate meanwhile.
Drain == (Hold \/ Reopen \/ Close) /\ UNCHANGED <<settings, request, store, samples>>

Next == Drain \/ \E r \in Request : Forwarding(r)

Spec == Init /\ [][Next]_vars

\* Every wait of forward has a deadline: transforms, the scope's storage, the
\* client's socket, and curl (--max-time).
FairSpec == Spec /\ \A r \in Request : WF_vars(Forwarding(r))

-----------------------------------------------------------------------------
(* Properties *)

Last(s) == s[Len(s)]

\* No body above a known input capacity goes upstream: neither compacted,
\* nor unsized, nor as a fallback or a retry, nor in shadow mode.
CapacityRespected ==
  \A r \in Request : Dialect(r) /\ InputCapacity(r) # Unknown =>
    \A i \in DOMAIN sent[r] : sent[r][i].size <= InputCapacity(r)

\* Strict mode sends no first body that is over its threshold.
StrictHonoured ==
  \A r \in Request : strict /\ ~shadow /\ Dialect(r) /\ sent[r] # <<>> =>
    Ctx(r) # Absent /\ sent[r][1].size <= Ctx(r).threshold

\* A refusal by the proxy means that nothing was sent: it says so, and asks
\* the client to retry.
RefusedMeansUnsent ==
  \A r \in Request : reply[r] \in {"local503", "local400"} => sent[r] = <<>>

\* The provider does a request's inference at most once.
PerformedOnce == \A r \in Request : performed[r] <= 1

\* What later requests go by is true: the provider's count is compared with the
\* size of the body it counted, and no list that was refused for its size is
\* published for them to start from.
MemoryHonest ==
  /\ \A s \in samples : s.size = Last(sent[s.of]).size
  /\ ~shadow => \A e \in store : e.capacity # Unknown => e.size <= e.capacity

\* Once the gate is closed, because the process is about to be stopped, no
\* inference is under way and none begins.
ClosedIsQuiet ==
  gate = "closed" =>
    \A r \in Request : Inference(r) => at[r] \in {"new", "done"}

\* Every request is answered, whatever fails.
EveryRequestAnswered ==
  \A r \in Request : at[r] = "admitted" ~> (at[r] = "done" /\ reply[r] # "none")

\* A gate that stays shut runs empty.
DrainQuiesces == [](gate # "open") ~> inside = 0
=============================================================================
