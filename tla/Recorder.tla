------------------------------ MODULE Recorder -------------------------------
(***************************************************************************)
(* The queue of observations between the request threads of the proxy and  *)
(* one background writer (Recorder in proxy_observations.rs).  A request   *)
(* never waits: it tries the queue's lock, drops what does not fit, and    *)
(* counts what it drops.  The writer owns the store, flushes batches, and  *)
(* keeps a batch for a later attempt when an append fails, which may have  *)
(* been committed all the same; the store takes an event once.             *)
(*                                                                         *)
(* Events are numbered in the order in which they are emitted.  A critical *)
(* section of the queue's lock is one action; that it is busy when another *)
(* thread tries it is a choice.  Failure codes, times and the counters of  *)
(* failures and recoveries are left out.                                   *)
(***************************************************************************)
EXTENDS Naturals, Sequences, FiniteSets

CONSTANTS
  Emitter,       \* request threads
  PendingLimit,  \* MAX_PENDING_EVENTS
  FlushLimit,    \* MAX_FLUSH_EVENTS
  MaxEvents,     \* bound: events emitted
  MaxTrouble     \* bound: failed opens and appends, panics

ASSUME RecorderAssumption ==
  /\ {PendingLimit, FlushLimit} \subseteq Nat \ {0} /\ {MaxEvents, MaxTrouble} \subseteq Nat
  /\ FlushLimit <= PendingLimit

VARIABLES
  queue,     \* RecorderShared.pending
  count,     \* pending_count
  dropped,   \* dropped
  emitted,   \* events so far
  emitter,   \* Emitter -> how far its notification is
  stopped, notified, token,  \* RecorderWake, and the writer's unpark permit
  closed,    \* the Recorder is dropped
  writer,    \* what the writer does
  stored,    \* the store's events
  trouble

recorderVars ==
  <<queue, count, dropped, emitted, emitter, stopped, notified, token, closed, writer, stored, trouble>>
wake == <<stopped, notified, token, closed>>
producers == <<emitted, emitter>>

WriterSteps == {"top", "flush", "append", "drain", "delay", "swap", "park",
                "unwound", "stopped", "ended"}
RecorderTypeOK ==
  /\ queue \in Seq(1..MaxEvents) /\ count \in Nat /\ dropped \in Nat
  /\ emitted \in 0..MaxEvents
  /\ emitter \in [Emitter -> {"idle", "pushed", "notified"}]
  /\ writer \in [step: WriterSteps, open: BOOLEAN, backoff: BOOLEAN, batch: 0..FlushLimit,
                 timed: BOOLEAN, rounds: Nat, before: Nat]
  /\ stored \subseteq 1..MaxEvents

Asleep == [step |-> "top", open |-> FALSE, backoff |-> FALSE, batch |-> 0, timed |-> FALSE,
           rounds |-> 0, before |-> 0]

RecorderInit ==
  /\ queue = <<>> /\ count = 0 /\ dropped = 0 /\ emitted = 0 /\ stored = {}
  /\ emitter = [e \in Emitter |-> "idle"]
  /\ notified = FALSE /\ token = FALSE /\ closed = FALSE /\ trouble = 0
  /\ \/ stopped = FALSE /\ writer = Asleep
     \/ stopped = TRUE /\ writer = [Asleep EXCEPT !.step = "ended"]   \* no thread

-----------------------------------------------------------------------------
(* Requests: emit_many_at and notify                                       *)

\* The n events that are emitted together, in as far as there is room for them.
Room == IF PendingLimit > Len(queue) THEN PendingLimit - Len(queue) ELSE 0
Fewer(n) == IF n < Room THEN n ELSE Room
Events(n) == [i \in 1..n |-> emitted + i]

Lose(n) == dropped' = dropped + n
EmitContended(n) ==
  /\ ~closed /\ emitted + n <= MaxEvents
  /\ emitted' = emitted + n /\ Lose(n)
  /\ UNCHANGED <<queue, count, emitter, wake, writer, stored, trouble>>

\* Under the lock: after the writer has stopped nothing is taken.
Emit(e, n) ==
  /\ ~closed /\ emitter[e] = "idle" /\ emitted + n <= MaxEvents
  /\ emitted' = emitted + n
  /\ IF stopped THEN Lose(n) /\ UNCHANGED <<queue, count, emitter>>
     ELSE /\ queue' = queue \o Events(Fewer(n)) /\ count' = count + Fewer(n)
          /\ Lose(n - Fewer(n))
          /\ emitter' = [emitter EXCEPT ![e] = "pushed"]
  /\ UNCHANGED <<wake, writer, stored, trouble>>

Notify(e) ==
  /\ emitter[e] = "pushed"
  /\ notified' = TRUE /\ emitter' = [emitter EXCEPT ![e] = "notified"]
  /\ UNCHANGED <<queue, count, dropped, emitted, stopped, token, closed, writer, stored, trouble>>

NoToken == token                                                     \* Mutant
Token == TRUE
Unpark1(e) ==
  /\ emitter[e] = "notified"
  /\ token' = Token /\ emitter' = [emitter EXCEPT ![e] = "idle"]
  /\ UNCHANGED <<queue, count, dropped, emitted, stopped, notified, closed, writer, stored, trouble>>

\* The Recorder goes when no request has it, and does not wait for the writer,
\* which looks at `stopped` before it looks at anything else.
DropRecorder ==
  /\ ~closed /\ \A e \in Emitter : emitter[e] = "idle"
  /\ closed' = TRUE /\ stopped' = TRUE /\ notified' = TRUE /\ token' = TRUE
  /\ UNCHANGED <<queue, count, dropped, producers, writer, stored, trouble>>

-----------------------------------------------------------------------------
(* The writer                                                              *)

WriterAt(step) == writer.step = step
WriterIs(w) == writer' = w
Shutdown == writer.rounds > 0
Outside == UNCHANGED <<producers, dropped>>

Waiting == {queue[i] : i \in 1..Len(queue)}
Rounds == (PendingLimit + FlushLimit - 1) \div FlushLimit

\* The head of the loop.  A writer that is stopped makes as many attempts as a
\* full queue needs.
Top ==
  /\ WriterAt("top")
  /\ WriterIs(IF ~stopped THEN [writer EXCEPT !.step = "flush"]
              ELSE IF count = 0 THEN [writer EXCEPT !.step = "unwound"]
              ELSE [writer EXCEPT !.step = "flush", !.rounds = Rounds, !.before = count])
  /\ UNCHANGED <<queue, count, wake, stored, trouble>> /\ Outside

\* Where a flush leads: on to the next attempt of a shutdown as long as the
\* queue gets shorter, else to the pause.
After(w, left) ==
  IF ~Shutdown THEN [w EXCEPT !.step = "delay", !.batch = 0]
  ELSE IF left >= w.before \/ left = 0 \/ w.rounds = 1
       THEN [w EXCEPT !.step = "unwound", !.batch = 0]
  ELSE [w EXCEPT !.step = "flush", !.batch = 0, !.rounds = @ - 1, !.before = left]

Troubled == trouble < MaxTrouble /\ trouble' = trouble + 1
Failed == WriterIs(After([writer EXCEPT !.backoff = TRUE], count))
Succeeded == [writer EXCEPT !.backoff = FALSE]

\* The store is opened when it is not, and a batch is copied under the lock.
Flush ==
  /\ WriterAt("flush")
  /\ \/ writer.backoff /\ ~Shutdown /\ WriterIs(After(writer, count)) /\ UNCHANGED trouble
     \/ ~(writer.backoff /\ ~Shutdown) /\ ~writer.open /\ Failed /\ Troubled
     \/ /\ ~(writer.backoff /\ ~Shutdown)
        /\ LET n == IF Len(queue) < FlushLimit THEN Len(queue) ELSE FlushLimit
           IN IF n = 0 THEN WriterIs(After([Succeeded EXCEPT !.open = TRUE], count))
              ELSE WriterIs([writer EXCEPT !.step = "append", !.open = TRUE, !.batch = n])
        /\ UNCHANGED trouble
  /\ UNCHANGED <<queue, count, wake, stored>> /\ Outside

Batch == {queue[i] : i \in 1..writer.batch}

\* append_batch, which may fail after it has committed.
AppendBatch ==
  /\ WriterAt("append")
  /\ \/ stored' = stored \cup Batch
        /\ WriterIs([writer EXCEPT !.step = "drain"]) /\ UNCHANGED trouble
     \/ stored' \in {stored, stored \cup Batch} /\ Failed /\ Troubled
  /\ UNCHANGED <<queue, count, wake>> /\ Outside

AllThatIsThere == Len(queue)                                           \* Mutant
Drained == writer.batch
Drain ==
  /\ WriterAt("drain")
  /\ queue' = SubSeq(queue, Drained + 1, Len(queue)) /\ count' = count - Drained
  /\ WriterIs(After(Succeeded, count - Drained))
  /\ UNCHANGED <<wake, stored, trouble>> /\ Outside

\* next_flush_delay: without a limit only when the store is open and nothing is
\* pending.
Delay ==
  /\ WriterAt("delay")
  /\ WriterIs([writer EXCEPT !.step = "swap", !.timed = ~(writer.open /\ count = 0)])
  /\ UNCHANGED <<queue, count, wake, stored, trouble>> /\ Outside

Swap ==
  /\ WriterAt("swap")
  /\ IF stopped \/ notified THEN WriterIs([writer EXCEPT !.step = "top"])
     ELSE WriterIs([writer EXCEPT !.step = "park"])
  /\ notified' = (notified /\ stopped)
  /\ UNCHANGED <<queue, count, stopped, token, closed, stored, trouble>> /\ Outside

\* park returns for a permit, park_timeout also when the backoff is over.
Park ==
  /\ WriterAt("park")
  /\ token \/ (writer.timed /\ ~writer.backoff)
  /\ token' = FALSE
  /\ WriterIs([writer EXCEPT !.step = "top"])
  /\ UNCHANGED <<queue, count, stopped, notified, closed, stored, trouble>> /\ Outside

BackoffEnds ==
  /\ writer.backoff
  /\ WriterIs([writer EXCEPT !.backoff = FALSE])
  /\ UNCHANGED <<queue, count, wake, stored, trouble>> /\ Outside

\* A panic inside the store; nothing is poisoned that matters.
WriterPanics ==
  /\ writer.step \in {"flush", "append"} /\ Troubled
  /\ stored' \in {stored, stored \cup Batch}
  /\ WriterIs([writer EXCEPT !.step = "unwound", !.batch = 0])
  /\ UNCHANGED <<queue, count, wake>> /\ Outside

\* The end of its thread: nobody adds any more, and what is left is counted.
StopQueue ==
  /\ WriterAt("unwound")
  /\ stopped' = TRUE
  /\ WriterIs([writer EXCEPT !.step = "stopped"])
  /\ UNCHANGED <<queue, count, notified, token, closed, stored, trouble>> /\ Outside

Clear ==
  /\ WriterAt("stopped")
  /\ queue' = <<>> /\ count' = 0 /\ dropped' = dropped + Len(queue)
  /\ WriterIs([writer EXCEPT !.step = "ended"])
  /\ UNCHANGED <<wake, producers, stored, trouble>>

WriterStep ==
  \/ Top \/ Flush \/ AppendBatch \/ Drain \/ Delay \/ Swap \/ Park \/ StopQueue \/ Clear
RecorderNext ==
  \/ \E n \in 1..2 : EmitContended(n) \/ \E e \in Emitter : Emit(e, n)
  \/ \E e \in Emitter : Notify(e) \/ Unpark1(e)
  \/ DropRecorder
  \/ WriterStep \/ BackoffEnds \/ WriterPanics

\* The store's calls return, time passes, and a thread that has pushed goes on.
RecorderFairness ==
  /\ WF_recorderVars(WriterStep) /\ WF_recorderVars(BackoffEnds)
  /\ \A e \in Emitter : WF_recorderVars(Notify(e) \/ Unpark1(e))
RecorderSpec == RecorderInit /\ [][RecorderNext]_recorderVars /\ RecorderFairness

-----------------------------------------------------------------------------
(* Properties *)

\* No observation goes without a trace: it is in the store, waits, or is
\* counted as dropped.  One whose append failed may be stored and counted.
NothingVanishes ==
  LET waiting == Waiting \ stored
  IN /\ Cardinality(stored) + Cardinality(waiting) + dropped >= emitted
     /\ trouble = 0 => Cardinality(stored) + Cardinality(waiting) + dropped = emitted
     /\ count = Len(queue)

\* What waits is stored or counted in the end, though nobody emits any more and
\* nobody waits for the writer.
EverythingSettles == queue # <<>> ~> queue = <<>>
=============================================================================
