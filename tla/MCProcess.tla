----------------------------- MODULE MCProcess -----------------------------
(***************************************************************************)
(* Five parts of one proxy process: its drain admission, its bounded       *)
(* resources, the calibration of its estimates, the queue of its           *)
(* observations, and the owner of its sleep assertion.  They share no      *)
(* state, so that their product would show nothing that each alone does    *)
(* not: "part" says which one moves.                                       *)
(*                                                                         *)
(* Admission has two owners, three grants, and times just long enough for  *)
(* a renewal to be cut short by the deadline, for a commit to come too     *)
(* late, and for an expired lease to linger unobserved.  Capacity has      *)
(* three connections for two forwarding slots and a reserve of one, one    *)
(* worker for all of them, and a memory budget that two bodies, or one     *)
(* body and its copy, exhaust.  Calibration has the constants of           *)
(* calibrate.rs and counts on both sides of every limit.  Recorder has two *)
(* threads that emit one or two of three events into a queue of two,       *)
(* flushed one by one, and two failures; Power has two requests and two    *)
(* failures.                                                               *)
(***************************************************************************)
EXTENDS Admission, Capacity, Calibration, Recorder, Power

VARIABLE part

MCEstimate == {999, 1000}
MCReported == {249, 250, 1007, 2600, 4000, 4001}

all == <<part, vars, capacityVars, calibrationVars, recorderVars, powerVars>>

ProcessInit ==
  /\ part \in {"admission", "capacity", "calibration", "recorder", "power"}
  /\ Init /\ CapacityInit /\ CalibrationInit /\ RecorderInit /\ PowerInit
  /\ heard.key = CHOOSE k \in Key : TRUE
  /\ part # "recorder" => ~stopped
  /\ part # "power" => owner = "ended"

Alone(p, A) ==
  /\ part = p /\ A /\ UNCHANGED part
  /\ p # "admission" => UNCHANGED vars
  /\ p # "capacity" => UNCHANGED capacityVars
  /\ p # "calibration" => UNCHANGED calibrationVars
  /\ p # "recorder" => UNCHANGED recorderVars
  /\ p # "power" => UNCHANGED powerVars

ProcessNext ==
  \/ Alone("admission", Next)
  \/ Alone("capacity", CapacityNext)
  \/ Alone("calibration", CalibrationNext)
  \/ Alone("recorder", RecorderNext)
  \/ Alone("power", PowerNext)

\* No stronger than FairSpec, FairCapacity, RecorderFairness and PowerFairness:
\* as one part only ever moves, a condition on each of several parts is one on
\* whichever of them it is, and one on several threads together is weaker.
DropOf(c) == \E j \in Jobs : j[1] = c /\ Drop(j)
ProcessSpec ==
  /\ ProcessInit /\ [][ProcessNext]_all
  /\ WF_all(Alone("admission", Tick) \/ Alone("recorder", WriterStep) \/ Alone("power", OwnerSteps))
  /\ WF_all(Alone("recorder", BackoffEnds) \/ Alone("power", RetryIsDue))
  /\ WF_all(Alone("recorder", \E e \in Emitter : Notify(e) \/ Unpark1(e)))
  /\ \A c \in Conn :
       WF_all(Alone("capacity", (at[c] # "new" /\ (Connection(c) \/ Request(c))) \/ DropOf(c)))
=============================================================================
