-------------------------------- MODULE Gate --------------------------------
(***************************************************************************)
(* What the proxy promises about admission, without epochs, owners, leases *)
(* or clocks.  Inference passes through a gate that is open, held shut by  *)
(* somebody who may still change their mind, or closed for good because a  *)
(* stop of the process may be under way.                                   *)
(***************************************************************************)
EXTENDS Integers

VARIABLES
  gate,     \* "open", "held" or "closed"
  inside    \* inference requests past the gate and not yet answered

gateVars == <<gate, inside>>

GateInit == gate = "open" /\ inside = 0

\* A request passes only an open gate.
Enter == gate = "open" /\ inside' = inside + 1 /\ UNCHANGED gate

\* A request may finish whatever the gate is.
Leave == inside > 0 /\ inside' = inside - 1 /\ UNCHANGED gate

\* Holding does not wait for the requests already inside.
Hold == gate = "open" /\ gate' = "held" /\ UNCHANGED inside

Reopen == gate = "held" /\ gate' = "open" /\ UNCHANGED inside

\* Only a held gate with nobody inside closes, and nothing opens it again.
Close == gate = "held" /\ inside = 0 /\ gate' = "closed" /\ UNCHANGED inside

GateNext == Enter \/ Leave \/ Hold \/ Reopen \/ Close

GateSpec == GateInit /\ [][GateNext]_gateVars
=============================================================================
