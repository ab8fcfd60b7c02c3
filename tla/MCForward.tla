----------------------------- MODULE MCForward -----------------------------
(***************************************************************************)
(* An instance of Forward: one request with every setting and sizes on     *)
(* both sides of its capacity and its threshold, and a drain meanwhile.    *)
(***************************************************************************)
EXTENDS Forward
=============================================================================
