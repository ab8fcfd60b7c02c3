---------------------------- MODULE MCOperations ----------------------------
(***************************************************************************)
(* What must outlast the process that does it: the snapshot vault, the     *)
(* copies made with it, the requests that ask a provider to compact a      *)
(* session of its own, and the watcher that decides to send them.  "part"  *)
(* says which one moves.                                                   *)
(* Vault has two processes and two transcripts, the second being the first *)
(* one with more at its end, so that both share a chunk, and one of them   *)
(* crashes or the power is lost (both, for the pins).                      *)
(* Native has two processes on two sessions, one of a provider that gives  *)
(* evidence, two operations each, one power loss and three faults, one if  *)
(* both sessions are used.  Watch has one session, in two lanes, one of    *)
(* which an older state file says was once dispatched, two writes and one  *)
(* restart or another configuration.  Copies has two calls and two copies  *)
(* to one path, two lapses, one edit and one power loss.                   *)
(***************************************************************************)
EXTENDS Vault, Native, Watch, Copies, TLC

CONSTANTS p1, p2, short, long, c1, c2, stream, tA, tB, all, one, claude, Parts,
  MaxMishaps  \* bound: crashes and power losses of the vault together
VARIABLE part

MCPathOf == (tA :> claude) @@ (tB :> claude)
MCChunksOf == (short :> {c1}) @@ (long :> {c1, c2})
Symmetry == Permutations({p1, p2})

OperationsInit ==
  /\ part \in Parts
  /\ Init /\ NativeInit /\ WatchInit /\ CopiesInit

OperationsNext ==
  /\ UNCHANGED part
  /\ \/ part = "vault" /\ Next /\ crashes' + outages' <= MaxMishaps /\ UNCHANGED <<nvars, wvars, copyVars>>
     \/ /\ part = "native" /\ NativeNext /\ (faults' <= 1 \/ artifacts' \subseteq Codex)
        /\ UNCHANGED <<vars, wvars, copyVars>>
     \/ part = "watch" /\ WatchNext /\ (config' = 1 \/ stops' = 0) /\ UNCHANGED <<vars, nvars, copyVars>>
     \/ part = "copies" /\ CopyNext /\ UNCHANGED <<vars, nvars, wvars>>

OperationsSpec ==
  OperationsInit /\ [][OperationsNext]_<<part, vars, nvars, wvars, copyVars>>
=============================================================================
