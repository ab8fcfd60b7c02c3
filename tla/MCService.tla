----------------------------- MODULE MCService -----------------------------
(***************************************************************************)
(* The managed service, once as one stop of it in detail and once as whole *)
(* upgrades of it; the context reservations that it serves; the reading of *)
(* a provider's event stream; the switch that routes the clients; and the  *)
(* store of observations.  They share no state: "part" says which one      *)
(* moves.                                                                  *)
(*                                                                         *)
(* ServiceStop has three controllers and three incarnations of the         *)
(* process.  Upgrade has two upgrades, so that one finds what the other    *)
(* left, two faults, one death and one installation by another updater.    *)
(* Of a scope, two calls consume ("consume"), or one does and its rereads  *)
(* are observed ("rescue"), with one reservation or one set-back of the    *)
(* clock, and three results that say the same, so that the first can be    *)
(* evicted and the others earn a rescue.  A stream has ten bytes, of       *)
(* three kinds with carriage returns, of two or seven of three without,    *)
(* for a buffer of four.  The switch has two ports, two upstreams and one  *)
(* lapse or one edit.  The store has two processes, two batches and one    *)
(* report, one lock conflict or one loss; a request seen out of order,     *)
(* another process's claim on its attempt, a log of two equal lines, and a *)
(* transcript that shows an answer twice.  An archive is begun before      *)
(* anything went wrong, and nothing else happens once it is begun: it      *)
(* reads rows that never change.                                           *)
(***************************************************************************)
EXTENDS ServiceStop, Upgrade, Scopes, Stream, Toggle, Store, TLC

CONSTANTS u1, u2, k1, k2, r1, r2, r3, same, own, ours, theirs
VARIABLE part

MCDigestOf == [r \in {r1, r2, r3} |-> same]
Symmetry == Permutations(Source)

Observation(k, kind, who, tool) ==
  [id |-> <<"live", k>>, source |-> "proxy", kind |-> kind, attempt |-> "a", owner |-> who,
   tool |-> tool, time |-> 0]
MCLive ==
  LET started == Observation(1, "started", "s", "")
      finished == Observation(2, "finished", "s", "k")
  IN {<<finished>>, <<started, finished>>, <<Observation(3, "started", "other", "")>>}
MCLog == <<"x", "x">>
MCTranscript ==
  <<[answer |-> "r", tools |-> {"call"}, time |-> 1], [answer |-> "r", tools |-> {}, time |-> 1]>>

Kinds == {reply[i] : i \in DOMAIN reply}
Worthwhile ==
  IF "r" \in Kinds THEN Kinds \subseteq {"n", "r", "t"}
  ELSE Cardinality(Kinds) <= IF Len(reply) <= 7 THEN 3 ELSE 2

\* Of the states of the switch, those in which the users' parts are of one kind.
UsersOwn(m) == m = None \/ m = [port |-> theirs, to |-> own]
Plausible(c) ==
  \/ c = None
  \/ /\ c.odd => c.was # None \/ c.base = theirs
     /\ c.provider = "other" => c.base \in {ours, own}
     /\ c.was # None => c.base # Elsewhere

ServiceInit ==
  /\ part \in {"stop", "upgrade", "consume", "rescue", "stream", "switch", "store"}
  /\ Init /\ UpgradeInit /\ ScopesInit /\ StreamInit /\ ToggleInit /\ StoreInit
  /\ part = "rescue" => row.adaptive /\ row.capacity # 0 /\ row.threshold = 0
  /\ part \in {"stop", "upgrade", "stream", "switch", "store"} => ~row.adaptive /\ row.capacity = 0 /\ row.threshold = 0
  /\ IF part = "switch" THEN Plausible(codex) /\ UsersOwn(managed)
     ELSE codex = None /\ claude = None /\ managed = None

ServiceNext ==
  /\ UNCHANGED part
  /\ part # "stop" => UNCHANGED vars
  /\ part # "upgrade" => UNCHANGED upgradeVars
  /\ part \notin {"consume", "rescue"} => UNCHANGED scopeVars
  /\ part # "stream" => UNCHANGED streamVars
  /\ part # "switch" => UNCHANGED toggleVars
  /\ part # "store" => UNCHANGED storeVars
  /\ \/ part = "stop" /\ Next
     \/ part = "upgrade" /\ UpgradeNext
     \/ /\ part \in {"consume", "rescue"} /\ ScopesNext
        /\ part = "rescue" => call'[k2] = call[k2] /\ granted'.allowance + setBacks' <= 1
        /\ part = "consume" => queue' = <<>>
     \/ part = "stream" /\ StreamNext /\ Worthwhile'
     \/ /\ part = "switch" /\ ToggleNext /\ lapses' + edits' <= 1
        /\ edits' # edits => Plausible(codex') /\ UsersOwn(managed')
     \/ /\ part = "store" /\ StoreNext /\ trouble'.busy + trouble'.losses <= 1
        /\ archive.step # "none" => ArchiveStep \/ PowerLoss
        /\ archive.step = "none" /\ archive'.step # "none" => trouble.busy + trouble.losses = 0

ServiceSpec ==
  ServiceInit /\ [][ServiceNext]_<<part, vars, upgradeVars, scopeVars, streamVars, toggleVars, storeVars>>
=============================================================================
