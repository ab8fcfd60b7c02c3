------------------------------- MODULE Watch --------------------------------
(***************************************************************************)
(* The watcher (cmd_watch in main.rs): passes over the sessions it         *)
(* discovers, each decided once per version and never twice, or compacted  *)
(* by its provider.  Several lanes run at a time (one per provider and one *)
(* for all), each with a state file of its own, over the same sessions and *)
(* the same journals of native operations.                                 *)
(*                                                                         *)
(* What a pass discovers is old when a session's turn comes: usage and     *)
(* activity are of the discovery, the file is read again, and again after  *)
(* the decision.  Watchers are killed and restarted, sessions are written  *)
(* at any time, the configuration changes between passes, and clocks       *)
(* (cooldowns, holds, budgets) run as they like.                           *)
(***************************************************************************)
EXTENDS Naturals, FiniteSets

CONSTANTS
  Lane,       \* watchers
  Watched,    \* sessions
  Claude,     \* those compacted by a headless resume
  ByCodex,    \* those compacted by the app server
  Legacy,     \* those an old state file may hold
  OldLane,    \* whose file that is
  Configs,    \* the configurations and binaries of the run, 1..Configs
  MaxWrites,  \* bound: versions of a session's file
  MaxStops,   \* bound: killed watchers and failed saves
  None

ASSUME LaneAssumption == OldLane \in Lane /\ Legacy \subseteq Watched
ASSUME LimitAssumption == Configs \in Nat \ {0} /\ MaxWrites \in Nat \ {0} /\ MaxStops \in Nat
ASSUME NoneAssumption == None \notin [version: 1..MaxWrites, seen: 1..MaxWrites, active: BOOLEAN]

VARIABLES
  file,       \* Watched -> version of its transcript
  live,       \* sessions with an owner
  config,     \* the configuration on disk
  lane,       \* Lane -> what its process remembers and where it is
  saved,      \* Lane -> its state file
  unresolved, \* sessions whose journal has an operation of unknown outcome
  old,        \* those it holds, whose outcome is unknown
  decided,    \* what was ever evaluated: session, version, configuration
  fired,      \* sessions ever given to their provider
  stops

wvars == <<file, live, config, lane, saved, unresolved, old, decided, fired, stops>>

Versions == 1..MaxWrites
\* session_fingerprint: the file as it is, the usage and activity as discovered.
Fingerprint == [version: Versions, seen: Versions, active: BOOLEAN]
Native == Claude \cup ByCodex

WatchSteps == {"down", "idle", "visiting", "checked", "held", "asked"}
State == [settled: [Watched -> Fingerprint \cup {None}], armed: [Watched -> Fingerprint \cup {None}],
          hold: SUBSET Watched, legacy: SUBSET Watched, config: 0..Configs]
WatchTypeOK ==
  /\ file \in [Watched -> Versions] /\ live \subseteq Watched /\ config \in 1..Configs
  /\ saved \in [Lane -> State]
  /\ lane \in [Lane -> [mem: State, step: WatchSteps, todo: SUBSET Watched, at: Watched \cup {None},
                        seen: [Watched -> Versions], active: SUBSET Watched]]
  /\ unresolved \subseteq Watched

Fresh == [settled |-> [s \in Watched |-> None], armed |-> [s \in Watched |-> None],
          hold |-> {}, legacy |-> {}, config |-> 0]
Between(mem, step) == [mem |-> mem, step |-> step, todo |-> {}, at |-> None,
                       seen |-> [s \in Watched |-> 1], active |-> {}]
Down == Between(Fresh, "down")

WatchInit ==
  /\ file = [s \in Watched |-> 1] /\ live = {} /\ config = 1
  /\ old \in SUBSET Legacy
  /\ saved = [l \in Lane |-> IF l = OldLane THEN [Fresh EXCEPT !.hold = old] ELSE Fresh]
  /\ lane = [l \in Lane |-> Down]
  /\ unresolved = {} /\ decided = {} /\ fired = {} /\ stops = 0

-----------------------------------------------------------------------------
(* The state file                                                          *)

\* load_watch_state: holds of a file before generation 9 may hide an unknown
\* outcome.
Generation9(l) == saved[l].config > 0
Loaded(l) ==
  [saved[l] EXCEPT !.legacy = IF Generation9(l) THEN @ ELSE @ \cup saved[l].hold]

\* legacy_native_uncertainty: every lane's, for they share the targets.
OwnUncertainty(l) == Loaded(l).legacy                                  \* Mutant
Uncertainty(l) == UNION {Loaded(k).legacy : k \in Lane}

LaneIs(l, r) == lane' = [lane EXCEPT ![l] = r]
Remembers(l, mem, step) == LaneIs(l, [lane[l] EXCEPT !.mem = mem, !.step = step])
BackToPass(l, mem) ==
  LaneIs(l, [lane[l] EXCEPT !.mem = mem, !.step = "visiting", !.at = None])

\* persist_watch_state, then on as r; a pass that cannot save ends the process.
Saved(l, r) ==
  \/ saved' = [saved EXCEPT ![l] = r.mem] /\ LaneIs(l, r) /\ UNCHANGED stops
  \/ stops < MaxStops /\ stops' = stops + 1 /\ LaneIs(l, Down) /\ UNCHANGED saved

-----------------------------------------------------------------------------
(* A pass                                                                  *)

Boot(l) ==
  /\ lane[l].step = "down"
  /\ LaneIs(l, Between([Loaded(l) EXCEPT !.legacy = @ \cup Uncertainty(l)], "idle"))
  /\ UNCHANGED <<file, live, config, saved, unresolved, decided, fired, stops, old>>

\* Decisions of another configuration or binary are dropped, holds that have
\* expired are forgotten, and the sessions are discovered.
Reconfigured(mem) ==
  IF mem.config = config THEN mem
  ELSE [mem EXCEPT !.config = config, !.settled = Fresh.settled, !.armed = Fresh.armed]

BeginPass(l) ==
  /\ lane[l].step = "idle"
  /\ \E expired \in SUBSET lane[l].mem.hold :
       LET mem == [Reconfigured(lane[l].mem) EXCEPT !.hold = @ \ expired,
                                                     !.legacy = @ \cup Uncertainty(l)]
       IN Saved(l, [mem |-> mem, step |-> "visiting", todo |-> Watched, at |-> None,
                    seen |-> file, active |-> live])
  /\ UNCHANGED <<file, live, config, unresolved, decided, fired, old>>

EndPass(l) ==
  /\ lane[l].step = "visiting" /\ lane[l].todo = {}
  /\ Saved(l, Between(lane[l].mem, "idle"))
  /\ UNCHANGED <<file, live, config, unresolved, decided, fired, old>>

FingerprintOf(l, s) == [version |-> file[s], seen |-> lane[l].seen[s], active |-> s \in lane[l].active]

\* The next session, with what is remembered of it; step says what comes next.
Turns(l, s, mem, step) ==
  LaneIs(l, [lane[l] EXCEPT !.mem = mem, !.step = step, !.todo = @ \ {s},
                            !.at = IF step = "visiting" THEN None ELSE s])
Passed(l, s, mem) == Turns(l, s, mem, "visiting")

Suppressed(l, s) ==
  \/ s \in lane[l].mem.legacy \/ (s \in unresolved \cap Native)
  \/ lane[l].mem.settled[s] = FingerprintOf(l, s)
  \/ s \in lane[l].mem.hold

Settles(l, s) == [lane[l].mem EXCEPT !.settled[s] = FingerprintOf(l, s), !.hold = @ \ {s}]

\* Suppressed, too young since its last firing, below its trigger, or beyond the
\* budget: nothing is decided.
Skip(l, s) ==
  /\ lane[l].step = "visiting" /\ s \in lane[l].todo
  /\ Passed(l, s, lane[l].mem)
  /\ UNCHANGED <<file, live, config, saved, unresolved, decided, fired, stops, old>>

Due(l, s) == lane[l].step = "visiting" /\ s \in lane[l].todo /\ ~Suppressed(l, s)

\* Refused by the rollout or the binary, delegated to a live owner, or planned
\* (None, copied or failed): decided for this fingerprint.  A plan reads the
\* transcript after the fingerprint was taken.
Decide(l, s) ==
  /\ Due(l, s)
  /\ Passed(l, s, Settles(l, s))
  /\ decided' = decided \cup {<<s, file[s], lane[l].mem.config>>}
  /\ UNCHANGED <<file, live, config, saved, unresolved, fired, stops, old>>

\* A closed session of a provider with a lever of its own.  Claude's is pulled
\* only when an earlier pass saw the same fingerprint.
AtOnce(l, s) == TRUE                                                    \* Mutant
Agreed(l, s) == s \in Claude => lane[l].mem.armed[s] = FingerprintOf(l, s)
Consider(l, s) ==
  /\ Due(l, s) /\ s \in Native /\ s \notin lane[l].active
  /\ IF Agreed(l, s)
     THEN Turns(l, s, [lane[l].mem EXCEPT !.armed[s] = None, !.hold = @ \ {s}], "checked")
     ELSE Passed(l, s, [lane[l].mem EXCEPT !.armed[s] = FingerprintOf(l, s), !.hold = @ \ {s}])
  /\ UNCHANGED <<file, live, config, saved, unresolved, decided, fired, stops, old>>

\* The snapshot is taken while the session is still as it was; then the hold is
\* saved, before anything is sent.
Holds(l, mem) == Saved(l, [lane[l] EXCEPT !.mem = mem, !.step = "held"])
Checkpoint(l) ==
  LET s == lane[l].at
      still == file[s] = lane[l].seen[s] /\ (s \in Claude => s \notin live)
  IN /\ lane[l].step = "checked"
     /\ IF still
        THEN \/ Holds(l, [lane[l].mem EXCEPT !.hold = @ \cup {s}])
             \/ BackToPass(l, lane[l].mem) /\ UNCHANGED <<saved, stops>>
        ELSE BackToPass(l, lane[l].mem) /\ UNCHANGED <<saved, stops>>
     /\ UNCHANGED <<file, live, config, unresolved, decided, fired, old>>

\* prepare and dispatch, under the target's lock; a dispatch that cannot be
\* recorded ends the process.
Refused(l) ==
  /\ lane[l].step = "held"
  /\ BackToPass(l, [lane[l].mem EXCEPT !.hold = @ \ {lane[l].at}])
  /\ UNCHANGED <<file, live, config, saved, unresolved, decided, fired, stops, old>>
Fire(l) ==
  LET s == lane[l].at
  IN /\ lane[l].step = "held" /\ s \notin unresolved
     /\ unresolved' = unresolved \cup {s}
     /\ fired' = fired \cup {s}
     /\ Remembers(l, lane[l].mem, "asked")
     /\ UNCHANGED <<file, live, config, saved, decided, stops, old>>

\* The provider's turn rewrites the transcript, whatever becomes of the answer.
Provided(s) == file[s] < MaxWrites /\ file' = [file EXCEPT ![s] = @ + 1]
Applied(l) ==
  LET s == lane[l].at
  IN /\ lane[l].step = "asked" /\ unresolved' = unresolved \ {s}
     /\ Provided(s)
     /\ BackToPass(l, [lane[l].mem EXCEPT !.hold = @ \ {s},
                         !.settled[s] = [FingerprintOf(l, s) EXCEPT !.version = file'[s]]])
     /\ UNCHANGED <<live, config, saved, decided, fired, stops, old>>
\* No change, no post-state, or an error: only the first clears the journal.
Unclear(l) ==
  LET s == lane[l].at
  IN /\ lane[l].step = "asked"
     /\ unresolved' \in {unresolved, unresolved \ {s}}
     /\ Provided(s) \/ UNCHANGED file
     /\ \E held \in BOOLEAN :
          BackToPass(l, [lane[l].mem EXCEPT !.hold = IF held THEN @ \cup {s} ELSE @ \ {s}])
     /\ UNCHANGED <<live, config, saved, decided, fired, stops, old>>

-----------------------------------------------------------------------------
(* Around the watchers                                                     *)

Killed(l) ==
  /\ lane[l].step # "down" /\ stops < MaxStops
  /\ stops' = stops + 1
  /\ LaneIs(l, Down)
  /\ UNCHANGED <<file, live, config, saved, unresolved, decided, fired, old>>

\* An owner opens the session, writes to it and leaves.
Save(s) ==
  /\ file[s] < MaxWrites
  /\ file' = [file EXCEPT ![s] = @ + 1] /\ live' = live \cup {s}
  /\ UNCHANGED <<config, lane, saved, unresolved, decided, fired, stops, old>>
Close(s) ==
  /\ s \in live /\ live' = live \ {s}
  /\ UNCHANGED <<file, config, lane, saved, unresolved, decided, fired, stops, old>>

Reconfigure ==
  /\ config < Configs /\ config' = config + 1
  /\ UNCHANGED <<file, live, lane, saved, unresolved, decided, fired, stops, old>>

LaneStep(l) ==
  \/ Boot(l) \/ BeginPass(l) \/ EndPass(l) \/ Checkpoint(l) \/ Refused(l) \/ Fire(l)
  \/ Applied(l) \/ Unclear(l)
  \/ \E s \in Watched : Decide(l, s) \/ Consider(l, s) \/ Skip(l, s)
WatchNext ==
  \/ \E l \in Lane : LaneStep(l) \/ Killed(l)
  \/ \E s \in Watched : Save(s) \/ Close(s)
  \/ Reconfigure

WatchSpec == WatchInit /\ [][WatchNext]_wvars

-----------------------------------------------------------------------------
(* Properties *)

\* A session is passed over as settled only when this very version was decided
\* under this very configuration, whatever was written in between.
SettledWasDecided ==
  \A l \in Lane, s \in Watched :
    LET p == lane[l].mem.settled[s]
    IN lane[l].step = "visiting" /\ p # None /\ p.version = p.seen =>
         <<s, p.version, lane[l].mem.config>> \in decided

\* While a provider works for a watcher, the watcher's file says so: killed
\* and restarted, it will not start afresh on that session.
AskedIsHeld ==
  \A l \in Lane : lane[l].step = "asked" => lane[l].at \in saved[l].hold

\* The unknown outcomes of an old state file keep every lane from the session
\* for good.
LegacyIsNeverFired == fired \cap old = {}

\* What a watcher remembers, and what its file says, is so.
MemoryIsTrue == SettledWasDecided /\ AskedIsHeld /\ LegacyIsNeverFired

\* A session is resumed headless only from a version that two passes of one
\* lane have seen.
ResumedWhenQuiet ==
  [][\A l \in Lane :
       lane[l].step = "visiting" /\ lane'[l].step = "checked" /\ lane'[l].at \in Claude =>
         /\ lane[l].mem.armed[lane'[l].at] # None
         /\ lane[l].mem.armed[lane'[l].at].seen = lane[l].seen[lane'[l].at]]_wvars
=============================================================================
