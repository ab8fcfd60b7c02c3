------------------------------ MODULE MCReplay ------------------------------
(***************************************************************************)
(* Engines for Replay, each with the client that brings out a hazard.      *)
(* Sizes are a few characters per message.  Where the client only appends, *)
(* they are whole tokens, so that trigger and replay count alike; Rounding *)
(* shows what happens when they are not.                                   *)
(*                                                                         *)
(* Install and Compaction share no state with it: "part" says which of the *)
(* three moves.  Install has two configurations, both kinds of manager and *)
(* three faults; Compaction has four records, two cuts, and outputs that   *)
(* repeat, that are long or short, and that hold many small results.       *)
(***************************************************************************)
EXTENDS Replay, Install, Compaction

CONSTANTS w1, w2, Parts
VARIABLE part

Msg(kind, chars) == [kind |-> kind, chars |-> chars]
Human == Msg("human", 4)
Limited(threshold, capacity) == [threshold |-> threshold, capacity |-> capacity]

Short == <<Msg("assistant", 4), Msg("result", 4)>>
Long == <<Msg("assistant", 8), Msg("result", 16)>>
Huge == <<Msg("assistant", 8), Msg("result", 32)>>   \* more than a request holds
Split == <<Msg("assistant", 4), Msg("assistant", 4), Msg("human", 8)>>
Uneven == {<<Msg("assistant", 5), Msg("result", 4)>>, <<Msg("assistant", 8), Msg("result", 17)>>}

\* One conversation with every kind of turn; a tail that may grow.
Plain ==
  [keep |-> 2, percent |-> 60, strict |-> FALSE, bytes |-> 60, policies |-> {Limited(14, 100)},
   workers |-> {w1}, openings |-> {<<Human>>, <<Human, Msg("system", 4)>>},
   turns |-> {Short, Long, Split}, longest |-> 11, rewinds |-> FALSE]

\* A capacity below the threshold and strict mode: the higher rungs.
Ladder ==
  [Plain EXCEPT !.keep = 3, !.percent = 0, !.strict = TRUE, !.bytes = 100,
                !.policies = {Limited(14, 13)}, !.openings = {<<Human>>},
                !.turns = {Short, Huge}, !.longest = 11]

\* Two requests at once.
Two ==
  [Plain EXCEPT !.keep = 1, !.policies = {Limited(10, 100)}, !.workers = {w1, w2},
                !.openings = {<<Human>>}, !.turns = {Huge}, !.longest = 7]

\* Requests of one conversation under two limits.
Mixed ==
  [Plain EXCEPT !.keep = 1, !.policies = {Limited(10, 100), Limited(12, 100)},
                !.openings = {<<Human>>}, !.turns = {Short, Huge}, !.longest = 9]

\* A client that rewinds and forks, with sizes that leave remainders.
Forks ==
  [Plain EXCEPT !.percent = 0, !.strict = TRUE, !.bytes = 44, !.policies = {Limited(10, 100)},
                !.openings = {<<Human>>}, !.turns = Uneven, !.longest = 7, !.rewinds = TRUE]

MCSetups == {Plain, Ladder, Two, Mixed, Forks}

\* A client that appends, with sizes that leave remainders.
MCRounding ==
  {[Plain EXCEPT !.keep = 1, !.percent = 0, !.bytes = 44, !.policies = {Limited(10, 100)},
                 !.openings = {<<Human>>}, !.turns = Uneven, !.longest = 13]}

\* A client that sends a second prompt before the first was answered.
MCSpliced ==
  {[Plain EXCEPT !.keep = 1, !.bytes = 100, !.policies = {Limited(10, 100)},
                 !.openings = {<<Human>>}, !.turns = {Long, <<Human>>}, !.longest = 8,
                 !.rewinds = TRUE]}

\* What the proof asks of a client holds of all but that one.
ASSUME AllAlternate == \A s \in MCSetups \cup MCRounding : Alternates(s)

Other(kind, tokens) ==
  [kind |-> kind, tokens |-> tokens, payload |-> 0, parts |-> 0, tool |-> Nil,
   text |-> Nil, score |-> Nil]
Output(payload, parts, tool, text, score) ==
  [kind |-> "result", tokens |-> payload + 1, payload |-> payload, parts |-> parts,
   tool |-> tool, text |-> text, score |-> score]
Again == Output(10, 1, "read", "same", Nil)
MCRecords ==
  {Other("assistant", 4), Again, Output(30, 1, "read", "other", 2), Output(9, 4, "run", Nil, 0)}

Usual ==
  [trigger |-> 30, floor |-> 10, pressure |-> 100, keep |-> 1, keepTurns |-> 1,
   resultMax |-> 9, minSavings |-> 4, keepScore |-> Nil, adaptive |-> FALSE, window |-> 0]
MCPolicies ==
  {Usual, [Usual EXCEPT !.floor = 6, !.keepScore = 1],
   [Usual EXCEPT !.floor = 28, !.pressure = 70, !.keep = 0, !.keepTurns = 0, !.adaptive = TRUE,
                 !.window = 88]}
MCYields ==
  {<<>>, <<[before |-> 40, reclaimed |-> 3], [before |-> 40, reclaimed |-> 2]>>}

\* Three results of one tool, each protected.
MCRepeats == {Other("assistant", 4), Again}
MCCautious == {[Usual EXCEPT !.keep = 3]}

-----------------------------------------------------------------------------
all == <<part, vars, installVars, compactionVars>>

ReplayInit ==
  /\ part \in Parts
  /\ Init /\ InstallInit /\ CompactionInit
  /\ part # "replay" => setup = CHOOSE s \in Setups : TRUE
  /\ part # "install" => manager = CHOOSE m \in Manager : TRUE
  /\ part # "files" => (policy = CHOOSE p \in Policies : TRUE) /\ ~usage.reports

Replaying == part = "replay" /\ Next /\ UNCHANGED <<part, installVars, compactionVars>>
Installing(A) == part = "install" /\ A /\ UNCHANGED <<part, vars, compactionVars>>
Compacting == part = "files" /\ CompactionNext /\ UNCHANGED <<part, vars, installVars>>

\* The fairness of InstallFairness.
ReplaySpec ==
  /\ ReplayInit /\ [][Replaying \/ Installing(InstallNext) \/ Compacting]_all
  /\ WF_all(Installing(Command \/ ActivationFails))
  /\ WF_all(Installing(StartRepair \/ StartRecovery))
  /\ WF_all(Installing(ManagerStops)) /\ WF_all(Installing(Launch))
=============================================================================
