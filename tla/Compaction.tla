----------------------------- MODULE Compaction -----------------------------
(***************************************************************************)
(* The compaction of a session's file: the strategies that plan it         *)
(* (gobstopper-core/src/strategy), the tuning of their thresholds          *)
(* (policy.rs), the validation every plan passes (validation.rs,           *)
(* admission.rs), the decision around them (main.rs) and the rewriting of  *)
(* the copy (claude.rs, payload.rs).                                       *)
(*                                                                         *)
(* `source` is what the agent and the user have said.  `copy` is the same  *)
(* session as it goes on in a compacted copy: it is compacted again and    *)
(* again, at later and later cuts, and what is said is said to both.  A    *)
(* record's sizes are in tokens; `payload` is what an elision replaces.    *)
(***************************************************************************)
EXTENDS Integers, FiniteSets, Sequences, FiniteSetsExt

CONSTANTS
  Records,       \* what can be said
  Policies,      \* the configurations
  Yields,        \* the recent reductions a tuner may find, newest first
  Claude,        \* whether the provider is Claude Code (or Codex)
  Nil,
  KeepTail,      \* structured.rs: records kept behind the card, 24
  KeepPerTool,   \* micro.rs: outputs kept of each tool, 2
  Reserve,       \* mod.rs: what a window leaves for a card, 4096
  PartTokens,    \* estimate.rs: the tokens set aside for a stub, of 96 bytes
  StubTokens,    \* the tokens of a stub as the adapters write it
  CardTokens,    \* what a card takes, without what it lists
  MaxListed,     \* mod.rs: how much a card lists, 8
  MaxEdits,      \* admission.rs: 64
  MinTrigger, MinFloor, MaxTokens,   \* policy.rs: 10,000; 1,000; 10,000,000
  MaxRecords, MaxCuts                \* bounds of the model

ASSUME CompactionAssumption ==
  /\ {CardTokens, MaxListed} \subseteq Nat /\ StubTokens \in Nat \ {0}
  /\ PartTokens \in Nat /\ PartTokens >= StubTokens /\ MaxEdits \in Nat /\ MaxEdits >= 2
  /\ \A p \in Policies :
       {"keep", "keepTurns", "resultMax"} \subseteq DOMAIN p /\ {p.keep, p.keepTurns} \subseteq Nat

\* payload.rs, claude.rs and codex.rs: only results of tools are replaced, and of
\* those only parts that are longer than a stub.
Sizes(x) ==
  /\ {x.tokens, x.payload, x.parts} \subseteq Nat /\ x.payload <= x.tokens
  /\ x.parts * StubTokens <= x.payload
  /\ x.payload > 0 => x.parts > 0 /\ x.kind # "assistant"
ASSUME RecordsAssumption ==
  \A x \in Records :
    /\ DOMAIN x = {"kind", "tokens", "payload", "parts", "tool", "text", "score"}
    /\ Sizes(x) /\ x.score \in Nat \cup {Nil}

VARIABLES
  policy,        \* the configuration of the session
  source,        \* the session, never compacted
  copy,          \* the session, as it goes on in its copy
  usage,         \* what the provider last reported of either, if it reports
  used,          \* the strategies whose plans the copy has been through
  cuts,          \* how many of them
  outcome        \* of the last decision, until more is said

compactionVars == <<policy, source, copy, usage, used, cuts, outcome>>

Capped(n) == IF n < 0 THEN 0 ELSE n
Least(a, b) == IF a < b THEN a ELSE b
Most(a, b) == IF a > b THEN a ELSE b
\* The newest n of a set of places, and the oldest.
Newest(S, n) == {i \in S : Cardinality({j \in S : j > i}) < n}
Oldest(S, n) == {i \in S : Cardinality({j \in S : j < i}) < n}
\* The first n of a sequence of numbers, added up.
Total(numbers, n) ==
  LET sum[k \in 0..n] == IF k = 0 THEN 0 ELSE sum[k - 1] + numbers[k]
  IN sum[n]

-----------------------------------------------------------------------------
(* Transcripts *)

IsElidable(x) == x.tokens > 0 /\ x.payload > 0
Elidable(t) == {i \in DOMAIN t : IsElidable(t[i])}
\* Mutant: a record of several results is taken to hold one.
SavingsOnce(x) ==
  IF IsElidable(x) THEN Least(x.tokens, Capped(x.payload - PartTokens)) ELSE 0
Savings(x) ==
  IF IsElidable(x) THEN Least(x.tokens, Capped(x.payload - Most(1, x.parts) * PartTokens)) ELSE 0
SavedBy(t, S) == Total([i \in DOMAIN t |-> IF i \in S THEN Savings(t[i]) ELSE 0], Len(t))
Estimate(t) == Total([i \in DOMAIN t |-> t[i].tokens], Len(t))

\* The provider's own count if there is one, the estimate if not.
Context(t, reported) == IF reported = Nil THEN Estimate(t) ELSE reported
ElidableTokens(t) == Total([i \in DOMAIN t |-> IF IsElidable(t[i]) THEN t[i].payload ELSE 0], Len(t))

\* What an elision leaves of a record; a Claude record that holds no result of
\* any size is not one of a tool.
Stubbed(x) ==
  [x EXCEPT !.tokens = @ - x.payload + x.parts * StubTokens,
            !.payload = 0, !.parts = 0, !.text = Nil,
            !.kind = IF Claude THEN "user" ELSE @]

Overhead(n) == CardTokens + Least(n, MaxListed)
Card(n) ==
  [kind |-> "user", tokens |-> Overhead(n), payload |-> 0, parts |-> 0, tool |-> Nil,
   text |-> Nil, score |-> Nil]

-----------------------------------------------------------------------------
(* Policies *)

EffectiveTrigger(p) == Most(1, (p.trigger * p.pressure + 50) \div 100)
AcceptsSavings(p, before, after) == Capped(before - after) >= p.minSavings
ValidPolicy(p) ==
  /\ p.trigger > 0 /\ p.trigger <= MaxTokens
  /\ p.floor < p.trigger
  /\ p.minSavings <= MaxTokens

\* The trigger and the floor for what is known of the session.
CappedToWindow(p, window) ==
  LET cap == (window + 2) \div 4
  IN IF window > 0 /\ p.trigger > cap THEN Most(cap, MinTrigger) ELSE p.trigger
LowYield(recent) ==
  /\ Len(recent) >= 2
  /\ \A i \in 1..Least(3, Len(recent)) :
       recent[i].before > 0 /\ recent[i].reclaimed * 10 < recent[i].before
Raised(p, trigger, recent) ==
  LET raised == (3 * trigger + 1) \div 2
  IN IF LowYield(recent) /\ raised > trigger THEN Least(raised, 2 * p.trigger) ELSE trigger
Tightened(trigger, context, elidable) ==
  IF context > 0 /\ 2 * elidable > context THEN Least(trigger, (8 * trigger + 5) \div 10)
  ELSE trigger
Adapt(p, window, context, elidable, recent) ==
  LET trigger == Tightened(Raised(p, CappedToWindow(p, window), recent), context, elidable)
      half == trigger \div 2
      floor == IF p.floor > half THEN Most(half, MinFloor) ELSE p.floor
      last == Most(Most(trigger, MinTrigger), 2 * floor)
  IN [p EXCEPT !.trigger = last, !.floor = Least(Most(floor, MinFloor), last \div 2)]

-----------------------------------------------------------------------------
(* Plans: edits, and the context expected after them.  A strategy that     *)
(* finds nothing to do gives no plan.                                      *)

Elide(S) == [op |-> "elide", lines |-> S]
Digest(n) == [op |-> "digest", lines |-> 1..n]      \* covers n records
ProviderCompact == [op |-> "provider", lines |-> {}]
CacheEdit(S) == [op |-> "cache", lines |-> S]       \* by the results' ids
Plan(edits, after) == [edits |-> edits, after |-> after]

Protected(t, p) == Newest(Elidable(t), p.keep)
Candidates(t, p) == Elidable(t) \ Protected(t, p)

\* An order of a set is given by its beginnings.
OldestFirst(S) == {{j \in S : j <= i} : i \in S}
NewestFirst(S) == {{j \in S : j >= i} : i \in S}

\* The shortest beginning that is enough, or all of the order.
Shortest(order, enough) == {i \in UNION order : \A B \in enough : i \in B}

\* What is left of the context, and what a card adds that costs something itself.
Left(t, before, S) == Capped(before - SavedBy(t, S))
After(t, before, S) == Left(t, before, S) + Overhead(Cardinality(S))
Cut(t, before, S) == Plan(<<Elide(S)>>, Left(t, before, S))
CutWithCard(t, before, S) ==
  Plan(<<Elide(S), Digest(Cardinality(S))>>, After(t, before, S))

\* Elides in this order until the floor is reached.
Shed(t, before, floor, order) ==
  LET enough == {B \in order : Left(t, before, B) <= floor}
  IN IF order = {} \/ before <= floor THEN Nil ELSE Cut(t, before, Shortest(order, enough))
ShedForCard(t, before, floor, order) ==
  LET enough == {B \in order : After(t, before, B) <= floor \/ Left(t, before, B) = 0}
  IN IF order = {} \/ before <= floor THEN Nil
     ELSE CutWithCard(t, before, Shortest(order, enough))

PlanElide(t, p, before) == Shed(t, before, p.floor, OldestFirst(Candidates(t, p)))
PlanCompacted(t, p, before) == ShedForCard(t, before, p.floor, OldestFirst(Candidates(t, p)))
PlanCacheAware(t, p, before) == ShedForCard(t, before, p.floor, NewestFirst(Candidates(t, p)))

\* Of the outputs that say the same, all but the newest.
PlanDedupe(t, p, before) ==
  LET repeated == {i \in Candidates(t, p) :
                     t[i].text # Nil /\ \E j \in Candidates(t, p) :
                                           j > i /\ t[j].tool = t[i].tool /\ t[j].text = t[i].text}
  IN ShedForCard(t, before, p.floor, OldestFirst(repeated))

\* Of each tool's outputs all but the newest, whichever are protected.
PlanMicro(t, p, before) ==
  LET of(tool) == {i \in Elidable(t) : t[i].tool = tool}
      kept == UNION {Newest(of(t[i].tool), KeepPerTool) : i \in Elidable(t)}
  IN ShedForCard(t, before, p.floor, OldestFirst(Elidable(t) \ kept))

PlanMiddle(t, p, before) ==
  LET rest == Elidable(t) \ Oldest(Elidable(t), p.keep)
  IN ShedForCard(t, before, p.floor, OldestFirst(rest \ Newest(rest, p.keep)))

PlanStructured(t, p, before) ==
  LET covered == {i \in Candidates(t, p) : i <= Len(t) - KeepTail}
  IN IF covered = {} THEN Nil ELSE Cut(t, before, covered)

\* The assistant resumes where the live record before is not its own.
StepStarts(t) ==
  LET live == {i \in DOMAIN t : t[i].tokens > 0}
      follows(i, j) == j < i /\ ~\E k \in live : j < k /\ k < i
  IN {i \in live : /\ t[i].kind = "assistant"
                   /\ \A j \in live : follows(i, j) => t[j].kind # "assistant"}
\* The steps but the newest, and nothing before the first.
Compactable(t, p) ==
  LET until(i) == Cardinality({j \in StepStarts(t) : j <= i})
  IN {i \in DOMAIN t : until(i) \in 1..(Cardinality(StepStarts(t)) - p.keepTurns)}
\* Mutant: drops until the floor is reached, as others do.
DropsToFloor(t, p) ==
  LET older == {i \in Compactable(t, p) \cap Elidable(t) :
                  i \notin Protected(t, p) /\ t[i].payload > p.resultMax}
      order == OldestFirst(older)
  IN Shortest(order, {B \in order : Estimate(t) - SavedBy(t, B) <= p.floor})
CliffDrops(t, p) ==
  {i \in Compactable(t, p) \cap Elidable(t) : i \notin Protected(t, p) /\ t[i].payload > p.resultMax}
PlanCliff(t, p, before) ==
  LET drops == CliffDrops(t, p)
  IN IF drops = {} THEN Nil ELSE Cut(t, before, drops)

\* Scores say what is worth keeping; where none is given, half.
ScoreOf(x) == IF x.score = Nil THEN 1 ELSE x.score
Cheaper(t, i, j) ==
  \/ ScoreOf(t[i]) < ScoreOf(t[j])
  \/ ScoreOf(t[i]) = ScoreOf(t[j]) /\ Savings(t[i]) > Savings(t[j])
  \/ ScoreOf(t[i]) = ScoreOf(t[j]) /\ Savings(t[i]) = Savings(t[j]) /\ i < j
CheapestFirst(t, S) == {{j \in S : j = i \/ Cheaper(t, j, i)} : i \in S}
Droppable(t, p) ==
  IF p.keepScore = Nil THEN Candidates(t, p)
  ELSE {i \in Candidates(t, p) : t[i].score # Nil /\ t[i].score < p.keepScore}

\* The lowest scores in the smallest window from the newest that suffices.
PlanScored(t, p, before) ==
  LET target == Capped(before - p.floor)
      newest == NewestFirst(Droppable(t, p))
      window == Shortest(newest, {B \in newest : SavedBy(t, B) >= target + Reserve})
      order == CheapestFirst(t, window)
      enough == {B \in order : SavedBy(t, B) >= target /\ After(t, before, B) <= p.floor}
  IN IF Droppable(t, p) = {} \/ target = 0 THEN Nil
     ELSE CutWithCard(t, before, Shortest(order, enough))

PlanCacheEdits(t, p, before) ==
  LET order == CheapestFirst(t, Candidates(t, p))
      chosen == Shortest(order, {B \in order : Left(t, before, B) <= p.floor})
  IN IF ~Claude \/ order = {} \/ before <= p.floor THEN Nil
     ELSE Plan(<<CacheEdit(chosen)>>, Left(t, before, chosen))
PlanSawtooth(p) == Plan(<<ProviderCompact>>, p.floor)

\* Savings times the cube of what precedes the first edit, the first of equals.
FilePlans(t, p, before) ==
  <<PlanCacheAware(t, p, before), PlanScored(t, p, before), PlanElide(t, p, before),
    PlanCompacted(t, p, before), PlanDedupe(t, p, before), PlanMicro(t, p, before),
    PlanMiddle(t, p, before), PlanStructured(t, p, before)>>
Worth(t, before, plan) ==
  LET first == Min(plan.edits[1].lines)
      prefix == Total([i \in DOMAIN t |-> t[i].tokens], first - 1)
  IN Capped(before - plan.after) * prefix * prefix * prefix
Best(t, before, plans) ==
  LET found == {i \in DOMAIN plans : plans[i] # Nil}
      best == {i \in found : \A j \in found : Worth(t, before, plans[j]) <= Worth(t, before, plans[i])}
  IN IF best = {} THEN Nil ELSE plans[Min(best)]
PlanAuto(t, p, before, live) ==
  IF t = <<>> \/ live THEN
    LET edits == PlanCacheEdits(t, p, before) IN IF edits # Nil THEN edits ELSE PlanSawtooth(p)
  ELSE Best(t, before, FilePlans(t, p, before))

Strategies == {"auto", "scored", "cache_edits", "cache_aware", "sawtooth", "elide", "cliff",
               "dedupe", "micro", "middle", "compacted", "structured"}
PlanOf(name, t, p, before, live) ==
  CASE name = "auto" -> PlanAuto(t, p, before, live)
    [] name = "scored" -> PlanScored(t, p, before)
    [] name = "cache_edits" -> PlanCacheEdits(t, p, before)
    [] name = "cache_aware" -> PlanCacheAware(t, p, before)
    [] name = "sawtooth" -> PlanSawtooth(p)
    [] name = "elide" -> PlanElide(t, p, before)
    [] name = "cliff" -> PlanCliff(t, p, before)
    [] name = "dedupe" -> PlanDedupe(t, p, before)
    [] name = "micro" -> PlanMicro(t, p, before)
    [] name = "middle" -> PlanMiddle(t, p, before)
    [] name = "compacted" -> PlanCompacted(t, p, before)
    [] name = "structured" -> PlanStructured(t, p, before)

-----------------------------------------------------------------------------
(* Validation *)

\* How edits may be combined: few, one card at most, a control alone.
IsControl(e) == e.op \in {"provider", "cache"}
Admission == [edits : 0..MaxEdits, digests : 0..1, control : BOOLEAN]
Fresh == [edits |-> 0, digests |-> 0, control |-> FALSE]
Admits(a, e) ==
  /\ a.edits < MaxEdits /\ ~a.control
  /\ IsControl(e) => a.edits = 0
  /\ e.op = "digest" => a.digests = 0
Admit(a, e) ==
  [edits |-> a.edits + 1,
   digests |-> a.digests + (IF e.op = "digest" THEN 1 ELSE 0),
   control |-> IsControl(e)]
Admitted(edits) ==
  LET after[n \in 0..Len(edits)] == IF n = 0 THEN Fresh ELSE Admit(after[n - 1], edits[n])
  IN /\ Len(edits) <= MaxEdits
     /\ \A n \in 1..Len(edits) : Admits(after[n - 1], edits[n])

TargetsAllowed(t, p, lines) == lines \subseteq DOMAIN t /\ lines \subseteq Candidates(t, p)
Overlapping(edits) ==
  \E m, n \in DOMAIN edits :
    m < n /\ edits[m].op = "elide" /\ edits[n].op = "elide" /\ edits[m].lines \cap edits[n].lines # {}
Valid(t, p, edits) ==
  /\ Admitted(edits)
  /\ ~Overlapping(edits)
  /\ \A n \in DOMAIN edits :
       CASE edits[n].op = "elide" -> TargetsAllowed(t, p, edits[n].lines)
         [] edits[n].op = "digest" -> Cardinality(edits[n].lines) \in 1..Len(t)
         [] edits[n].op = "provider" -> Len(edits) = 1
         [] edits[n].op = "cache" ->
              /\ Len(edits) = 1 /\ Claude
              /\ edits[n].lines # {} /\ edits[n].lines \subseteq DOMAIN t

-----------------------------------------------------------------------------
(* Rewriting: what the adapters make of edits.  Controls leave the file.   *)

Lowered(t, e) ==
  CASE e.op = "elide" ->
         [i \in DOMAIN t |-> IF i \in e.lines /\ IsElidable(t[i]) THEN Stubbed(t[i]) ELSE t[i]]
    [] e.op = "digest" -> Append(t, Card(Cardinality(e.lines)))
    [] OTHER -> t
Rewritten(t, edits) ==
  LET after[n \in 0..Len(edits)] == IF n = 0 THEN t ELSE Lowered(after[n - 1], edits[n])
  IN after[Len(edits)]

-----------------------------------------------------------------------------
(* Decisions *)

\* The policy as it is, or tuned to what is known and what it has saved of late.
Tuned(p, t, reported) ==
  IF p.adaptive
  THEN {Adapt(p, p.window, Context(t, reported), ElidableTokens(t), recent) : recent \in Yields}
  ELSE {p}

\* Decisions that change nothing (too early, nothing to do, no net benefit, an
\* invalid policy, a control that the session's owner must carry out) are none.
Unpublished == UNCHANGED <<policy, source, usage, copy, used, cuts>>
Refuse(by) ==
  /\ outcome' = [by |-> by, verdict |-> "refused", claimed |-> 0, real |-> 0]
  /\ Unpublished
Apply(by, before, plan) ==
  LET made == Rewritten(copy, plan.edits)
  IN /\ copy' = made
     /\ outcome' = [by |-> by, verdict |-> "applied", claimed |-> before - plan.after,
                    real |-> Estimate(copy) - Estimate(made)]
     /\ used' = used \cup {by}
     /\ cuts' = cuts + 1
     /\ UNCHANGED <<policy, source, usage>>

Controls(plan) == \E n \in DOMAIN plan.edits : IsControl(plan.edits[n])
Conclude(by, p, before, plan) ==
  \/ ~Valid(copy, p, plan.edits) /\ Refuse(by)
  \/ /\ Valid(copy, p, plan.edits)
     /\ AcceptsSavings(p, before, plan.after) /\ plan.after < before
     /\ ~Controls(plan)
     /\ Apply(by, before, plan)

Due(p, before) == ValidPolicy(policy) /\ ValidPolicy(p) /\ before >= EffectiveTrigger(p)

\* `apply`, with a built-in strategy.  A copy is compacted by one only.
Compact(name, live) ==
  /\ cuts < MaxCuts /\ used \subseteq {name}
  /\ \E p \in Tuned(policy, copy, usage.copy), before \in {Context(copy, usage.copy)} :
       /\ Due(p, before)
       /\ \E plan \in {PlanOf(name, copy, p, before, live)} :
            plan # Nil /\ Conclude(name, p, before, plan)

\* The same, with edits that a plug-in or a preset's command proposes; what
\* they save is computed here.
Expected(t, left, e) ==
  IF e.op = "elide" THEN Capped(left - SavedBy(t, e.lines \cap DOMAIN t))
  ELSE left + Overhead(Cardinality(e.lines))
ExternalAfter(t, before, edits) ==
  LET after[n \in 0..Len(edits)] == IF n = 0 THEN before ELSE Expected(t, after[n - 1], edits[n])
  IN after[Len(edits)]
CompactExternally(edits) ==
  /\ cuts < MaxCuts /\ used = {}
  /\ \E p \in Tuned(policy, copy, usage.copy), before \in {Context(copy, usage.copy)} :
       /\ Due(p, before) /\ edits # <<>>
       /\ \E plan \in {Plan(edits, ExternalAfter(copy, before, edits))} :
            IF Controls(plan) THEN Refuse("plugin") ELSE Conclude("plugin", p, before, plan)

\* A record is said, to the session and to its copy alike.  What the assistant
\* says comes with the provider's count, where the provider gives one.
Say(x) ==
  /\ Len(source) < MaxRecords
  /\ source' = Append(source, x)
  /\ copy' = Append(copy, x)
  /\ usage' = IF usage.reports /\ x.kind = "assistant"
              THEN [usage EXCEPT !.copy = Estimate(copy')]
              ELSE usage
  /\ outcome' = Nil
  /\ UNCHANGED <<policy, used, cuts>>

\* What a plug-in may propose: all kinds of edits, one or two, right or wrong.
Proposals(t) ==
  LET lines == {S \in SUBSET (1..(Len(t) + 1)) : Cardinality(S) \in {1, 2}}
      elides == {Elide(S) : S \in lines}
  IN {<<>>} \cup {<<e>> : e \in elides} \cup {<<e, Digest(1)>> : e \in elides}
     \cup {<<Elide({i}), Elide(S)>> : i \in 1..Len(t), S \in {{j} : j \in 1..Len(t)}}
     \cup {<<Digest(1), Digest(1)>>, <<ProviderCompact>>, <<Elide({1}), ProviderCompact>>}

CompactionInit ==
  /\ policy \in Policies
  /\ source = <<>> /\ copy = <<>>
  /\ usage \in [reports : BOOLEAN, copy : {Nil}]
  /\ used = {} /\ cuts = 0 /\ outcome = Nil

CompactionNext ==
  \/ \E x \in Records : Say(x)
  \/ \E name \in Strategies, live \in BOOLEAN : Compact(name, live)
  \/ \E edits \in Proposals(copy) : CompactExternally(edits)

CompactionSpec == CompactionInit /\ [][CompactionNext]_compactionVars

-----------------------------------------------------------------------------
(* Properties *)

\* Every strategy but two plans only what validation then admits, whatever the
\* session and the policy; `micro` counts by tool and `auto` may take its plan.
BuiltinsAreAdmitted ==
  outcome # Nil /\ outcome.verdict = "refused" => outcome.by \in {"micro", "auto", "plugin"}

\* "idle sessions choose the best validated file strategy" (README.md).
AutoIsAdmitted == outcome # Nil => ~(outcome.by = "auto" /\ outcome.verdict = "refused")

\* A copy that was only ever cut by `cliff`, however often and whenever, is what
\* one cut of the whole session would be: no compaction is ever compacted.
RepeatedCutIsOneCut ==
  outcome # Nil /\ outcome.verdict = "applied" /\ used = {"cliff"} =>
    copy = Rewritten(source, <<Elide(CliffDrops(source, policy))>>)

\* No more is claimed for a compaction than it takes from the file, stubs being
\* what the templates give and a card what it is estimated at.
SavingsAreReal == outcome # Nil => outcome.claimed <= outcome.real

\* What is planned is allowed and pays: both of the above, for every strategy.
PlansAreSound == BuiltinsAreAdmitted /\ SavingsAreReal
=============================================================================
