------------------------------- MODULE Replay -------------------------------
(***************************************************************************)
(* The request engine of gobstopper-adapters (request/engine.rs, with      *)
(* compact_within of request/mod.rs and the prefix store of                *)
(* request/store.rs).  A client resends its whole history on every         *)
(* request.  The engine substitutes the longest stored prefix, and when    *)
(* the outgoing list is over the threshold replays the threshold crossings *)
(* over the history, climbs a ladder of harsher settings, and remembers    *)
(* the summaries it made.  The store is an LRU cache in memory: entries    *)
(* are lost to other conversations' traffic and to restarts.               *)
(*                                                                         *)
(* A message is its kind and its size in characters.  A list the engine   *)
(* works on is a sequence of items, each a message of the history by its   *)
(* position or a summary.  A summary is the set of messages it renders and *)
(* the set of older ones whose words it carries; only sizes come of it.    *)
(* Hashes of prefixes are the prefixes themselves; evidence is disabled    *)
(* (evidence_max_bytes = 0); calibration, a module of its own, is folded   *)
(* into the limits of a request.                                           *)
(***************************************************************************)
EXTENDS Integers, Sequences, FiniteSets, FiniteSetsExt, SequencesExt

CONSTANTS
  Workers,       \* threads that serve requests
  Setups,        \* engines, as they are started, with the clients they serve
  Fixed,         \* characters of the system prompt and tools
  ResultMax, ThoughtMax, CarryMax,       \* CliffConfig
  Shell,         \* characters of a summary without parts
  Slack, Joint,  \* truncate_summary: its margin, a separator between parts
  MaxEntries     \* bound of the prefix store

\* Limits of a request in tokens: its threshold, calibration applied, and what
\* the provider takes, net of its output.  They identify its policy.
Limits == [threshold: Nat, capacity: Nat]
Message == [kind: {"human", "system", "assistant", "result", "summary"}, chars: Nat]

ASSUME EngineAssumption ==
  /\ {Fixed, ResultMax, ThoughtMax, CarryMax, Shell, Slack, Joint, MaxEntries} \subseteq Nat
  /\ \A s \in Setups :
       /\ s.keep \in Nat \ {0} /\ s.percent \in 0..60 /\ s.strict \in BOOLEAN
       /\ s.bytes \in Nat                   \* MaxBytes of the prefix store
       /\ s.policies \subseteq Limits       \* limits its requests come with
       /\ s.workers \subseteq Workers       \* requests it serves at once
       /\ s.longest \in Nat                 \* bound: messages in a history
       /\ s.rewinds \in BOOLEAN             \* does the client drop messages
       \* the histories a conversation starts with, and what one exchange appends
       /\ s.openings \subseteq Seq(Message) \ {<<>>} /\ s.turns \subseteq Seq(Message)

VARIABLES
  setup,     \* the engine's configuration, chosen once
  history,   \* the conversation as the client holds it
  ctx,       \* Workers -> the RequestCtx of the worker's latest request
  store      \* PrefixStore: its entries, least recently used first

vars == <<setup, history, ctx, store>>

-----------------------------------------------------------------------------
(* Messages, summaries and lists, by size                                  *)

Assistant(m) == m.kind = "assistant"
Chars(list, S) == MapThenSumSet(LAMBDA i : list[i].chars, S)
FirstModel(list) == Min({i \in DOMAIN list : Assistant(list[i])} \cup {Len(list) + 1})

\* Long tool results are dropped from a summary, and a summary leaves nothing
\* in the next one; rung 2 caps what a model said.
Part(m, capped) ==
  CASE m.kind = "result" -> IF m.chars <= ResultMax THEN m.chars ELSE 0
    [] m.kind = "summary" -> 0
    [] m.kind = "assistant" /\ capped -> Min({m.chars, ThoughtMax})
    [] OTHER -> m.chars

\* The messages at S whose words are carried, as positions in the history.  A
\* size counts the two characters that join a message or a carried part to the
\* next, so carrying costs as much as sending.
Spoken(list, S) == {list[k].at : k \in {j \in S : list[j].kind \notin {"result", "summary"}}}

\* bound_carry: the longest suffix of whole parts that fits.
BoundCarry(h, S, budget) == {i \in S : Chars(h, {j \in S : j >= i}) <= budget}

NoSummary == [shown |-> {}, section |-> {}, capped |-> FALSE]
SummaryChars(h, s) ==
  Shell + Chars(h, s.section) + MapThenSumSet(LAMBDA i : Part(h[i], s.capped), s.shown)

\* Items of a list: the history's message i, and a summary message.
Original(h, i) == [kind |-> h[i].kind, chars |-> h[i].chars, at |-> i, sum |-> NoSummary]
Originals(h, from, to) == [j \in 1..to - from + 1 |-> Original(h, from + j - 1)]
Summary(h, s) == [kind |-> "summary", chars |-> SummaryChars(h, s), at |-> 0, sum |-> s]
Splice(h, head, s, cut) ==
  Originals(h, 1, head) \o <<Summary(h, s)>> \o Originals(h, cut + 1, Len(h))
ListChars(list) == Fixed + Chars(list, DOMAIN list)

-----------------------------------------------------------------------------
(* The limits of one request                                               *)

FloorChars(h) == Fixed + Chars(h, 1..FirstModel(h) - 1)
\* A head near the threshold raises it, never above the capacity.
Limit(h, p) ==
  Min({p.capacity, Max({p.threshold, FloorChars(h) \div 4 + p.threshold \div 2})})
Headroom(h, p) == Max({0, 4 * Limit(h, p) - FloorChars(h)})
CarryBudget(h, p) == Min({CarryMax, Headroom(h, p) \div 4})
TailBudget(h, p, knobs) == (Headroom(h, p) * knobs.percent) \div 100

\* The settings of a compaction: the base one, the three rungs of the ladder, and
\* the first answer to a length rejection, the base one without a tail budget.
Base == 0
First == 4
Knobs(rung) ==
  [keep |-> IF rung \in {Base, First} THEN setup.keep ELSE 1,
   percent |-> IF rung = Base THEN setup.percent ELSE 0, capped |-> rung = 2]

\* The trigger compares whole tokens; the replay compares characters.
OverTokens(h, p, chars) == chars \div 4 > Limit(h, p)
OverChars(h, p, chars) == chars > 4 * Limit(h, p)
Over(c) == OverTokens(c.hist, c.policy, ListChars(c.out))

-----------------------------------------------------------------------------
(* compact_within: one compaction of a list                                *)

\* The verbatim head ends before the first model turn; neither a summary nor
\* a system message may end it.
HeadLen(list) ==
  Max({0} \cup {k \in 1..FirstModel(list) - 1 : list[k].kind \notin {"system", "summary"}})

\* Where turns start behind the head: a run of model output is one turn.
TurnStarts(list) ==
  LET head == HeadLen(list)
  IN {k \in head + 1..Len(list) :
        k = head + 1 \/ (Assistant(list[k]) /\ ~Assistant(list[k - 1]))}

\* The start of the knobs.keep newest turns.
MinimalStart(list, knobs) ==
  CHOOSE s \in TurnStarts(list) :
    Cardinality({t \in TurnStarts(list) : t >= s}) = knobs.keep

\* Keeping from s on makes the list shorter; and as if one message for another did.
ReducesNone(list, s) == s >= HeadLen(list) + 2
Reduces(list, s) == s >= HeadLen(list) + 3

SummaryOf(list, s, section, knobs) ==
  LET gone == {list[k].at : k \in {j \in HeadLen(list) + 1..s - 1 : Part(list[j], knobs.capped) > 0}}
  IN [shown |-> gone, section |-> section, capped |-> knobs.capped]

\* extend_split: the tail grows backwards by whole turns while summary and tail
\* fit the budget, a model turn stays summarized and the list gets shorter.
Fits(h, list, s, section, knobs, budget) ==
  SummaryChars(h, SummaryOf(list, s, section, knobs)) + Chars(list, s..Len(list)) <= budget
MayKeep(list, s) ==
  Reduces(list, s) /\ \E u \in TurnStarts(list) : u < s /\ Assistant(list[u])
Grown(h, list, knobs, budget, section, least) ==
  Min({s \in TurnStarts(list) :
         \A t \in {u \in TurnStarts(list) : s <= u /\ u <= least} :
           t < least => Fits(h, list, t, section, knobs, budget) /\ MayKeep(list, t)})
KeptStart(h, list, knobs, budget, section, least) ==
  IF budget > 0 /\ Fits(h, list, least, section, knobs, budget)
  THEN Grown(h, list, knobs, budget, section, least) ELSE least

Section(h, p, x) == BoundCarry(h, x.carry, CarryBudget(h, p))
StartOf(h, p, x, knobs) ==
  KeptStart(h, x.out, knobs, TailBudget(h, p, knobs), Section(h, p, x), MinimalStart(x.out, knobs))

\* The carry of a compaction: what it rendered and the words it summarizes.
NextCarry(h, p, x, s) ==
  BoundCarry(h, Section(h, p, x) \cup Spoken(x.out, HeadLen(x.out) + 1..s - 1),
             CarryBudget(h, p))

-----------------------------------------------------------------------------
(* compact_chain: replay the crossings.  The working state is a list with  *)
(* the head and the cut of its latest summary; cut = 0 is "none yet".      *)

\* Where a compaction that keeps list position s on cuts the history, and as if
\* the position in the list were one in the history.
CutAsIs(x, s) == s - 1
CutOf(x, s) == IF x.cut = 0 THEN s - 1 ELSE x.cut + (s - 1 - (x.head + 1))

\* Replay::adopt: the result, its cut back in the history's positions.
Adopted(h, p, x, s, head, sum) ==
  [x EXCEPT !.out = SubSeq(@, 1, head) \o <<Summary(h, sum)>> \o SubSeq(@, s, Len(@)),
            !.head = head, !.sum = sum, !.steps = @ + 1, !.cut = CutOf(x, s),
            !.carry = NextCarry(h, p, x, s)]

\* Compact the list if there is a turn to summarize and the list gets shorter.
Keeping(h, p, x, knobs, s) ==
  IF Reduces(x.out, s)
  THEN Adopted(h, p, x, s, HeadLen(x.out), SummaryOf(x.out, s, Section(h, p, x), knobs)) ELSE x
Try(h, p, x, knobs) ==
  IF FirstModel(x.out) <= Len(x.out) /\ Cardinality(TurnStarts(x.out)) > knobs.keep
  THEN Keeping(h, p, x, knobs, StartOf(h, p, x, knobs)) ELSE x

\* Feed one more message; a crossing compacts if it can.  With force, a history
\* that never crossed is compacted once at the end.
Crossing(h, p, x, knobs, must) ==
  IF must \/ OverChars(h, p, ListChars(x.out)) THEN Try(h, p, x, knobs) ELSE x
Feed(c, x, rung, i) ==
  IF i <= Len(c.hist)
  THEN Crossing(c.hist, c.policy, [x EXCEPT !.out = Append(@, Original(c.hist, i))],
                Knobs(rung), FALSE)
  ELSE IF x.steps = 0 /\ rung # Base THEN Crossing(c.hist, c.policy, x, Knobs(rung), TRUE) ELSE x

Start(c) ==
  [out |-> IF c.cut = 0 THEN <<>> ELSE SubSeq(c.out, 1, c.head + 1),
   head |-> c.head, cut |-> c.cut, sum |-> c.sum, carry |-> c.carry, steps |-> 0]
Chain(c, rung) ==
  LET fed[i \in c.cut..Len(c.hist) + 1] ==
        IF i = c.cut THEN Start(c) ELSE Feed(c, fed[i - 1], rung, i)
  IN fed[Len(c.hist) + 1]

\* The store entry for the summary a context holds.  worst is the harshest
\* setting that had a part in it: 0 for none but the base one, 3 for a truncation.
EntryOf(c) ==
  [key |-> SubSeq(c.hist, 1, c.cut), head |-> c.head, cut |-> c.cut, sum |-> c.sum,
   carry |-> c.carry, policy |-> c.policy, worst |-> c.worst]
Remembered(c) == [c EXCEPT !.pending = Append(@, EntryOf(c))]

Adopting(c, x, rung) ==
  IF x.steps = 0 THEN c
  ELSE Remembered([c EXCEPT !.out = x.out, !.head = x.head, !.cut = x.cut, !.sum = x.sum,
                            !.carry = x.carry, !.compacted = TRUE,
                            !.worst = Max({@, IF rung = First THEN 1 ELSE rung}),
                            !.rung = IF rung = First THEN @ ELSE rung])
Compacted(c, rung) == Adopting(c, Chain(c, rung), rung)

\* truncate_summary: keep the newest parts that fit, the carried section being
\* the oldest.
TruncateBudget(c) ==
  Max({0, 4 * Limit(c.hist, c.policy) - Slack - Shell
            - (ListChars(c.out) - SummaryChars(c.hist, c.sum))})
PartsFrom(c, i) ==
  MapThenSumSet(LAMBDA j : Part(c.hist[j], c.sum.capped) + Joint,
                {j \in c.sum.shown : j >= i}) - Joint
KeptParts(c) == {i \in c.sum.shown : PartsFrom(c, i) <= TruncateBudget(c)}
SectionKept(c) ==
  /\ KeptParts(c) = c.sum.shown
  /\ Chars(c.hist, c.sum.section) + PartsFrom(c, 0) + Joint <= TruncateBudget(c)

\* The carry starts over: words a truncation removed must not come back.
Without(c, sum) ==
  Remembered([c EXCEPT !.sum = sum, !.out[c.head + 1] = Summary(c.hist, sum),
                       !.carry = {}, !.worst = 3, !.rung = 3])
Truncated(c) ==
  IF c.compacted /\ c.cut # 0 /\ Over(c)
       /\ (KeptParts(c) # c.sum.shown \/ (c.sum.section # {} /\ ~SectionKept(c)))
  THEN Without(c, [c.sum EXCEPT !.shown = KeptParts(c), !.section = {}]) ELSE c

\* One rung; the context is the same when there is nothing it can do.
OnRung(c, rung) == IF rung = 3 THEN Truncated(c) ELSE Compacted(c, rung)
Climb(c, rung) == IF Over(c) THEN OnRung(c, rung) ELSE c

-----------------------------------------------------------------------------
(* Preparing a request                                                     *)

Blank(h, p) ==
  [hist |-> h, policy |-> p, out |-> Originals(h, 1, Len(h)), head |-> 0, cut |-> 0,
   sum |-> NoSummary, carry |-> {}, rung |-> 0, compacted |-> FALSE, worst |-> 0,
   pending |-> <<>>, phase |-> "prepared"]
Idle == [Blank(<<>>, CHOOSE p \in setup.policies : TRUE) EXCEPT !.phase = "idle"]

\* substitute_longest_prefix: entries of another policy are passed over.
UsableAny(e, h, p) == IsPrefix(e.key, h)
Usable(e, h, p) == IsPrefix(e.key, h) /\ e.policy = p
Longest(entries, S) == CHOOSE i \in S : \A j \in S : Len(entries[j].key) <= Len(entries[i].key)
Found(h, p, entries) == {i \in DOMAIN entries : Usable(entries[i], h, p)}
Resumed(c, e) ==
  IF e.cut # Len(e.key) \/ e.head > e.cut THEN c
  ELSE [c EXCEPT !.out = Splice(c.hist, e.head, e.sum, e.cut), !.head = e.head, !.cut = e.cut,
                 !.sum = e.sum, !.carry = e.carry, !.worst = e.worst]
Substituted(h, p, entries) ==
  IF Found(h, p, entries) = {} THEN Blank(h, p)
  ELSE Resumed(Blank(h, p), entries[Longest(entries, Found(h, p, entries))])

\* prepare_policy: the base setting, then the ladder while the list is over.
Prepare(h, p, entries) ==
  LET c == Climb(Climb(Climb(Substituted(h, p, entries), Base), 1), 2)
  IN IF setup.strict THEN Climb(c, 3) ELSE c

\* reactive: after a length rejection, the next rung that changes anything.
MayStart(c) == ~c.compacted /\ c.rung = 0
RungsLeft(c) == {rung \in c.rung + 1..3 : OnRung(c, rung) # c}
NextRung(c) ==
  IF MayStart(c) /\ OnRung(c, First) # c THEN {First}
  ELSE {rung \in RungsLeft(c) : \A r \in RungsLeft(c) : rung <= r}

-----------------------------------------------------------------------------
(* The prefix store                                                        *)

EntryBytes(e) == Len(e.key) + SummaryChars(e.key, e.sum) + Chars(e.key, e.carry)
BytesOf(s) == MapThenSumSet(LAMBDA i : EntryBytes(s[i]), DOMAIN s)
Within(s) == Len(s) <= MaxEntries /\ BytesOf(s) <= setup.bytes

\* Entries leave in the order of their last use until both bounds hold.
Shrunk(s) ==
  LET drop == Min({k \in 0..Len(s) : Within(SubSeq(s, k + 1, Len(s)))} \cup {Len(s)})
  IN SubSeq(s, drop + 1, Len(s))

\* The place of a key's entry, and the store without it.
At(s, key) == {i \in DOMAIN s : s[i].key = key}
Removed(s, key) == IF At(s, key) = {} THEN s ELSE RemoveAt(s, Min(At(s, key)))

Put(s, e) ==
  IF MaxEntries = 0 \/ EntryBytes(e) > setup.bytes
  THEN Removed(s, e.key) ELSE Shrunk(Append(Removed(s, e.key), e))

\* touch: the entry becomes the latest used.
Touch(s, key) == IF At(s, key) = {} THEN s ELSE Append(Removed(s, key), s[Min(At(s, key))])

\* The lookup walks from the longest prefix down to the one it uses, and every
\* entry it meets counts as used.
Touched(h, p) ==
  LET met[n \in 0..Len(h)] ==
        IF n = 0 THEN store ELSE Touch(met[n - 1], SubSeq(h, 1, Len(h) + 1 - n))
  IN met[Len(h) + 1 - Max({1, Substituted(h, p, store).cut})]

-----------------------------------------------------------------------------
(* The steps                                                               *)

Init ==
  /\ setup \in Setups
  /\ history \in setup.openings
  /\ ctx = [w \in Workers |-> Idle]
  /\ store = <<>>

\* The client's agent makes another exchange.
Grow ==
  /\ \E t \in setup.turns : Len(history) + Len(t) <= setup.longest /\ history' = history \o t
  /\ UNCHANGED <<setup, ctx, store>>

\* The client drops its latest messages, back to one it sent a request after.
Rewind ==
  /\ setup.rewinds
  /\ \E n \in Min({Len(o) : o \in setup.openings})..Len(history) - 1 :
       ~Assistant(history[n]) /\ history' = SubSeq(history, 1, n)
  /\ UNCHANGED <<setup, ctx, store>>

\* Preparation is speculative: what it would remember stays with the request.
Send(w, p) ==
  /\ ctx[w].phase \in {"idle", "done"}
  /\ ctx' = [ctx EXCEPT ![w] = Prepare(history, p, store)]
  /\ store' = Touched(history, p)
  /\ UNCHANGED <<setup, history>>

\* The proxy accepts the result; a busy store is not waited for.
Published(c) ==
  LET put[n \in 0..Len(c.pending)] == IF n = 0 THEN store ELSE Put(put[n - 1], c.pending[n])
  IN put[Len(c.pending)]
Publish(w) ==
  /\ ctx[w].phase = "prepared"
  /\ ctx' = [ctx EXCEPT ![w].phase = "sent", ![w].pending = <<>>]
  /\ store' \in {Published(ctx[w]), store}
  /\ UNCHANGED <<setup, history>>

\* It timed out, is over capacity, or over budget in strict mode.
Discard(w) ==
  /\ ctx[w].phase = "prepared"
  /\ ctx' = [ctx EXCEPT ![w] = Idle]
  /\ UNCHANGED <<setup, history, store>>

\* The provider refuses the length; the next step of the ladder is sent.
Reject(w) ==
  /\ ctx[w].phase = "sent"
  /\ \E rung \in NextRung(ctx[w]) : \E next \in {OnRung(ctx[w], rung)} :
       /\ ctx' = [ctx EXCEPT ![w] = [next EXCEPT !.pending = <<>>]]
       /\ store' \in {Published(next), store}
  /\ UNCHANGED <<setup, history>>

\* It answers, or the ladder is spent and the client gets the refusal.
Finish(w) ==
  /\ ctx[w].phase = "sent"
  /\ ctx' = [ctx EXCEPT ![w].phase = "done"]
  /\ UNCHANGED <<setup, history, store>>

\* Another conversation's entry pushes the least recently used one out.
Evict ==
  /\ store # <<>>
  /\ store' = Tail(store)
  /\ UNCHANGED <<setup, history, ctx>>

\* The proxy is restarted; the client goes on with its history.
Restart ==
  /\ store' = <<>>
  /\ ctx' = [w \in Workers |-> Idle]
  /\ UNCHANGED <<setup, history>>

Next ==
  \/ Grow \/ Rewind \/ Evict \/ Restart
  \/ \E w \in setup.workers :
       \/ \E p \in setup.policies : Send(w, p)
       \/ Publish(w) \/ Discard(w) \/ Reject(w) \/ Finish(w)

Spec == Init /\ [][Next]_vars

-----------------------------------------------------------------------------
(* Properties                                                              *)

EmptyStore == <<>>
\* Turns kept verbatim: runs of model output behind the summary.
TailTurns(c) ==
  Cardinality({k \in c.head + 2..Len(c.out) : Assistant(c.out[k]) /\ ~Assistant(c.out[k - 1])})

\* Every request is a list over its own history.
TypeOK ==
  /\ \A w \in Workers : LET c == ctx[w] IN
       /\ c.phase \in {"idle", "prepared", "sent", "done"}
       /\ c.rung \in 0..3 /\ c.head \in 0..Len(c.hist) /\ c.cut \in 0..Len(c.hist)
       /\ c.sum.shown \cup c.sum.section \cup c.carry \subseteq 1..c.cut
       /\ \A k \in DOMAIN c.out : c.out[k].at \in 0..Len(c.hist)
  /\ \A i \in DOMAIN store : store[i].policy \in setup.policies

SameSent(c, d) == c.out = d.out /\ c.carry = d.carry /\ c.rung = d.rung

\* The promise of the store's doc and of docs/proxy.md: what an engine sends with
\* the entries it has kept, lost or rebuilt is what an engine with an empty store
\* sends for the same history, as long as the client only appends and no harsher
\* setting than the base one shaped the entry it starts from.
SameAsFresh ==
  [][~setup.rewinds => \A w \in Workers :
       /\ ctx[w].phase \in {"idle", "done"} /\ ctx'[w].phase = "prepared"
       /\ Substituted(history, ctx'[w].policy, store).worst = 0
       => SameSent(ctx'[w], Prepare(history, ctx'[w].policy, EmptyStore))]_vars

\* The comment on Replay: a list is the head, the summary and the rest of the
\* original history, in every phase and through every rung.  Whatever the next
\* request is given from the store is then what this one sent.
Spliced ==
  \A w \in Workers : LET c == ctx[w] IN
    c.cut # 0 => c.out = Splice(c.hist, c.head, c.sum, c.cut)

\* No tool call is parted from its result: what is kept verbatim starts where a
\* run of model output does.
WholeTurns ==
  \A w \in Workers : LET c == ctx[w] IN
    c.cut # 0 => /\ ~Assistant(c.hist[c.cut])
                 /\ c.cut < Len(c.hist) => Assistant(c.hist[c.cut + 1])

\* README: to a client that only appends, the newest turns are sent word for word,
\* keep_recent of them in a request no rung has shaped and one in any other.
NewestKept ==
  ~setup.rewinds => \A w \in Workers : LET c == ctx[w] IN
    c.cut # 0 => TailTurns(c) >= IF c.worst = 0 THEN setup.keep ELSE 1

\* A client that rewinds sends a request after every message: past an opening, as
\* long in all its conversations, the model answers each before the next.
Alternates(s) ==
  s.rewinds =>
    /\ \A o, q \in s.openings : Len(o) = Len(q)
    /\ \A o \in s.openings : \A i \in DOMAIN o : ~Assistant(o[i])
    /\ \A t \in s.turns : \A i \in DOMAIN t :
         ~Assistant(t[i]) => i # 1 /\ (i < Len(t) => Assistant(t[i + 1]))

\* All three: nothing that is sent is lost, parted from its turn or too little.
ListIsSound == Spliced /\ WholeTurns /\ NewestKept

\* The prefix a provider has cached stays byte for byte, for a client that only
\* appends and sends one request at a time: a request that extends the one sent
\* before and compacts nothing itself begins with what was sent.
Held(c) == \E i \in DOMAIN store :
  store[i].key = SubSeq(c.hist, 1, c.cut) /\ store[i].policy = c.policy /\ store[i].sum = c.sum

\* A retry after a length rejection always sends less: fewer messages, or as
\* many with a shorter summary.
RetryIsShorter ==
  [][\A w \in Workers : LET c == ctx[w] d == ctx'[w] IN
       c.phase = "sent" /\ d.phase = "sent" /\ d # c =>
         \/ Len(d.out) < Len(c.out)
         \/ Len(d.out) = Len(c.out) /\ ListChars(d.out) < ListChars(c.out)]_vars

=============================================================================
