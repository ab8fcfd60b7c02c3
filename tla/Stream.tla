------------------------------- MODULE Stream --------------------------------
(***************************************************************************)
(* Reading a provider's event stream as it passes (StreamMetrics in        *)
(* proxy_observations.rs): bytes arrive one by one in whatever pieces the  *)
(* network makes, an event ends with an empty line, an event too large for *)
(* the buffer is skipped as a unit, and the reply is judged at its end.    *)
(*                                                                         *)
(* A byte is a line feed "n", a carriage return "r", a blank "b" or        *)
(* content: "e" an event that says nothing of the outcome, "t" one that    *)
(* ends the reply, "f" a failure.  An event with one byte of content is    *)
(* what that byte says, one with several does not parse.  Usage, tools and *)
(* the other signs of an outcome are left out: they are read alike; so are *)
(* replies that are no stream.                                             *)
(***************************************************************************)
EXTENDS Naturals, Sequences, FiniteSets

CONSTANTS
  Byte,       \* the bytes that may arrive
  BufferLimit,  \* LIMIT; at least the length of a delimiter
  MaxBytes    \* bound: length of a reply

ASSUME StreamAssumption ==
  /\ Byte \subseteq {"n", "r", "b", "e", "t", "f"}
  /\ BufferLimit \in Nat /\ BufferLimit >= 4 /\ MaxBytes \in Nat

VARIABLES
  reply,     \* the bytes that have arrived
  buffer, discard, terminal, failed, uncertain, observed,  \* StreamMetrics
  reason     \* what is recorded of the reply at its end

metrics == <<buffer, discard, terminal, failed, uncertain, observed>>
streamVars == <<reply, metrics, reason>>

StreamTypeOK ==
  /\ reply \in Seq(Byte) /\ buffer \in Seq(Byte)
  /\ {discard, terminal, failed, uncertain, observed} \subseteq BOOLEAN
  /\ reason \in {"none", "error", "uncertain", "completed", "missing"}

StreamInit ==
  /\ reply = <<>> /\ buffer = <<>> /\ discard = FALSE
  /\ terminal = FALSE /\ failed = FALSE /\ uncertain = FALSE /\ observed = FALSE
  /\ reason = "none"

-----------------------------------------------------------------------------
(* observe, byte by byte                                                   *)

LastOf(s, n) == IF Len(s) > n THEN SubSeq(s, Len(s) - n + 1, Len(s)) ELSE s
Ends(s) == LastOf(s, 2) = <<"n", "n">> \/ LastOf(s, 4) = <<"r", "n", "r", "n">>

Blank == {"n", "r", "b"}
Content(s) == SelectSeq(s, LAMBDA b : b \notin Blank)

\* What one event does to the judgement.
Heard(frame) ==
  LET said == Content(frame)
      is(b) == said = <<b>>
  IN /\ terminal' = (terminal \/ is("t") \/ is("f"))
     /\ failed' = (failed \/ is("f"))
     /\ observed' = (observed \/ Len(said) = 1)
     /\ uncertain' = (uncertain \/ Len(said) > 1)

Unjudged == UNCHANGED <<terminal, failed, observed>>

\* In the middle of an event too large: only its end is looked for.
Skip1(b) ==
  LET tail == LastOf(Append(buffer, b), 4)
  IN /\ discard
     /\ IF Ends(tail) THEN discard' = FALSE /\ buffer' = <<>>
        ELSE buffer' = tail /\ UNCHANGED discard
     /\ Unjudged /\ UNCHANGED uncertain

KeepNothing(s) == <<>>                                                 \* Mutant
\* The start of a delimiter may be among the bytes that overflow.
KeepTail(s) == LastOf(s, 3)

Read1(b) ==
  LET s == Append(buffer, b)
  IN /\ ~discard
     /\ \/ Ends(s) /\ buffer' = <<>> /\ Heard(s) /\ UNCHANGED discard
        \/ /\ ~Ends(s) /\ Len(s) > BufferLimit
           /\ buffer' = KeepTail(s) /\ discard' = TRUE /\ uncertain' = TRUE /\ Unjudged
        \/ /\ ~Ends(s) /\ Len(s) <= BufferLimit
           /\ buffer' = s /\ Unjudged /\ UNCHANGED <<uncertain, discard>>

Arrive(b) ==
  /\ reason = "none" /\ Len(reply) < MaxBytes
  /\ reply' = Append(reply, b)
  /\ Skip1(b) \/ Read1(b)
  /\ UNCHANGED reason

\* finish_json and completion_reason.
OnlyDiscarded == discard                                               \* Mutant
Unfinished == Content(buffer) # <<>> \/ discard
Judged ==
  IF failed THEN "error"
  ELSE IF uncertain \/ Unfinished THEN "uncertain"
  ELSE IF terminal THEN "completed"
  ELSE IF observed THEN "missing"
  ELSE "uncertain"
Finish1 ==
  /\ reason = "none"
  /\ uncertain' = (uncertain \/ Unfinished) /\ reason' = Judged
  /\ buffer' = <<>>
  /\ Unjudged /\ UNCHANGED <<reply, discard>>

StreamNext == (\E b \in Byte : Arrive(b)) \/ Finish1
StreamSpec == StreamInit /\ [][StreamNext]_streamVars

-----------------------------------------------------------------------------
(* The reply as a whole                                                    *)

\* The first delimiter that ends after position i, and what it cuts off.
EndAfter(i) ==
  LET ends == {k \in (i + 1)..Len(reply) : Ends(SubSeq(reply, i + 1, k))}
  IN IF ends = {} THEN 0 ELSE CHOOSE k \in ends : \A e \in ends : k <= e

\* The events of the reply, and what follows the last of them.
Split ==
  LET f[i \in 0..Len(reply)] ==
        IF EndAfter(i) = 0 THEN [events |-> {}, rest |-> SubSeq(reply, i + 1, Len(reply))]
        ELSE [f[EndAfter(i)] EXCEPT !.events = @ \cup {SubSeq(reply, i + 1, EndAfter(i))}]
  IN f[0]

TooLarge(event) == Len(event) > BufferLimit + 1
Says(event, b) == ~TooLarge(event) /\ Content(event) = <<b>>

(* Properties *)

\* However a reply is cut up and whatever of it is too large to keep, its
\* outcome is that of its events: one that is skipped or does not parse hides
\* neither itself nor its neighbours.
OutcomeIsTrue ==
  reason # "none" =>
    LET is(b) == \E event \in Split.events : Says(event, b)
        lost == \/ \E event \in Split.events : TooLarge(event) \/ Len(Content(event)) > 1
                \/ Content(Split.rest) # <<>> \/ Len(Split.rest) > BufferLimit
    IN /\ reason = "error" <=> is("f")
       /\ reason = "completed" => is("t") /\ ~lost
       /\ is("t") /\ ~is("f") /\ ~lost => reason = "completed"
       /\ reason = "missing" => Split.events # {} /\ ~lost /\ ~is("t")
=============================================================================
