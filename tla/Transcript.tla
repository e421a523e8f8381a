---------------------------- MODULE Transcript ----------------------------
(***************************************************************************)
(* The message list of a run (avid/agent/transcript.py) and the cut that   *)
(* a compaction makes in it (avid/agent/compaction.py).                    *)
(*                                                                         *)
(* A message is a record: its role, what its text stands for, the ids of   *)
(* the tool calls it makes and the id of the call it answers. Texts are    *)
(* left out; the length of the list stands for its size in characters.     *)
(***************************************************************************)
EXTENDS Integers, Sequences, FiniteSets, SequencesExt, FiniteSetsExt

Message(r, t, cs, i) == [role |-> r, text |-> t, calls |-> cs, id |-> i]
UserSays(t)      == Message("user", t, <<>>, 0)
AssistantSays(t) == Message("assistant", t, <<>>, 0)
Answer(i, t)     == Message("tool", t, <<>>, i)

(* The ids that await an answer after the first n messages: the calls of   *)
(* the last message that is no tool result, less those answered since.     *)
Owner(ms, n) == Max({0} \cup {j \in 1..n : ms[j].role # "tool"})

Expected(ms, n) ==
  LET o == Owner(ms, n)
  IN IF o = 0 THEN {}
     ELSE Range(ms[o].calls) \ {ms[k].id : k \in (o + 1)..n}

(* validate() reports no problem: each tool result answers an open call,   *)
(* and no call is open before another message or at the end.               *)
Valid(ms) ==
  \A n \in 1..(Len(ms) + 1) :
    IF n <= Len(ms) /\ ms[n].role = "tool"
    THEN ms[n].id \in Expected(ms, n - 1)
    ELSE Expected(ms, n - 1) = {}

(* A cut after the first n messages splits no call from its results.       *)
IsSafeBoundary(ms, n) ==
  \/ n <= 0 \/ n >= Len(ms)
  \/ ms[n + 1].role # "tool" /\ ms[n].calls = <<>>

(* estimate_chars(): what the trigger line is compared with.               *)
Size(ms) == Len(ms)

Rounds(ms) == {j \in 1..Len(ms) : ms[j].role = "assistant"}

CutAnywhere(ms, keep) == IF Len(ms) <= keep THEN 0 ELSE Len(ms) - keep

(* How many messages lie before the last `keep` rounds, moved on to the    *)
(* next safe boundary; 0 when there are fewer rounds.                      *)
CutPoint(ms, keep) ==
  LET first == {j \in Rounds(ms) : Cardinality({k \in Rounds(ms) : k >= j}) = keep}
      cut   == IF first = {} THEN 0 ELSE Min(first) - 1
  IN IF cut = 0 THEN 0
     ELSE Min({c \in cut..Len(ms) : IsSafeBoundary(ms, c)})

(* The window a pass keeps; a forced pass leaves at least one round out.   *)
KeepWindow(ms, keep, force) ==
  LET rounds == Cardinality(Rounds(ms))
  IN IF ~force \/ rounds < 2 \/ rounds >= keep THEN keep ELSE rounds - 1

Earlier(ms, cut) == SubSeq(ms, 1, cut)
Kept(ms, cut)    == SubSeq(ms, cut + 1, Len(ms))

(* What replaces the history: one summary message and the kept tail.       *)
Compacted(ms, cut) == <<UserSays("summary")>> \o Kept(ms, cut)
============================================================================
