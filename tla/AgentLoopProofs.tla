--------------------------- MODULE AgentLoopProofs ---------------------------
(***************************************************************************)
(* Proofs about the agent loop and its tool batches, for batches of any    *)
(* size, any parallel limit, any valid history and any budget.             *)
(*                                                                         *)
(* Segments: the number of a call's segment never falls along the batch,   *)
(* and rises at both sides of a call that may not overlap; the calls of    *)
(* the segments before the current one are answered, those of the          *)
(* segments after it are untouched (BatchInv).                             *)
(*                                                                         *)
(* Transcript: it is valid whenever the run is not between the turn that   *)
(* calls tools and the results of its batch; in between it is a valid      *)
(* transcript and the turn whose calls the batch executes (LoopInv).       *)
(***************************************************************************)
EXTENDS AgentLoop, SequenceTheorems, FiniteSetTheorems, WellFoundedInduction,
        NaturalsInduction, TLAPS

CallOK(i) ==
  /\ SegmentOf(batch, i) < segment => status[i] = "answered"
  /\ SegmentOf(batch, i) > segment => status[i] = "todo"
  /\ answer[i] = "none" <=> status[i] # "answered"
  /\ (status[i] = "running" \/ answer[i] = "result") => i \in ran
  /\ i \in ran => (status[i] = "running" \/ answer[i] \in {"result", "failed"})

BatchTyped ==
  /\ batch \in Seq(Kinds) /\ segment \in Nat
  /\ status \in [1..Len(batch) -> Statuses]
  /\ answer \in [1..Len(batch) -> Contents]
  /\ ran \subseteq 1..Len(batch)

BatchInv == BatchTyped /\ \A i \in 1..Len(batch) : CallOK(i)

(* Of the children of the latest subagent call, in order, those reported   *)
(* so far; one that is said to have ended has.                             *)
ChildInv ==
  /\ children \in Seq({"working", "done"}) /\ reports \in Seq({"ended", "left"})
  /\ Len(reports) <= Len(children)
  /\ \A k \in 1..Len(reports) : reports[k] = "ended" => children[k] = "done"

(* The turn whose calls the batch executes.                                *)
Turn(b) == Message("assistant", "blank", [i \in 1..Len(b) |-> i], 0)

(* At the gate the last message is the turn that asked for nothing.        *)
GateInv ==
  pc = "gate" =>
    messages # <<>> /\ Last(messages).role = "assistant" /\ recorded = Last(messages)

(* A compaction under way has something to fold.                           *)
FoldInv == pc \in {"reuse", "engine"} => Cut(onward) > 0

LoopTyped ==
  /\ messages \in Seq(Messages)
  /\ onward \in {"call", "resend", "command"}
  /\ pending \in Nat /\ steers \in Nat \X Nat

LoopInv ==
  /\ LoopTyped
  /\ pc \notin {"batch", "tools", "ended"} => Valid(messages)
  /\ pc \in {"batch", "tools"} =>
       \E ms \in Seq(Messages) : Valid(ms) /\ messages = Append(ms, Turn(batch))
  /\ FoldInv /\ GateInv
  /\ reason # "none" => pc = "ended"
  /\ EndsVisibly

IInv == BatchInv /\ ChildInv /\ LoopInv

----------------------------------------------------------------------------
(* The least and the greatest element of a set of numbers.                 *)

(* A set of numbers that is not empty has a least element.                 *)
LEMMA LeastNumber ==
  ASSUME NEW S \in SUBSET Nat, S # {}
  PROVE  \E x \in S : \A y \in S : x <= y
<1> DEFINE R == {ss \in Nat \X Nat : ss[1] < ss[2]}
<1>1. IsWellFoundedOn(R, Nat)
  BY NatLessThanWellFounded DEF OpToRel
<1>2. PICK x \in S : \A y \in Nat : <<y, x>> \in R => y \notin S
  <2> HIDE DEF R
  <2> QED BY <1>1, WFMin
<1>3. \A y \in S : ~(y < x)
  BY <1>2
<1> QED BY <1>3

(* What Min chooses: the least element.                                    *)
LEMMA MinIs ==
  ASSUME NEW S \in SUBSET Nat, S # {}
  PROVE  Min(S) \in S /\ \A y \in S : Min(S) <= y
BY LeastNumber DEF Min

(* What Max chooses from a bounded set: the greatest element.              *)
LEMMA MaxIs ==
  ASSUME NEW n \in Nat, NEW S \in SUBSET (0..n), S # {}
  PROVE  Max(S) \in S /\ \A y \in S : Max(S) >= y
<1> DEFINE T == {k \in 0..n : n - k \in S}
<1>1. T \in SUBSET Nat /\ T # {}
  <2>1. PICK x \in S : TRUE
    OBVIOUS
  <2>2. n - x \in 0..n /\ n - (n - x) = x
    OBVIOUS
  <2>3. n - x \in T
    BY <2>2
  <2>4. T \subseteq Nat
    OBVIOUS
  <2> HIDE DEF T
  <2> QED BY <2>3, <2>4
<1>2. PICK k \in T : \A j \in T : k <= j
  <2> HIDE DEF T
  <2> QED BY <1>1, LeastNumber
<1>3. n - k \in S
  OBVIOUS
<1>4. \A y \in S : n - y \in T
  OBVIOUS
<1>5. \A y \in S : n - k >= y
  BY <1>2, <1>4
<1> QED BY <1>3, <1>5 DEF Max

----------------------------------------------------------------------------
(* What awaits an answer after n messages.                                 *)

(* The last of the first n messages that is no result, when there is one.  *)
LEMMA OwnerIs ==
  ASSUME NEW ms, NEW n \in Nat, NEW o \in 1..n, ms[o].role # "tool",
         \A k \in (o + 1)..n : ms[k].role = "tool"
  PROVE  Owner(ms, n) = o
<1> DEFINE S == {0} \cup {j \in 1..n : ms[j].role # "tool"}
<1>1. S \in SUBSET (0..n) /\ S # {} /\ o \in S
  OBVIOUS
<1>2. \A y \in S : y <= o
  OBVIOUS
<1>3. Max(S) \in S /\ \A y \in S : Max(S) >= y
  <2> HIDE DEF S
  <2> QED BY <1>1, MaxIs
<1>4. Max(S) \in 0..n
  BY <1>1, <1>3
<1>5. Max(S) = o
  <2> HIDE DEF S
  <2> QED BY <1>1, <1>2, <1>3, <1>4
<1> QED BY <1>5 DEF Owner

(* When only results follow the message at o, what is owed are its calls   *)
(* without those answered.                                                 *)
LEMMA ExpectedIs ==
  ASSUME NEW ms, NEW n \in Nat, NEW o \in 1..n, ms[o].role # "tool",
         \A k \in (o + 1)..n : ms[k].role = "tool"
  PROVE  Expected(ms, n) = Range(ms[o].calls) \ {ms[k].id : k \in (o + 1)..n}
<1>1. Owner(ms, n) = o /\ o # 0
  BY OwnerIs
<1> QED BY <1>1 DEF Expected

(* A message that makes no calls leaves none open.                         *)
Plain(m) == m.role # "tool" /\ m.calls = <<>>

(* After a message without calls that is no result, nothing is owed.       *)
LEMMA PlainExpectsNothing ==
  ASSUME NEW ms, NEW n \in Nat \ {0}, Plain(ms[n])
  PROVE  Expected(ms, n) = {}
<1>1. Expected(ms, n) = Range(ms[n].calls) \ {ms[k].id : k \in (n + 1)..n}
  BY ExpectedIs DEF Plain
<1>2. Range(<<>>) = {}
  BY DEF Range
<1> QED BY <1>1, <1>2 DEF Plain

(* Only the first n messages count.                                        *)
LEMMA ExpectedPrefix ==
  ASSUME NEW ms, NEW ns, NEW n \in Nat, \A k \in 1..n : ms[k] = ns[k]
  PROVE  Expected(ms, n) = Expected(ns, n)
<1> DEFINE S == {0} \cup {j \in 1..n : ms[j].role # "tool"}
           o == Owner(ms, n)
<1>1. S = {0} \cup {j \in 1..n : ns[j].role # "tool"}
  OBVIOUS
<1>2. o = Owner(ns, n) /\ o = Max(S)
  BY <1>1 DEF Owner
<1>3. o \in 0..n
  <2>1. S \in SUBSET (0..n) /\ S # {}
    OBVIOUS
  <2> HIDE DEF S
  <2> QED BY <1>2, <2>1, MaxIs
<1>4. CASE o = 0
  BY <1>2, <1>4 DEF Expected
<1>5. CASE o # 0
  <2>1. ms[o] = ns[o] /\ \A k \in (o + 1)..n : ms[k] = ns[k]
    BY <1>3, <1>5
  <2>2. {ms[k].id : k \in (o + 1)..n} = {ns[k].id : k \in (o + 1)..n}
    BY <2>1
  <2>3. Expected(ms, n) = Range(ms[o].calls) \ {ms[k].id : k \in (o + 1)..n}
    BY <1>5 DEF Expected
  <2>4. Expected(ns, n) = Range(ns[o].calls) \ {ns[k].id : k \in (o + 1)..n}
    BY <1>2, <1>5 DEF Expected
  <2> QED BY <2>1, <2>2, <2>3, <2>4
<1> QED BY <1>4, <1>5

(* The n messages after c of one list are those after d of the other.      *)
SameAfter(ms, c, ns, d, n) == \A k \in 1..n : ms[c + k] = ns[d + k]

(* The first c messages of a list, dropped: where the rest begins with a   *)
(* message that is no result, they do not count either.                    *)
LEMMA ExpectedSuffix ==
  ASSUME NEW ms, NEW ns, NEW c \in Nat, NEW d \in Nat, NEW n \in Nat \ {0},
         SameAfter(ms, c, ns, d, n), ms[c + 1].role # "tool"
  PROVE  Expected(ms, c + n) = Expected(ns, d + n)
<1> USE DEF SameAfter
<1> DEFINE S == {0} \cup {j \in 1..n : ms[c + j].role # "tool"}
<1>1. S \in SUBSET (0..n) /\ S # {} /\ 1 \in S
  OBVIOUS
<1>2. PICK o \in S : \A y \in S : o >= y
  <2> HIDE DEF S
  <2> QED BY <1>1, MaxIs
<1>3. o \in 1..n /\ ms[c + o].role # "tool"
  BY <1>1, <1>2
<1>4. \A k \in (o + 1)..n : ms[c + k].role = "tool"
  BY <1>2, <1>3
<1>5. \A k \in (c + o + 1)..(c + n) : ms[k].role = "tool"
  <2> TAKE k \in (c + o + 1)..(c + n)
  <2>1. k - c \in (o + 1)..n /\ c + (k - c) = k
    BY <1>3
  <2> QED BY <1>4, <2>1
<1>6. Expected(ms, c + n) = Range(ms[c + o].calls) \ {ms[k].id : k \in (c + o + 1)..(c + n)}
  BY <1>3, <1>5, ExpectedIs
<1>7. ns[d + o] = ms[c + o]
  BY <1>3
<1>8. \A k \in (d + o + 1)..(d + n) : ns[k] = ms[c + (k - d)] /\ k - d \in (o + 1)..n
  <2> TAKE k \in (d + o + 1)..(d + n)
  <2>1. k - d \in 1..n /\ k - d \in (o + 1)..n /\ d + (k - d) = k
    BY <1>3
  <2> QED BY <2>1
<1>9. Expected(ns, d + n) = Range(ns[d + o].calls) \ {ns[k].id : k \in (d + o + 1)..(d + n)}
  <2>1. d + n \in Nat /\ d + o \in 1..(d + n) /\ ns[d + o].role # "tool"
    BY <1>3, <1>7
  <2>2. \A k \in (d + o + 1)..(d + n) : ns[k].role = "tool"
    BY <1>4, <1>8
  <2> QED BY <2>1, <2>2, ExpectedIs
<1>10. {ns[k].id : k \in (d + o + 1)..(d + n)} = {ms[k].id : k \in (c + o + 1)..(c + n)}
  <2>1. ASSUME NEW k \in (d + o + 1)..(d + n)
        PROVE  \E j \in (c + o + 1)..(c + n) : ms[j].id = ns[k].id
    <3>1. c + (k - d) \in (c + o + 1)..(c + n)
      BY <1>3
    <3> QED BY <1>8, <3>1
  <2>2. ASSUME NEW j \in (c + o + 1)..(c + n)
        PROVE  \E k \in (d + o + 1)..(d + n) : ns[k].id = ms[j].id
    <3>1. d + (j - c) \in (d + o + 1)..(d + n) /\ c + (d + (j - c) - d) = j
      BY <1>3
    <3> QED BY <1>8, <3>1
  <2> QED BY <2>1, <2>2
<1> QED BY <1>6, <1>7, <1>9, <1>10

----------------------------------------------------------------------------
(* What keeps a transcript valid.                                          *)

(* The condition of Valid at one place.                                    *)
ValidAt(ms, n) ==
  IF n <= Len(ms) /\ ms[n].role = "tool" THEN ms[n].id \in Expected(ms, n - 1)
  ELSE Expected(ms, n - 1) = {}

(* validate() position by position.                                        *)
LEMMA ValidIs ==
  ASSUME NEW ms
  PROVE  Valid(ms) <=> \A n \in 1..(Len(ms) + 1) : ValidAt(ms, n)
BY DEF Valid, ValidAt

(* Within a common prefix two transcripts are valid alike.                 *)
LEMMA ValidAtPrefix ==
  ASSUME NEW ms, NEW ns, Len(ms) \in Nat, Len(ns) \in Nat, NEW c \in Nat,
         c <= Len(ms), c <= Len(ns), \A k \in 1..c : ns[k] = ms[k],
         NEW n \in 1..c, ValidAt(ms, n)
  PROVE  ValidAt(ns, n)
<1>1. n - 1 \in Nat /\ \A k \in 1..(n - 1) : ms[k] = ns[k]
  OBVIOUS
<1>2. Expected(ms, n - 1) = Expected(ns, n - 1)
  BY <1>1, ExpectedPrefix
<1> QED BY <1>2 DEF ValidAt

(* Messages without calls may follow a valid transcript.                   *)
LEMMA ValidSays ==
  ASSUME NEW ms \in Seq(Messages), Valid(ms), NEW ps \in Seq(Messages),
         \A i \in 1..Len(ps) : Plain(ps[i])
  PROVE  ms \o ps \in Seq(Messages) /\ Valid(ms \o ps)
<1> DEFINE ns == ms \o ps  L == Len(ms)
<1>1. /\ ns \in Seq(Messages) /\ L \in Nat /\ L = Len(ms) /\ Len(ns) = L + Len(ps) /\ Len(ps) \in Nat
      /\ \A k \in 1..L : ns[k] = ms[k]
      /\ \A k \in (L + 1)..(L + Len(ps)) : ns[k] = ps[k - L]
  BY ConcatProperties, LenProperties
<1>2. \A k \in (L + 1)..Len(ns) : Plain(ns[k])
  <2> TAKE k \in (L + 1)..Len(ns)
  <2>1. k - L \in 1..Len(ps) /\ ns[k] = ps[k - L]
    BY <1>1
  <2> HIDE DEF ns, L
  <2> QED BY <2>1
<1>3. \A n \in 1..(L + 1) : ValidAt(ms, n)
  BY ValidIs
<1> HIDE DEF ns, L
<1>4. ASSUME NEW n \in 1..(Len(ns) + 1) PROVE ValidAt(ns, n)
  <2>1. CASE n <= L
    <3>1. ValidAt(ms, n) /\ n \in 1..L
      BY <1>1, <1>3, <2>1
    <3>2. L <= Len(ms) /\ L <= Len(ns) /\ Len(ns) \in Nat
      BY <1>1
    <3> QED BY <1>1, <3>1, <3>2, ValidAtPrefix
  <2>2. CASE n = L + 1
    <3>1. Expected(ms, L) = {}
      <4>1. ValidAt(ms, L + 1) /\ ~(L + 1 <= Len(ms)) /\ (L + 1) - 1 = L
        BY <1>1, <1>3
      <4> QED BY <4>1 DEF ValidAt
    <3>2. Expected(ns, L) = {}
      BY <1>1, <3>1, ExpectedPrefix
    <3>3. n <= Len(ns) => ns[n].role # "tool"
      BY <1>1, <1>2, <2>2 DEF Plain
    <3> QED BY <1>1, <2>2, <3>2, <3>3 DEF ValidAt
  <2>3. CASE n > L + 1
    <3>1. n - 1 \in Nat \ {0} /\ n - 1 \in (L + 1)..Len(ns)
      BY <1>1, <2>3
    <3>2. Expected(ns, n - 1) = {}
      BY <1>2, <3>1, PlainExpectsNothing
    <3>3. n <= Len(ns) => ns[n].role # "tool"
      BY <1>1, <1>2, <2>3 DEF Plain
    <3> QED BY <3>2, <3>3 DEF ValidAt
  <2> QED BY <1>1, <2>1, <2>2, <2>3
<1>5. Valid(ns)
  BY <1>4, ValidIs
<1> QED BY <1>1, <1>5 DEF ns

(* A turn that makes k calls, and their k results in the same order.       *)
LEMMA ValidResults ==
  ASSUME NEW ms \in Seq(Messages), Valid(ms), NEW b \in Seq(Kinds)
  PROVE  /\ Append(ms, Turn(b)) \o [i \in 1..Len(b) |-> Answer(i, "result")] \in Seq(Messages)
         /\ Valid(Append(ms, Turn(b)) \o [i \in 1..Len(b) |-> Answer(i, "result")])
<1> DEFINE out == [i \in 1..Len(b) |-> Answer(i, "result")]
           ns == Append(ms, Turn(b)) \o out
           L == Len(ms)
           K == Len(b)
<1>1. L \in Nat /\ K \in Nat /\ L = Len(ms)
  BY LenProperties
<1>2. [i \in 1..K |-> i] \in Seq(Nat)
  BY <1>1, SeqDef
<1>3. /\ Turn(b) \in Messages /\ Turn(b).role = "assistant" /\ Turn(b).calls = [i \in 1..K |-> i]
  BY <1>2 DEF Turn, Message, Messages, Texts
<1>4. \A i \in 1..K : /\ out[i] \in Messages
                      /\ out[i].role = "tool" /\ out[i].id = i
  BY <1>1 DEF Answer, Message, Messages, Texts
<1>5. out \in Seq(Messages) /\ Len(out) = K
  <2> HIDE DEF K
  <2>1. out \in [1..K -> Messages]
    BY <1>4 DEF K
  <2>2. out \in Seq(Messages)
    BY <1>1, <2>1, SeqDef
  <2>3. DOMAIN out = 1..K /\ DOMAIN out = 1..Len(out) /\ Len(out) \in Nat
    BY <2>1, <2>2, LenProperties
  <2> HIDE DEF out
  <2> QED BY <1>1, <2>2, <2>3
<1> HIDE DEF out, K
<1>6. /\ Append(ms, Turn(b)) \in Seq(Messages) /\ Len(Append(ms, Turn(b))) = L + 1
      /\ \A k \in 1..L : Append(ms, Turn(b))[k] = ms[k]
      /\ Append(ms, Turn(b))[L + 1] = Turn(b)
  BY <1>3, AppendProperties
<1>7. /\ ns \in Seq(Messages) /\ Len(ns) = L + 1 + K
      /\ \A k \in 1..(L + 1) : ns[k] = Append(ms, Turn(b))[k]
      /\ \A k \in (L + 2)..(L + 1 + K) : ns[k] = out[k - (L + 1)]
  <2> DEFINE as == Append(ms, Turn(b))
  <2>1. as \in Seq(Messages) /\ Len(as) = L + 1
    BY <1>6
  <2> HIDE DEF as
  <2>2. /\ as \o out \in Seq(Messages) /\ Len(as \o out) = L + 1 + K
        /\ \A k \in 1..(L + 1) : (as \o out)[k] = as[k]
        /\ \A k \in (L + 2)..(L + 1 + K) : (as \o out)[k] = out[k - (L + 1)]
    <3> HIDE DEF L
    <3>1. \A k \in 1..(L + 1 + K) : (as \o out)[k] = IF k <= L + 1 THEN as[k] ELSE out[k - (L + 1)]
      <4>1. \A k \in 1..(Len(as) + Len(out)) :
               (as \o out)[k] = IF k <= Len(as) THEN as[k] ELSE out[k - Len(as)]
        BY <1>5, <2>1, ConcatProperties
      <4> QED BY <1>5, <2>1, <4>1
    <3>2. \A k \in 1..(L + 1) : k \in 1..(L + 1 + K) /\ k <= L + 1
      BY <1>1
    <3>3. \A k \in (L + 2)..(L + 1 + K) : k \in 1..(L + 1 + K) /\ ~(k <= L + 1)
      BY <1>1
    <3>4. as \o out \in Seq(Messages) /\ Len(as \o out) = L + 1 + K
      BY <1>1, <1>5, <2>1, ConcatProperties
    <3> QED BY <3>1, <3>2, <3>3, <3>4
  <2> QED BY <2>2 DEF as
<1>8. /\ \A k \in 1..L : ns[k] = ms[k]
      /\ ns[L + 1] = Turn(b)
      /\ \A i \in 1..K : ns[L + 1 + i] = out[i]
  <2> HIDE DEF ns, L
  <2>1. \A i \in 1..K : L + 1 + i \in (L + 2)..(L + 1 + K) /\ (L + 1 + i) - (L + 1) = i
    BY <1>1
  <2>2. 1..L \subseteq 1..(L + 1) /\ L + 1 \in 1..(L + 1)
    BY <1>1
  <2>3. \A k \in 1..L : ns[k] = ms[k]
    BY <1>6, <1>7, <2>2
  <2>4. ns[L + 1] = Turn(b)
    BY <1>6, <1>7, <2>2
  <2>5. \A i \in 1..K : ns[L + 1 + i] = out[i]
    BY <1>7, <2>1
  <2> QED BY <2>3, <2>4, <2>5
<1> HIDE DEF ns, L
<1>9. \A n \in 1..(L + 1) : ValidAt(ms, n)
  BY ValidIs DEF L
<1>10. ASSUME NEW j \in 0..K
       PROVE  Expected(ns, L + 1 + j) = (1..K) \ (1..j)
  <2>1. \A k \in (L + 2)..(L + 1 + j) : ns[k].role = "tool" /\ ns[k].id = k - (L + 1)
    <3> TAKE k \in (L + 2)..(L + 1 + j)
    <3>1. k - (L + 1) \in 1..K /\ L + 1 + (k - (L + 1)) = k
      BY <1>1
    <3>2. ns[k] = out[k - (L + 1)]
      BY <1>8, <3>1
    <3> QED BY <1>4, <3>1, <3>2
  <2>2. Expected(ns, L + 1 + j) = Range(ns[L + 1].calls) \ {ns[k].id : k \in (L + 2)..(L + 1 + j)}
    <3>1. L + 1 + j \in Nat /\ L + 1 \in 1..(L + 1 + j) /\ L + 1 + 1 = L + 2
      BY <1>1
    <3>2. ns[L + 1].role # "tool"
      BY <1>3, <1>8
    <3>3. \A k \in (L + 1 + 1)..(L + 1 + j) : ns[k].role = "tool"
      BY <2>1, <3>1
    <3>4. Expected(ns, L + 1 + j)
            = Range(ns[L + 1].calls) \ {ns[k].id : k \in (L + 1 + 1)..(L + 1 + j)}
      BY <3>1, <3>2, <3>3, ExpectedIs
    <3> QED BY <3>1, <3>4
  <2>3. Range(ns[L + 1].calls) = 1..K
    <3>1. ns[L + 1].calls = [i \in 1..K |-> i]
      BY <1>3, <1>8
    <3>2. Range([i \in 1..K |-> i]) = 1..K
      BY DEF Range
    <3> QED BY <3>1, <3>2
  <2>4. {ns[k].id : k \in (L + 2)..(L + 1 + j)} = 1..j
    <3>1. \A i \in 1..j : L + 1 + i \in (L + 2)..(L + 1 + j) /\ ns[L + 1 + i].id = i
      BY <1>1, <2>1
    <3>2. \A k \in (L + 2)..(L + 1 + j) : ns[k].id \in 1..j
      BY <1>1, <2>1
    <3> QED BY <3>1, <3>2
  <2> QED BY <2>2, <2>3, <2>4
<1>11. ASSUME NEW n \in 1..(Len(ns) + 1) PROVE ValidAt(ns, n)
  <2>1. CASE n <= L
    <3>1. ValidAt(ms, n) /\ n \in 1..L
      BY <1>1, <1>9, <2>1
    <3>2. L <= Len(ms) /\ L <= Len(ns) /\ Len(ns) \in Nat
      BY <1>1, <1>7
    <3> QED BY <1>1, <1>8, <3>1, <3>2, ValidAtPrefix
  <2>2. CASE n = L + 1
    <3>1. Expected(ms, L) = {}
      <4>1. ValidAt(ms, L + 1) /\ ~(L + 1 <= Len(ms)) /\ (L + 1) - 1 = L
        BY <1>1, <1>9
      <4> QED BY <4>1 DEF ValidAt
    <3>2. Expected(ns, L) = {}
      BY <1>1, <1>8, <3>1, ExpectedPrefix
    <3>3. ns[n].role # "tool"
      BY <1>3, <1>8, <2>2
    <3> QED BY <1>1, <2>2, <3>2, <3>3 DEF ValidAt
  <2>3. CASE n > L + 1
    <3> DEFINE j == n - (L + 2)
    <3>1. j \in 0..K /\ n - 1 = L + 1 + j
      BY <1>1, <1>7, <2>3
    <3>2. Expected(ns, n - 1) = (1..K) \ (1..j)
      BY <1>10, <3>1
    <3>3. CASE n <= Len(ns)
      <4>1. j + 1 \in 1..K /\ n = L + 1 + (j + 1) /\ j + 1 \notin 1..j
        BY <1>1, <1>7, <2>3, <3>1, <3>3
      <4>2. ns[n].role = "tool" /\ ns[n].id = j + 1
        BY <1>4, <1>8, <4>1
      <4> QED BY <3>2, <3>3, <4>1, <4>2 DEF ValidAt
    <3>4. CASE n > Len(ns)
      <4>1. j = K
        <5>1. Len(ns) = L + 1 + K /\ Len(ns) \in Nat
          BY <1>1, <1>7
        <5> QED BY <1>1, <3>4, <5>1
      <4>2. Expected(ns, n - 1) = {}
        BY <3>2, <4>1
      <4> QED BY <1>1, <1>7, <3>4, <4>2 DEF ValidAt
    <3> QED BY <1>1, <1>7, <3>3, <3>4
  <2> QED BY <1>1, <1>7, <2>1, <2>2, <2>3
<1>12. Valid(ns)
  BY <1>11, ValidIs
<1> QED BY <1>7, <1>12 DEF ns, out

(* The cut lies within the list, at a safe boundary.                       *)
LEMMA CutIsSafe ==
  ASSUME NEW ms \in Seq(Messages), NEW keep
  PROVE  /\ CutPoint(ms, keep) \in 0..Len(ms)
         /\ CutPoint(ms, keep) > 0 => IsSafeBoundary(ms, CutPoint(ms, keep))
<1> DEFINE L == Len(ms)
           first == {j \in Rounds(ms) : Cardinality({k \in Rounds(ms) : k >= j}) = keep}
           cut == IF first = {} THEN 0 ELSE Min(first) - 1
           Boundaries == {c \in cut..Len(ms) : IsSafeBoundary(ms, c)}
<1>1. L \in Nat
  BY LenProperties
<1>2. first \in SUBSET (1..L)
  BY DEF Rounds
<1>3. CutPoint(ms, keep) = IF cut = 0 THEN 0 ELSE Min(Boundaries)
  BY DEF CutPoint
<1>4. cut \in 0..L
  <2> HIDE DEF first
  <2>1. CASE first = {}
    BY <1>1, <2>1
  <2>2. CASE first # {}
    <3>1. first \in SUBSET Nat
      BY <1>2
    <3>2. Min(first) \in first
      BY <2>2, <3>1, MinIs
    <3>3. Min(first) \in 1..L
      BY <1>2, <3>2
    <3> QED BY <1>1, <2>2, <3>3
  <2> QED BY <2>1, <2>2
<1> HIDE DEF cut
<1>5. L \in Boundaries
  BY <1>1, <1>4 DEF IsSafeBoundary
<1>6. Boundaries \in SUBSET Nat
  BY <1>1, <1>4
<1>7. Min(Boundaries) \in Boundaries
  <2> HIDE DEF Boundaries
  <2> QED BY <1>5, <1>6, MinIs
<1> QED BY <1>1, <1>3, <1>4, <1>7

(* A safe cut leaves a valid transcript before it,                         *)
LEMMA ValidEarlier ==
  ASSUME NEW ms \in Seq(Messages), Valid(ms), NEW c \in 1..Len(ms), IsSafeBoundary(ms, c)
  PROVE  Valid(Earlier(ms, c))
<1> DEFINE ns == Earlier(ms, c)
<1>1. Len(ms) \in Nat /\ c \in Nat
  BY LenProperties
<1>2. ns \in Seq(Messages) /\ Len(ns) = c /\ \A k \in 1..c : ns[k] = ms[k]
  <2>1. 1 \in Int /\ c \in Int /\ \A i \in 1..c : i \in 1..Len(ms)
    BY <1>1
  <2> QED BY <1>1, <2>1, SubSeqProperties DEF Earlier
<1>3. \A n \in 1..(Len(ms) + 1) : ValidAt(ms, n)
  BY ValidIs
<1> HIDE DEF ns
<1>4. ASSUME NEW n \in 1..(Len(ns) + 1) PROVE ValidAt(ns, n)
  <2>1. CASE n <= c
    <3>1. ValidAt(ms, n) /\ n \in 1..c /\ c <= Len(ms) /\ c <= Len(ns)
      BY <1>1, <1>2, <1>3, <2>1
    <3> QED BY <1>1, <1>2, <3>1, ValidAtPrefix
  <2>2. CASE n = c + 1
    <3>1. ValidAt(ms, c + 1) /\ (c + 1) - 1 = c
      BY <1>1, <1>3
    <3>2. c + 1 <= Len(ms) => ms[c + 1].role # "tool"
      BY <1>1 DEF IsSafeBoundary
    <3>3. Expected(ms, c) = {}
      BY <3>1, <3>2 DEF ValidAt
    <3>4. Expected(ns, c) = {}
      BY <1>1, <1>2, <3>3, ExpectedPrefix
    <3>5. ~(n <= Len(ns)) /\ n - 1 = c
      BY <1>1, <1>2, <2>2
    <3> QED BY <3>4, <3>5 DEF ValidAt
  <2> QED BY <1>1, <1>2, <2>1, <2>2
<1>5. Valid(ns)
  BY <1>4, ValidIs
<1> QED BY <1>5 DEF ns

(* and one after it, behind the summary.                                   *)
LEMMA ValidCompacted ==
  ASSUME NEW ms \in Seq(Messages), Valid(ms), NEW c \in 1..Len(ms), IsSafeBoundary(ms, c)
  PROVE  Compacted(ms, c) \in Seq(Messages) /\ Valid(Compacted(ms, c))
<1> DEFINE kept == Kept(ms, c)
           summary == UserSays("summary")
           ns == <<summary>> \o kept
           K == Len(ms) - c
<1>1. Len(ms) \in Nat /\ c \in Nat /\ K \in Nat
  BY LenProperties
<1>2. kept \in Seq(Messages) /\ Len(kept) = K /\ \A k \in 1..K : kept[k] = ms[c + k]
  <2>1. c + 1 \in Int /\ Len(ms) \in Int /\ \A i \in (c + 1)..Len(ms) : i \in 1..Len(ms)
    BY <1>1
  <2>2. CASE K = 0
    <3>1. kept = <<>>
      BY <1>1, <2>1, <2>2, SubSeqProperties DEF Kept
    <3> HIDE DEF kept, K
    <3> QED BY <2>2, <3>1
  <2>3. CASE K # 0
    BY <1>1, <2>1, <2>3, SubSeqProperties DEF Kept
  <2> QED BY <2>2, <2>3
<1>3. summary \in Messages /\ Plain(summary)
  <2>1. <<>> \in Seq(Nat)
    OBVIOUS
  <2> QED BY <2>1 DEF UserSays, Message, Messages, Texts, Plain
<1> HIDE DEF kept, summary, K
<1>4. /\ ns \in Seq(Messages) /\ Len(ns) = 1 + K
      /\ ns[1] = summary /\ \A k \in 1..K : ns[1 + k] = kept[k]
  <2>1. <<summary>> \in Seq(Messages) /\ Len(<<summary>>) = 1 /\ <<summary>>[1] = summary
    BY <1>3
  <2>2. \A k \in 1..(Len(<<summary>>) + Len(kept)) :
           ns[k] = IF k <= Len(<<summary>>) THEN <<summary>>[k] ELSE kept[k - Len(<<summary>>)]
    BY <1>2, <2>1, ConcatProperties
  <2>3. ns \in Seq(Messages) /\ Len(ns) = 1 + K
    BY <1>2, <2>1, ConcatProperties
  <2>4. \A k \in 1..K : 1 + k \in 1..(1 + K) /\ ~(1 + k <= 1) /\ (1 + k) - 1 = k
    BY <1>1
  <2> HIDE DEF ns
  <2>5. ns[1] = summary
    BY <1>1, <1>2, <2>1, <2>2
  <2>6. \A k \in 1..K : ns[1 + k] = kept[k]
    BY <1>2, <2>1, <2>2, <2>4
  <2> QED BY <2>3, <2>5, <2>6
<1> HIDE DEF ns
<1>5. \A k \in 1..K : ns[1 + k] = ms[c + k]
  BY <1>2, <1>4
<1>6. \A n \in 1..(Len(ms) + 1) : ValidAt(ms, n)
  BY ValidIs
<1>7. Expected(ns, 1) = {}
  BY <1>3, <1>4, PlainExpectsNothing
<1>8. K > 0 => ms[c + 1].role # "tool"
  BY <1>1 DEF IsSafeBoundary, K
<1>9. ASSUME NEW n \in 1..(Len(ns) + 1) PROVE ValidAt(ns, n)
  <2>1. CASE n = 1
    <3>1. Expected(ns, 0) = {}
      <4>1. Owner(ns, 0) = 0
        <5>1. {j \in 1..0 : ns[j].role # "tool"} = {}
          OBVIOUS
        <5>2. Owner(ns, 0) = Max({0})
          BY <5>1 DEF Owner
        <5>3. Max({0}) \in {0}
          <6>1. 0 \in Nat /\ {0} \in SUBSET (0..0) /\ {0} # {}
            OBVIOUS
          <6> QED BY <6>1, MaxIs
        <5> QED BY <5>2, <5>3
      <4> QED BY <4>1 DEF Expected
    <3>2. ns[1].role # "tool"
      BY <1>3, <1>4 DEF Plain
    <3> QED BY <2>1, <3>1, <3>2 DEF ValidAt
  <2>2. CASE n = 2
    <3>1. n <= Len(ns) => ns[n].role # "tool"
      <4>1. n <= Len(ns) => 1 \in 1..K /\ K > 0
        BY <1>1, <1>4, <2>2
      <4>2. n <= Len(ns) => ns[2] = ms[c + 1]
        BY <1>5, <4>1
      <4> QED BY <1>8, <2>2, <4>1, <4>2
    <3> QED BY <1>7, <2>2, <3>1 DEF ValidAt
  <2>3. CASE n > 2
    <3> DEFINE j == n - 2
    <3>1. j \in Nat \ {0} /\ j \in 1..K /\ n = 1 + (j + 1) /\ n - 1 = 1 + j /\ n = j + 2
      BY <1>1, <1>4, <2>3
    <3> HIDE DEF j
    <3>2. (c + j + 1) - 1 = c + j /\ c + j + 1 \in 1..(Len(ms) + 1)
      BY <1>1, <3>1 DEF K
    <3>3. Expected(ns, 1 + j) = Expected(ms, c + j)
      <4>1. \A k \in 1..j : k \in 1..K
        BY <1>1, <3>1
      <4>2. \A k \in 1..j : ms[c + k] = ns[1 + k]
        BY <1>5, <4>1
      <4>3. ms[c + 1].role # "tool"
        BY <1>1, <1>8, <3>1
      <4>4. c \in Nat /\ 1 \in Nat /\ j \in Nat \ {0}
        BY <1>1, <3>1
      <4>5. SameAfter(ms, c, ns, 1, j)
        BY <4>2 DEF SameAfter
      <4>6. Expected(ms, c + j) = Expected(ns, 1 + j)
        BY <4>3, <4>4, <4>5, ExpectedSuffix
      <4> QED BY <4>6
    <3>4. ValidAt(ms, c + j + 1)
      BY <1>6, <3>2
    <3>5. CASE n <= Len(ns)
      <4>1. j + 1 \in 1..K /\ c + (j + 1) = c + j + 1 /\ c + j + 1 <= Len(ms)
        <5>1. Len(ns) = 1 + K /\ K = Len(ms) - c
          BY <1>4 DEF K
        <5> QED BY <1>1, <3>1, <3>5, <5>1
      <4>2. ns[n] = ms[c + j + 1]
        BY <1>5, <3>1, <4>1
      <4> QED BY <3>1, <3>2, <3>3, <3>4, <3>5, <4>1, <4>2 DEF ValidAt
    <3>6. CASE ~(n <= Len(ns))
      <4>1. ~(c + j + 1 <= Len(ms))
        BY <1>1, <1>4, <3>1, <3>6 DEF K
      <4> QED BY <3>1, <3>2, <3>3, <3>4, <3>6, <4>1 DEF ValidAt
    <3> QED BY <3>5, <3>6
  <2> QED BY <1>1, <1>4, <2>1, <2>2, <2>3
<1>10. Valid(ns)
  BY <1>9, ValidIs
<1> QED BY <1>4, <1>10 DEF ns, summary, kept, Compacted

----------------------------------------------------------------------------
(* The segments of a batch.                                                *)

(* The calls up to i that begin a segment.                                 *)
Breaks(b, i) == {j \in 2..i : ~(MayOverlap(b, j) /\ MayOverlap(b, j - 1))}

(* A call's segment is the number of breaks up to it, plus one.            *)
LEMMA SegmentIs ==
  ASSUME NEW b, NEW i \in Nat
  PROVE  /\ SegmentOf(b, i) = 1 + Cardinality(Breaks(b, i))
         /\ IsFiniteSet(Breaks(b, i)) /\ Cardinality(Breaks(b, i)) \in Nat
         /\ SegmentOf(b, i) \in Nat \ {0}
<1>1. IsFiniteSet(2..i)
  BY FS_Interval
<1>2. Breaks(b, i) \in SUBSET (2..i)
  BY DEF Breaks
<1>3. IsFiniteSet(Breaks(b, i))
  BY <1>1, <1>2, FS_Subset
<1>4. Cardinality(Breaks(b, i)) \in Nat
  BY <1>3, FS_CardinalityType
<1>5. SegmentOf(b, i) = 1 + Cardinality(Breaks(b, i))
  BY DEF SegmentOf, Breaks
<1> QED BY <1>3, <1>4, <1>5

(* Along the batch the number never falls,                                 *)
LEMMA SegmentsRise ==
  ASSUME NEW b, NEW i \in Nat, NEW k \in Nat, i <= k
  PROVE  SegmentOf(b, i) <= SegmentOf(b, k)
<1>1. Breaks(b, i) \in SUBSET Breaks(b, k)
  BY DEF Breaks
<1>2. Cardinality(Breaks(b, i)) <= Cardinality(Breaks(b, k))
  BY <1>1, SegmentIs, FS_Subset
<1> QED BY <1>2, SegmentIs

(* and it rises where a segment begins.                                    *)
LEMMA SegmentBegins ==
  ASSUME NEW b, NEW i \in Nat, NEW k \in Nat, NEW m \in Breaks(b, k), i < m
  PROVE  SegmentOf(b, i) < SegmentOf(b, k)
<1>1. Breaks(b, i) \cup {m} \in SUBSET Breaks(b, k) /\ m \notin Breaks(b, i)
  BY DEF Breaks
<1>2. Cardinality(Breaks(b, i) \cup {m}) = Cardinality(Breaks(b, i)) + 1
  BY <1>1, SegmentIs, FS_AddElement
<1>3. Cardinality(Breaks(b, i) \cup {m}) <= Cardinality(Breaks(b, k))
  BY <1>1, SegmentIs, FS_Subset
<1> QED BY <1>2, <1>3, SegmentIs

(* A call that may not overlap is alone in its segment.                    *)
LEMMA ExclusiveSegment ==
  ASSUME NEW b, NEW i \in Nat \ {0}, NEW k \in Nat \ {0}, ~MayOverlap(b, i)
  PROVE  /\ k < i => SegmentOf(b, k) < SegmentOf(b, i)
         /\ i < k => SegmentOf(b, i) < SegmentOf(b, k)
<1>1. ASSUME k < i PROVE SegmentOf(b, k) < SegmentOf(b, i)
  <2>1. i \in Breaks(b, i)
    BY <1>1 DEF Breaks
  <2> QED BY <1>1, <2>1, SegmentBegins
<1>2. ASSUME i < k PROVE SegmentOf(b, i) < SegmentOf(b, k)
  <2>1. i + 1 \in Breaks(b, k)
    <3>1. (i + 1) - 1 = i /\ i + 1 \in 2..k
      BY <1>2
    <3> QED BY <3>1 DEF Breaks
  <2> QED BY <1>2, <2>1, SegmentBegins
<1> QED BY <1>1, <1>2

----------------------------------------------------------------------------
(* The batch.                                                              *)

(* Every call has a segment, and the last one is not exceeded.             *)
LEMMA CallSegment ==
  ASSUME BatchTyped, NEW i \in 1..Len(batch)
  PROVE  /\ SegmentOf(batch, i) \in Nat \ {0} /\ LastSegment \in Nat \ {0}
         /\ SegmentOf(batch, i) <= LastSegment
<1>1. Len(batch) \in Nat /\ i \in Nat /\ i <= Len(batch)
  BY LenProperties DEF BatchTyped
<1> QED BY <1>1, SegmentIs, SegmentsRise DEF LastSegment

(* A step that changes one call of the current segment.                    *)
LEMMA OneCall ==
  ASSUME BatchInv, NEW i \in 1..Len(batch), UNCHANGED <<batch, segment>>,
         status[i] \in {"queued", "gating", "running"},
         NEW st \in Statuses \ {"todo"}, status' = [status EXCEPT ![i] = st],
         NEW an \in Contents, answer' = [answer EXCEPT ![i] = an],
         ran' \in {ran, ran \cup {i}},
         an = "none" <=> st # "answered",
         (st = "running" \/ an = "result") => i \in ran',
         i \in ran' => (st = "running" \/ an \in {"result", "failed"})
  PROVE  BatchInv'
<1>1. BatchTyped'
  BY DEF BatchInv, BatchTyped
<1>2. /\ \A j \in 1..Len(batch) : j # i =>
            status'[j] = status[j] /\ answer'[j] = answer[j] /\ (j \in ran' <=> j \in ran)
      /\ status'[i] = st /\ answer'[i] = an
  BY DEF BatchInv, BatchTyped
<1>3. \A j \in 1..Len(batch) : j # i => CallOK(j)'
  BY <1>2 DEF BatchInv, CallOK
<1>4. CallOK(i)'
  <2>1. SegmentOf(batch, i) \in Nat /\ segment \in Nat
    BY CallSegment DEF BatchInv, BatchTyped
  <2>2. ~(SegmentOf(batch, i) < segment) /\ ~(SegmentOf(batch, i) > segment)
    BY DEF BatchInv, CallOK
  <2>3. SegmentOf(batch', i) = SegmentOf(batch, i)
    OBVIOUS
  <2> QED BY <1>2, <2>2, <2>3 DEF CallOK
<1> QED BY <1>1, <1>3, <1>4 DEF BatchInv

(* A segment opens only when the one before it is answered.                *)
LEMMA OpenSegmentInv ==
  ASSUME BatchInv, OpenSegment
  PROVE  BatchInv'
<1> USE DEF OpenSegment
<1>1. BatchTyped'
  BY DEF BatchInv, BatchTyped, Statuses, Contents
<1>2. ASSUME NEW i \in 1..Len(batch) PROVE CallOK(i)'
  <2>1. CallOK(i) /\ SegmentOf(batch, i) \in Nat /\ segment \in Nat
    BY CallSegment DEF BatchInv, BatchTyped
  <2>2. SegmentOf(batch', i) = SegmentOf(batch, i) /\ segment' = segment /\ ran' = ran
    OBVIOUS
  <2>3. CASE i \notin Members(segment)
    <3>1. status'[i] = status[i] /\ answer'[i] = answer[i]
      BY <2>3 DEF BatchInv, BatchTyped
    <3> QED BY <2>1, <2>2, <3>1 DEF CallOK
  <2>4. CASE i \in Members(segment)
    <3>1. SegmentOf(batch, i) = segment /\ status[i] = "todo" /\ i \notin ran /\ answer[i] = "none"
      BY <2>1, <2>4 DEF Members, CallOK
    <3>2. \/ status'[i] = "queued" /\ answer'[i] = answer[i]
          \/ status'[i] = "answered" /\ answer'[i] = "cancelled"
      BY <2>4
    <3> QED BY <2>1, <2>2, <3>1, <3>2 DEF CallOK
  <2> QED BY <2>3, <2>4
<1> QED BY <1>1, <1>2 DEF BatchInv

(* Closing a segment leaves the calls of earlier ones answered.            *)
LEMMA CloseSegmentInv ==
  ASSUME BatchInv, CloseSegment
  PROVE  BatchInv'
<1> USE DEF CloseSegment
<1>1. BatchTyped'
  BY DEF BatchInv, BatchTyped
<1>2. ASSUME NEW i \in 1..Len(batch) PROVE CallOK(i)'
  <2>1. CallOK(i) /\ SegmentOf(batch, i) \in Nat /\ segment \in Nat
    BY CallSegment DEF BatchInv, BatchTyped
  <2>2. SegmentOf(batch', i) = SegmentOf(batch, i) /\ segment' = segment + 1
    OBVIOUS
  <2>3. SegmentOf(batch, i) = segment => status[i] = "answered"
    BY DEF Members
  <2> QED BY <2>1, <2>2, <2>3 DEF CallOK
<1> QED BY <1>1, <1>2 DEF BatchInv

(* A worker takes a call of the open segment and answers it if the run was *)
(* cancelled.                                                              *)
LEMMA StartInv ==
  ASSUME BatchInv, NEW i, Start(i)
  PROVE  BatchInv'
<1> USE DEF Start
<1>1. /\ i \in 1..Len(batch) /\ status[i] \in {"queued", "gating", "running"}
      /\ answer[i] = "none" /\ i \notin ran
  BY DEF BatchInv, CallOK
<1>2. CASE cancelled \/ batch[i] \in Malformed
  <2>1. PICK an \in {"cancelled", "malformed"} :
           status' = [status EXCEPT ![i] = "answered"] /\ answer' = [answer EXCEPT ![i] = an]
    BY <1>2 DEF Answered
  <2>2. an \in Contents /\ "answered" \in Statuses \ {"todo"}
    BY DEF Contents, Statuses
  <2> QED BY <1>1, <2>1, <2>2, OneCall
<1>3. CASE ~(cancelled \/ batch[i] \in Malformed)
  <2>1. status' = [status EXCEPT ![i] = "gating"] /\ answer' = [answer EXCEPT ![i] = "none"]
    BY <1>1, <1>3 DEF BatchInv, BatchTyped
  <2>2. "none" \in Contents /\ "gating" \in Statuses \ {"todo"}
    BY DEF Contents, Statuses
  <2> QED BY <1>1, <2>1, <2>2, OneCall
<1> QED BY <1>2, <1>3

(* A denied call is answered as denied and never ran.                      *)
LEMMA DenyInv ==
  ASSUME BatchInv, NEW i, Deny(i)
  PROVE  BatchInv'
<1>1. /\ i \in 1..Len(batch) /\ status[i] \in {"queued", "gating", "running"}
      /\ i \notin ran
  BY DEF Deny, BatchInv, CallOK
<1>2. "denied" \in Contents /\ "answered" \in Statuses \ {"todo"}
  BY DEF Contents, Statuses
<1> QED BY <1>1, <1>2, OneCall DEF Deny, Answered

(* An allowed call begins to run, alone if it is exclusive.                *)
LEMMA AllowInv ==
  ASSUME BatchInv, NEW i, Allow(i)
  PROVE  BatchInv'
<1>1. /\ i \in 1..Len(batch) /\ status[i] \in {"queued", "gating", "running"}
      /\ answer[i] = "none"
  BY DEF Allow, BatchInv, CallOK
<1>2. status' = [status EXCEPT ![i] = "running"] /\ answer' = [answer EXCEPT ![i] = "none"]
  BY <1>1 DEF Allow, BatchInv, BatchTyped
<1>3. "none" \in Contents /\ "running" \in Statuses \ {"todo"}
  BY DEF Contents, Statuses
<1>4. ran' = ran \cup {i} /\ i \in ran' /\ UNCHANGED <<batch, segment>>
  BY DEF Allow
<1> QED BY <1>1, <1>2, <1>3, <1>4, OneCall

(* An exception in the gates is answered as a failure of a tool that was   *)
(* not entered.                                                            *)
LEMMA GateRaisesInv ==
  ASSUME BatchInv, NEW i, GateRaises(i)
  PROVE  BatchInv'
<1>1. /\ i \in 1..Len(batch) /\ status[i] \in {"queued", "gating", "running"}
      /\ i \notin ran
  BY DEF GateRaises, BatchInv, CallOK
<1>2. "failed" \in Contents /\ "answered" \in Statuses \ {"todo"}
  BY DEF Contents, Statuses
<1> QED BY <1>1, <1>2, OneCall DEF GateRaises, Answered

(* A call that returns, raises or has collected its children is answered   *)
(* by what happened.                                                       *)
LEMMA ReturnInv ==
  ASSUME BatchInv, NEW i, Return(i) \/ Report(i)
  PROVE  BatchInv'
<1>1. /\ i \in 1..Len(batch) /\ status[i] \in {"queued", "gating", "running"}
      /\ i \in ran /\ UNCHANGED <<batch, segment, ran>>
  BY DEF Return, Report, BatchInv, CallOK
<1>2. PICK an \in {"result", "failed"} : Answered(i, an)
  BY DEF Return, Report
<1>3. an \in Contents /\ "answered" \in Statuses \ {"todo"}
  BY DEF Contents, Statuses
<1> QED BY <1>1, <1>2, <1>3, OneCall DEF Answered

(* A step outside the batch, and a new batch.                              *)
LEMMA BatchStays ==
  ASSUME BatchInv, UNCHANGED <<batch, segment, status, answer, ran>>
  PROVE  BatchInv'
BY DEF BatchInv, BatchTyped, CallOK

(* Every step inside execute_batch() keeps the invariant of the batch.     *)
LEMMA BatchStepInv ==
  ASSUME BatchInv, BatchStep
  PROVE  BatchInv'
<1>1. ASSUME NEW i, Collect(i) PROVE BatchInv'
  BY <1>1, BatchStays DEF Collect
<1> QED BY OpenSegmentInv, CloseSegmentInv, StartInv, DenyInv, GateRaisesInv, AllowInv,
           ReturnInv, <1>1 DEF BatchStep

(* A step that leaves the children alone.                                  *)
LEMMA ChildrenStay ==
  ASSUME ChildInv, UNCHANGED childVars
  PROVE  ChildInv'
BY DEF ChildInv, childVars

(* Fresh children have no reports yet.                                     *)
LEMMA FreshChildren ==
  ASSUME NEW n \in Nat, children' = [k \in 1..n |-> "working"], reports' = <<>>
  PROVE  ChildInv'
<1>1. children' \in Seq({"working", "done"}) /\ Len(children') = n
  OBVIOUS
<1>2. reports' \in Seq({"ended", "left"}) /\ Len(reports') = 0
  OBVIOUS
<1> QED BY <1>1, <1>2 DEF ChildInv

(* One more child is reported as what it is.                               *)
LEMMA CollectChildren ==
  ASSUME ChildInv, NEW i, Collect(i)
  PROVE  ChildInv'
<1> DEFINE n == Len(reports)
<1>1. PICK a \in {"ended", "left"} :
         reports' = Append(reports, a) /\ (a = "ended" => children[n + 1] = "done")
  BY DEF Collect
<1>2. children' = children /\ n < Len(children)
  BY DEF Collect
<1>3. /\ reports' \in Seq({"ended", "left"}) /\ Len(reports') = n + 1 /\ reports'[n + 1] = a
      /\ \A k \in 1..n : reports'[k] = reports[k]
      /\ n \in Nat /\ Len(children) \in Nat
  BY <1>1 DEF ChildInv
<1>4. \A k \in 1..(n + 1) : k \in 1..n \/ k = n + 1
  BY <1>3
<1>5. \A k \in 1..(n + 1) : reports'[k] = "ended" => children[k] = "done"
  BY <1>1, <1>3, <1>4 DEF ChildInv
<1> QED BY <1>2, <1>3, <1>5 DEF ChildInv

(* A child that ends, in time or late, makes no report false.              *)
LEMMA ChildEndsInv ==
  ASSUME ChildInv, NEW k, ChildEnds(k)
  PROVE  ChildInv'
<1>1. /\ children' \in Seq({"working", "done"}) /\ Len(children') = Len(children)
      /\ \A j \in 1..Len(children) : children[j] = "done" => children'[j] = "done"
  BY DEF ChildInv, ChildEnds
<1>2. \A j \in 1..Len(reports) : j \in 1..Len(children)
  BY LenProperties DEF ChildInv
<1>3. reports' = reports
  BY DEF ChildEnds
<1> QED BY <1>1, <1>2, <1>3 DEF ChildInv

(* Every step inside execute_batch() keeps the reports true.               *)
LEMMA BatchStepChildren ==
  ASSUME ChildInv, BatchStep
  PROVE  ChildInv'
<1>1. ASSUME NEW i, Allow(i), ~UNCHANGED childVars PROVE ChildInv'
  <2>1. PICK n \in 0..MaxChildren : children' = [k \in 1..n |-> "working"]
    BY <1>1 DEF Allow
  <2>2. n \in Nat
    BY BatchAssumption DEF BatchAssumption
  <2>3. reports' = <<>>
    BY <1>1 DEF Allow
  <2> QED BY <2>1, <2>2, <2>3, FreshChildren
<1>2. ASSUME NEW i, Start(i) \/ Deny(i) \/ GateRaises(i) \/ Return(i) \/ Report(i)
      PROVE  UNCHANGED childVars
  BY <1>2 DEF Start, Deny, GateRaises, Return, Report
<1>3. OpenSegment \/ CloseSegment => UNCHANGED childVars
  BY DEF OpenSegment, CloseSegment
<1> QED BY <1>1, <1>2, <1>3, ChildrenStay, CollectChildren DEF BatchStep

(* A batch begins with no call answered, run or taken.                     *)
LEMMA StartBatchInv ==
  ASSUME NEW b \in Batches, StartBatch(b)
  PROVE  BatchInv' /\ b \in Seq(Kinds)
<1>1. b \in Seq(Kinds)
  BY BatchAssumption, SeqDef DEF Batches, BatchAssumption
<1>2. BatchTyped'
  BY <1>1 DEF StartBatch, BatchTyped, Statuses, Contents
<1>3. ASSUME NEW i \in 1..Len(b) PROVE CallOK(i)'
  <2>1. SegmentOf(b, i) \in Nat \ {0}
    BY <1>1, SegmentIs, LenProperties
  <2>2. status'[i] = "todo" /\ answer'[i] = "none" /\ i \notin ran' /\ segment' = 1 /\ batch' = b
    BY DEF StartBatch
  <2> QED BY <2>1, <2>2 DEF CallOK
<1> QED BY <1>1, <1>2, <1>3 DEF BatchInv, StartBatch

NoCalls ==
  batch = <<>> /\ segment = 0 /\ status = <<>> /\ answer = <<>> /\ ran = {}

(* Without calls there is nothing the batch could have wrong.              *)
LEMMA EmptyBatch == NoCalls => BatchInv
<1> SUFFICES ASSUME NoCalls PROVE BatchInv
  OBVIOUS
<1> USE DEF NoCalls
<1>1. batch \in Seq(Kinds) /\ Len(batch) = 0 /\ 1..Len(batch) = {}
  OBVIOUS
<1>2. status \in [1..Len(batch) -> Statuses] /\ answer \in [1..Len(batch) -> Contents]
  <2>1. <<>> \in [{} -> Statuses] /\ <<>> \in [{} -> Contents]
    BY EmptySeq
  <2> QED BY <1>1, <2>1
<1> QED BY <1>1, <1>2 DEF BatchInv, BatchTyped

----------------------------------------------------------------------------
(* The loop.                                                               *)

(* The messages the loop itself adds make no calls.                        *)
LEMMA LoopSays ==
  ASSUME NEW t \in Texts
  PROVE  /\ UserSays(t) \in Messages /\ Plain(UserSays(t))
         /\ AssistantSays(t) \in Messages /\ Plain(AssistantSays(t))
         /\ AssistantSays(t).role = "assistant" /\ AssistantSays(t).text = t
<1>1. <<>> \in Seq(Nat)
  OBVIOUS
<1>2. UserSays(t) \in Messages /\ AssistantSays(t) \in Messages
  BY <1>1 DEF UserSays, AssistantSays, Message, Messages
<1>3. UserSays(t).role = "user" /\ UserSays(t).calls = <<>>
  BY DEF UserSays, Message
<1>4. AssistantSays(t).role = "assistant" /\ AssistantSays(t).text = t /\ AssistantSays(t).calls = <<>>
  BY DEF AssistantSays, Message
<1> QED BY <1>2, <1>3, <1>4 DEF Plain

(* Appending one message without calls keeps the transcript valid.         *)
LEMMA SaysOne ==
  ASSUME messages \in Seq(Messages), Valid(messages), NEW m \in Messages, Plain(m), Says(<<m>>)
  PROVE  /\ messages' \in Seq(Messages) /\ Valid(messages)'
         /\ messages' # <<>> /\ Last(messages)' = m /\ recorded' = m
<1>1. /\ <<m>> \in Seq(Messages) /\ Len(<<m>>) = 1 /\ <<m>>[1] = m /\ <<m>> # <<>>
      /\ \A i \in 1..Len(<<m>>) : Plain(<<m>>[i])
  OBVIOUS
<1>2. messages' = messages \o <<m>> /\ recorded' = m
  BY <1>1 DEF Says, Last
<1>3. messages' \in Seq(Messages) /\ Valid(messages')
  BY <1>1, <1>2, ValidSays
<1>4. Len(messages') = Len(messages) + 1 /\ messages'[Len(messages) + 1] = m /\ Len(messages) \in Nat
  BY <1>2, LenProperties
<1>5. Valid(messages)'
  BY <1>3
<1>6. Last(messages)' = m
  BY <1>4 DEF Last
<1>7. messages' # <<>>
  BY <1>4
<1> QED BY <1>2, <1>3, <1>5, <1>6, <1>7

(* The run goes on, with a valid transcript,                               *)
LEMMA LoopMoves ==
  ASSUME LoopInv, pc # "ended", UNCHANGED reason, LoopTyped', Valid(messages)',
         pc' \notin {"batch", "tools", "ended"}, FoldInv', GateInv'
  PROVE  LoopInv'
BY DEF LoopInv, EndsVisibly

(* or it ends.                                                             *)
LEMMA LoopEnds ==
  ASSUME LoopInv, pc # "ended", NEW why, End(why), LoopTyped', EndsVisibly'
  PROVE  LoopInv'
BY DEF LoopInv, FoldInv, GateInv, End, Goto

(* Only a run that ended has a reason.                                     *)
LEMMA ReasonIsNone ==
  ASSUME LoopInv, pc # "ended"
  PROVE  reason = "none"
BY DEF LoopInv

(* A pass that folds has a cut, as of the messages it looked at.           *)
LEMMA CompactMoves ==
  ASSUME LoopInv, pc \notin {"batch", "tools", "ended"},
         NEW o \in {"call", "resend", "command"}, Compact(o),
         UNCHANGED <<messages, pending, steers, reason>>
  PROVE  LoopInv'
<1>1. LoopTyped' /\ Valid(messages)'
  BY DEF LoopInv, LoopTyped, Compact
<1>2. pc' \in {"reuse", o} /\ (pc' = "reuse" => Cut(o) > 0) /\ onward' = o
  BY DEF Compact, Goto
<1>3. FoldInv'
  BY <1>2 DEF FoldInv, Cut
<1>4. GateInv' /\ pc' \notin {"batch", "tools", "ended"}
  BY <1>2 DEF GateInv
<1> QED BY <1>1, <1>3, <1>4, LoopMoves

(* The prompt is appended; the prompt hook may end the run on it.          *)
LEMMA SubmitInv ==
  ASSUME LoopInv, Submit
  PROVE  LoopInv'
<1> DEFINE m == UserSays("prompt")
<1>1. m \in Messages /\ Plain(m)
  BY LoopSays DEF Texts
<1> HIDE DEF m
<1>2. pc = "submit" /\ messages' = Append(messages, m) /\ UNCHANGED <<steers, pending, onward>>
  BY DEF Submit, m
<1>3. messages \in Seq(Messages) /\ Valid(messages)
  BY <1>2 DEF LoopInv, LoopTyped
<1>4. messages' = messages \o <<m>>
  BY <1>1, <1>2, <1>3
<1>5. /\ <<m>> \in Seq(Messages) /\ \A i \in 1..Len(<<m>>) : Plain(<<m>>[i])
  BY <1>1
<1>6. messages' \in Seq(Messages) /\ Valid(messages')
  BY <1>3, <1>4, <1>5, ValidSays
<1>7. LoopTyped'
  BY <1>2, <1>6 DEF LoopInv, LoopTyped
<1>8. CASE End("prompt_blocked")
  <2>1. EndsVisibly'
    BY <1>8 DEF End, EndsVisibly
  <2> QED BY <1>2, <1>7, <1>8, <2>1, LoopEnds
<1>9. CASE Goto("top") /\ UNCHANGED reason
  BY <1>2, <1>6, <1>7, <1>9, LoopMoves DEF Goto, FoldInv, GateInv
<1> QED BY <1>8, <1>9 DEF Submit

(* TopCancelled, BatchCancelled and CallFails end without a message.       *)
LEMMA BreaksOff ==
  ASSUME LoopInv, pc # "ended", NEW why \in {"cancelled", "failed"}, End(why),
         UNCHANGED <<messages, steers, pending, onward>>
  PROVE  LoopInv'
<1>1. EndsVisibly' /\ LoopTyped'
  BY DEF End, EndsVisibly, LoopInv, LoopTyped
<1> QED BY <1>1, LoopEnds

(* Steers taken at a gate are appended as one user message each.           *)
LEMMA DeliverInv ==
  ASSUME LoopInv, Deliver
  PROVE  LoopInv'
<1> DEFINE k == pending + steers[1]
           ps == [i \in 1..k |-> UserSays("steer")]
<1>1. /\ pc = "top" /\ messages' = messages \o ps /\ UNCHANGED <<onward, reason>>
      /\ pc' = "compose" /\ steers' = <<0, steers[2]>> /\ pending' = 0
  BY DEF Deliver, Says, Goto
<1>2. messages \in Seq(Messages) /\ Valid(messages) /\ k \in Nat /\ steers[2] \in Nat
  BY <1>1 DEF LoopInv, LoopTyped
<1> HIDE DEF k
<1>3. UserSays("steer") \in Messages /\ Plain(UserSays("steer"))
  BY LoopSays DEF Texts
<1>4. ps \in [1..k -> Messages]
  BY <1>3
<1>5. ps \in Seq(Messages)
  BY <1>2, <1>4, SeqDef
<1>6. \A i \in 1..Len(ps) : Plain(ps[i])
  <2>1. DOMAIN ps = 1..Len(ps)
    BY <1>5, LenProperties
  <2> QED BY <1>3, <1>4, <2>1
<1> HIDE DEF ps
<1>7. messages' \in Seq(Messages) /\ Valid(messages')
  BY <1>1, <1>2, <1>5, <1>6, ValidSays
<1>8. LoopTyped'
  BY <1>1, <1>2, <1>7 DEF LoopInv, LoopTyped
<1> QED BY <1>1, <1>7, <1>8, LoopMoves DEF FoldInv, GateInv

(* A failed summary leaves the transcript as it was.                       *)
LEMMA SummaryFailsInv ==
  ASSUME LoopInv, SummaryFails
  PROVE  LoopInv'
<1> USE DEF SummaryFails, Goto
<1>1. LoopTyped' /\ Valid(messages)'
  BY DEF LoopInv, LoopTyped
<1>2. pc' \in {"engine", "call", "resend", "command"}
  BY DEF LoopInv, LoopTyped
<1>3. FoldInv' /\ GateInv'
  BY <1>2 DEF FoldInv, GateInv, LoopInv, Cut
<1> QED BY <1>1, <1>2, <1>3, LoopMoves

(* Replacing everything before the cut by a summary keeps the transcript   *)
(* valid.                                                                  *)
LEMMA FoldKeepsValid ==
  ASSUME LoopInv, Fold
  PROVE  LoopInv'
<1> DEFINE c == Cut(onward)
<1>1. /\ messages \in Seq(Messages) /\ Valid(messages) /\ c > 0 /\ pc \in {"reuse", "engine"}
      /\ messages' = Compacted(messages, c) /\ pc' = onward
      /\ UNCHANGED <<steers, pending, onward, reason>>
  BY DEF Fold, Goto, LoopInv, LoopTyped, FoldInv
<1>2. c \in 1..Len(messages) /\ IsSafeBoundary(messages, c)
  <2>1. c \in 0..Len(messages) /\ IsSafeBoundary(messages, c)
    BY <1>1, CutIsSafe DEF Cut
  <2> HIDE DEF c
  <2> QED BY <1>1, <2>1, LenProperties
<1> HIDE DEF c
<1>3. messages' \in Seq(Messages) /\ Valid(messages')
  BY <1>1, <1>2, ValidCompacted
<1>4. LoopTyped' /\ pc' \in {"call", "resend", "command"}
  BY <1>1, <1>3 DEF LoopInv, LoopTyped
<1> QED BY <1>1, <1>3, <1>4, LoopMoves DEF FoldInv, GateInv

(* Command and DenialHalt end with a message of the loop's own.            *)
LEMMA EndsSaying ==
  ASSUME LoopInv, pc \notin {"batch", "tools", "ended"}, NEW why, End(why),
         NEW t \in Texts \ {"blank"}, Says(<<AssistantSays(t)>>),
         UNCHANGED <<steers, pending, onward>>
  PROVE  LoopInv'
<1>1. AssistantSays(t) \in Messages /\ Plain(AssistantSays(t))
      /\ AssistantSays(t).role = "assistant" /\ AssistantSays(t).text # "blank"
  BY LoopSays
<1>2. messages \in Seq(Messages) /\ Valid(messages)
  BY DEF LoopInv, LoopTyped
<1>3. messages' \in Seq(Messages) /\ Last(messages)' = AssistantSays(t) /\ recorded' = AssistantSays(t)
  BY <1>1, <1>2, SaysOne
<1>4. EndsVisibly'
  BY <1>1, <1>3 DEF EndsVisibly
<1>5. LoopTyped'
  BY <1>3 DEF LoopInv, LoopTyped
<1> QED BY <1>4, <1>5, LoopEnds

(* A turn of text is appended and recorded.                                *)
LEMMA ReplyInv ==
  ASSUME LoopInv, NEW t \in {"said", "blank"}, Reply(t)
  PROVE  LoopInv'
<1> USE DEF Reply, Goto
<1>1. AssistantSays(t) \in Messages /\ Plain(AssistantSays(t))
      /\ AssistantSays(t).role = "assistant"
  BY LoopSays DEF Texts
<1>2. messages \in Seq(Messages) /\ Valid(messages)
  BY DEF LoopInv, LoopTyped
<1>3. /\ messages' \in Seq(Messages) /\ Valid(messages)' /\ messages' # <<>>
      /\ Last(messages)' = AssistantSays(t) /\ recorded' = AssistantSays(t)
  BY <1>1, <1>2, SaysOne
<1>4. LoopTyped' /\ GateInv' /\ FoldInv'
  BY <1>1, <1>3 DEF LoopInv, LoopTyped, GateInv, FoldInv
<1> QED BY <1>3, <1>4, LoopMoves

(* A turn with calls is appended and owes exactly the calls of the batch.  *)
LEMMA ReplyCallsInv ==
  ASSUME LoopInv, NEW b \in Batches, ReplyCalls(b)
  PROVE  LoopInv' /\ BatchInv'
<1>1. BatchInv' /\ b \in Seq(Kinds)
  BY StartBatchInv DEF ReplyCalls
<1>2. /\ pc \in {"call", "resend"} /\ pc' = "batch" /\ batch' = b
      /\ messages' = messages \o <<Turn(b)>>
      /\ UNCHANGED <<steers, pending, onward, reason>>
  BY DEF ReplyCalls, StartBatch, Goto, Says, Turn
<1>3. messages \in Seq(Messages) /\ Valid(messages)
  BY <1>2 DEF LoopInv, LoopTyped
<1>4. Turn(b) \in Messages
  <2>1. [i \in 1..Len(b) |-> i] \in Seq(Nat)
    BY <1>1, SeqDef, LenProperties
  <2> QED BY <2>1 DEF Turn, Message, Messages, Texts
<1>5. messages' = Append(messages, Turn(b)) /\ messages' \in Seq(Messages)
  BY <1>2, <1>3, <1>4
<1>6. \E ms \in Seq(Messages) : Valid(ms) /\ messages' = Append(ms, Turn(batch'))
  BY <1>2, <1>3, <1>5
<1>7. LoopTyped'
  BY <1>2, <1>5 DEF LoopInv, LoopTyped
<1> QED BY <1>1, <1>2, <1>6, <1>7 DEF LoopInv, FoldInv, GateInv, EndsVisibly

(* Handing the batch to the workers changes neither transcript nor reason. *)
LEMMA DispatchInv ==
  ASSUME LoopInv, Dispatch
  PROVE  LoopInv'
<1>1. /\ pc = "batch" /\ pc' = "tools"
      /\ UNCHANGED <<messages, recorded, steers, pending, onward, reason, batch>>
  BY DEF Dispatch, Goto, batchVars
<1>2. \E ms \in Seq(Messages) : Valid(ms) /\ messages' = Append(ms, Turn(batch'))
  BY <1>1 DEF LoopInv
<1> QED BY <1>1, <1>2 DEF LoopInv, LoopTyped, FoldInv, GateInv, EndsVisibly

(* The results answer each call of the turn once and in order, so nothing  *)
(* is owed any more.                                                       *)
LEMMA ResultsInv ==
  ASSUME BatchInv, LoopInv, Results
  PROVE  LoopInv' /\ BatchInv'
<1>1. /\ pc = "tools" /\ messages' = messages \o Outcomes /\ pc' \in {"denied", "top"}
      /\ UNCHANGED <<steers, pending, onward, reason>>
  BY DEF Results, Says, Goto
<1>2. PICK ms \in Seq(Messages) : Valid(ms) /\ messages = Append(ms, Turn(batch))
  BY <1>1 DEF LoopInv
<1>3. batch \in Seq(Kinds)
  BY DEF BatchInv, BatchTyped
<1>4. messages' \in Seq(Messages) /\ Valid(messages')
  BY <1>1, <1>2, <1>3, ValidResults DEF Outcomes
<1>5. LoopTyped'
  BY <1>1, <1>4 DEF LoopInv, LoopTyped
<1>6. LoopInv'
  BY <1>1, <1>4, <1>5, LoopMoves DEF FoldInv, GateInv
<1>7. BatchInv'
  <2>1. NoCalls'
    BY DEF Results, NoCalls
  <2>2. NoCalls' => BatchInv'
    BY EmptyBatch, PTL
  <2> QED BY <2>1, <2>2
<1> QED BY <1>6, <1>7

(* Taking steers at a gate delivers nothing yet.                           *)
LEMMA GateSteersInv ==
  ASSUME LoopInv, GateSteers
  PROVE  LoopInv'
<1> USE DEF GateSteers, Goto
<1>1. LoopTyped' /\ Valid(messages)'
  BY DEF LoopInv, LoopTyped
<1> QED BY <1>1, LoopMoves DEF FoldInv, GateInv

(* The turn at the gate is an answer to read, or it is followed by one.    *)
LEMMA DecideInv ==
  ASSUME LoopInv, NEW h \in StopHooks, Decide(h)
  PROVE  LoopInv'
<1>1. pc = "gate" /\ UNCHANGED <<steers, pending, onward>>
  BY DEF Decide
<1>2. messages \in Seq(Messages) /\ Valid(messages)
  BY <1>1 DEF LoopInv, LoopTyped
<1>3. CASE GoesOn(h)
  <2>1. Says(Nudged(h)) /\ pc' = "top" /\ UNCHANGED reason
    BY <1>3 DEF Decide, Goto
  <2>2. UserSays("nudge") \in Messages /\ Plain(UserSays("nudge"))
    BY LoopSays DEF Texts
  <2>3. Nudged(h) \in Seq(Messages) /\ \A i \in 1..Len(Nudged(h)) : Plain(Nudged(h)[i])
    BY <2>2 DEF Nudged
  <2>4. messages' \in Seq(Messages) /\ Valid(messages')
    BY <1>2, <2>1, <2>3, ValidSays DEF Says
  <2>5. LoopTyped'
    BY <1>1, <2>4 DEF LoopInv, LoopTyped
  <2> QED BY <1>1, <2>1, <2>4, <2>5, LoopMoves DEF FoldInv, GateInv
<1>4. CASE ~GoesOn(h) /\ NeedsNotice(h)
  <2>1. Says(<<AssistantSays("notice")>>) /\ End("blank_notice")
    BY <1>4 DEF Decide
  <2>2. "notice" \in Texts \ {"blank"}
    BY DEF Texts
  <2> QED BY <1>1, <2>1, <2>2, EndsSaying
<1>5. CASE ~GoesOn(h) /\ ~NeedsNotice(h)
  <2>1. /\ UNCHANGED <<messages, recorded>>
        /\ End(IF h = "allow" THEN "final_text" ELSE "hook_budget_exit")
    BY <1>5 DEF Decide
  <2>2. Last(messages).role = "assistant" /\ Last(messages).text # "blank" /\ recorded = Last(messages)
    BY <1>1, <1>5 DEF LoopInv, GateInv, NeedsNotice, Blank
  <2>3. EndsVisibly'
    BY <2>1, <2>2 DEF EndsVisibly
  <2>4. LoopTyped'
    BY <1>1, <2>1 DEF LoopInv, LoopTyped
  <2> QED BY <1>1, <2>1, <2>3, <2>4, LoopEnds
<1> QED BY <1>3, <1>4, <1>5

(* What others do leaves the loop where it is.                             *)
LEMMA LoopStays ==
  ASSUME LoopInv, UNCHANGED <<pc, messages, recorded, onward, reason, batch, pending>>,
         steers' \in Nat \X Nat
  PROVE  LoopInv'
<1>1. LoopTyped' /\ FoldInv' /\ GateInv' /\ EndsVisibly'
  BY DEF LoopInv, LoopTyped, FoldInv, GateInv, EndsVisibly, Cut
<1>2. pc \in {"batch", "tools"} =>
        \E ms \in Seq(Messages) : Valid(ms) /\ messages' = Append(ms, Turn(batch'))
  BY DEF LoopInv
<1> QED BY <1>1, <1>2 DEF LoopInv

(* Every step of the run thread keeps the invariant.                       *)
LEMMA LoopStepInv ==
  ASSUME IInv, Loop
  PROVE  IInv'
<1> USE DEF IInv
<1>1. CASE Results
  <2>1. children' = [k \in 1..0 |-> "working"] /\ reports' = <<>>
    BY <1>1 DEF Results
  <2>2. ChildInv'
    BY <2>1, FreshChildren
  <2> QED BY <1>1, <2>2, ResultsInv
<1>2. CASE \E b \in Batches : ReplyCalls(b)
  <2>1. ChildInv'
    BY <1>2, ChildrenStay DEF ReplyCalls
  <2> QED BY <1>2, <2>1, ReplyCallsInv
<1>3. CASE ~Results /\ ~(\E b \in Batches : ReplyCalls(b))
  <2>1. BatchInv' /\ ChildInv'
    <3>1. UNCHANGED batchVars
      BY <1>3 DEF Loop, Submit, TopCancelled, Deliver, Compose, CompactNow, SummaryFails, Fold,
         Command, TooLong, CallFails, Reply, BatchCancelled, Dispatch, GateSteers, DenialHalt,
         Decide
    <3> QED BY <3>1, BatchStays, ChildrenStay DEF batchVars
  <2>2. CASE Submit
    BY <2>1, <2>2, SubmitInv
  <2>3. CASE TopCancelled \/ BatchCancelled \/ CallFails
    BY <2>1, <2>3, BreaksOff DEF TopCancelled, BatchCancelled, CallFails
  <2>4. CASE Deliver
    BY <2>1, <2>4, DeliverInv
  <2>5. CASE Compose
    BY <2>1, <2>5, CompactMoves DEF Compose
  <2>6. CASE CompactNow
    BY <2>1, <2>6, CompactMoves DEF CompactNow
  <2>7. CASE SummaryFails
    BY <2>1, <2>7, SummaryFailsInv
  <2>8. CASE Fold
    BY <2>1, <2>8, FoldKeepsValid
  <2>9. CASE Command
    BY <2>1, <2>9, EndsSaying DEF Command, Texts
  <2>10. CASE TooLong
    <3>1. CASE retried
      BY <2>1, <2>10, <3>1, BreaksOff DEF TooLong
    <3>2. CASE ~retried
      BY <2>1, <2>10, <3>2, CompactMoves DEF TooLong
    <3> QED BY <3>1, <3>2
  <2>11. CASE \E t \in {"said", "blank"} : Reply(t)
    BY <2>1, <2>11, ReplyInv
  <2>12. CASE Dispatch
    BY <2>1, <2>12, DispatchInv
  <2>13. CASE GateSteers
    BY <2>1, <2>13, GateSteersInv
  <2>14. CASE DenialHalt
    BY <2>1, <2>14, EndsSaying DEF DenialHalt, Texts
  <2>15. CASE \E h \in StopHooks : Decide(h)
    BY <2>1, <2>15, DecideInv
  <2> QED BY <1>3, <2>2, <2>3, <2>4, <2>5, <2>6, <2>7, <2>8, <2>9, <2>10, <2>11, <2>12,
             <2>13, <2>14, <2>15 DEF Loop
<1> QED BY <1>1, <1>2, <1>3

(* A run starts from a valid history with an empty batch.                  *)
LEMMA InitInv == Init => IInv
<1> SUFFICES ASSUME Init PROVE IInv
  OBVIOUS
<1>1. BatchInv
  BY EmptyBatch DEF Init, NoBatch, NoCalls
<1>5. ChildInv
  BY DEF Init, NoBatch, ChildInv
<1>2. messages \in Seq(Messages) /\ Valid(messages)
  BY LoopAssumption DEF Init, LoopAssumption
<1>3. LoopTyped
  BY <1>2 DEF Init, LoopTyped
<1>4. pc \in {"submit", "compactNow"} /\ reason = "none"
  BY DEF Init
<1> QED BY <1>1, <1>2, <1>3, <1>4, <1>5 DEF IInv, LoopInv, FoldInv, GateInv, EndsVisibly

(* The inductive invariant of the loop and its batches: where every call   *)
(* of the batch stands by its segment, and what the transcript looks like  *)
(* at every point of a round.                                              *)
THEOREM LoopInvariance == Spec => []IInv
<1>1. IInv /\ [Next]_vars => IInv'
  <2> SUFFICES ASSUME IInv, [Next]_vars PROVE IInv'
    OBVIOUS
  <2>0. BatchInv /\ ChildInv /\ LoopInv /\ steers \in Nat \X Nat
    BY DEF IInv, LoopInv, LoopTyped
  <2>1. CASE Loop
    BY <2>1, LoopStepInv
  <2>2. CASE Execute
    <3>1. BatchInv' /\ ChildInv'
      BY <2>0, <2>2, BatchStepInv, BatchStepChildren DEF Execute
    <3>2. batch' = batch
      BY <2>2 DEF Execute, BatchStep, OpenSegment, CloseSegment, Start, Deny,
                    GateRaises, Allow, Return, Collect, Report
    <3>3. LoopInv'
      BY <2>0, <2>2, <3>2, LoopStays DEF Execute, loopVars
    <3> QED BY <3>1, <3>3 DEF IInv
  <2>3. CASE RunChild \/ Cancel \/ UNCHANGED vars
    <3>1. UNCHANGED loopVars /\ UNCHANGED <<batch, segment, status, answer, ran>>
      BY <2>3 DEF RunChild, ChildEnds, Cancel, vars, batchVars
    <3>2. ChildInv'
      BY <2>0, <2>3, ChildEndsInv, ChildrenStay DEF RunChild, Cancel, vars, batchVars
    <3> QED BY <2>0, <3>1, <3>2, BatchStays, LoopStays DEF IInv, loopVars
  <2>4. CASE Steer
    <3>1. UNCHANGED <<pc, messages, recorded, onward, reason, pending>>
          /\ UNCHANGED <<batch, segment, status, answer, ran>> /\ steers' \in Nat \X Nat
      BY <2>0, <2>4 DEF Steer, batchVars
    <3>2. ChildInv'
      BY <2>0, <2>4, ChildrenStay DEF Steer, batchVars
    <3> QED BY <2>0, <3>1, <3>2, BatchStays, LoopStays DEF IInv
  <2> QED BY <2>1, <2>2, <2>3, <2>4 DEF Next
<1> QED BY InitInv, <1>1, PTL DEF Spec

(* A call that may not overlap runs alone: no other call of the batch is   *)
(* at work meanwhile, all earlier ones are answered and no later one has   *)
(* been entered, for every batch and every parallel limit.                 *)
THEOREM ExclusiveCallsRunAlone == Spec => []ExclusiveAlone
<1>1. BatchInv => ExclusiveAlone
  <2> SUFFICES ASSUME BatchInv, NEW i \in 1..Len(batch), status[i] = "running", batch[i] \notin Safe
               PROVE  /\ Active = {i}
                      /\ \A j \in 1..(i - 1) : status[j] = "answered"
                      /\ \A j \in (i + 1)..Len(batch) : j \notin ran
    BY DEF ExclusiveAlone
  <2>1. Len(batch) \in Nat /\ i \in Nat \ {0} /\ segment \in Nat
    BY LenProperties DEF BatchInv, BatchTyped
  <2>2. ~MayOverlap(batch, i)
    BY DEF MayOverlap
  <2>3. \A j \in 1..Len(batch) : SegmentOf(batch, j) \in Nat /\ CallOK(j)
    BY CallSegment DEF BatchInv
  <2>4. SegmentOf(batch, i) = segment
    BY <2>1, <2>3 DEF CallOK
  <2>5. \A j \in 1..(i - 1) : j \in 1..Len(batch) /\ SegmentOf(batch, j) < segment
    BY <2>1, <2>2, <2>4, ExclusiveSegment
  <2>6. \A j \in (i + 1)..Len(batch) : j \in 1..Len(batch) /\ SegmentOf(batch, j) > segment
    <3> TAKE j \in (i + 1)..Len(batch)
    <3>1. j \in Nat \ {0} /\ i < j /\ j \in 1..Len(batch)
      BY <2>1
    <3>2. SegmentOf(batch, i) < SegmentOf(batch, j)
      BY <2>1, <2>2, <3>1, ExclusiveSegment
    <3> QED BY <2>3, <2>4, <3>1, <3>2
  <2>7. \A j \in 1..(i - 1) : status[j] = "answered"
    BY <2>3, <2>5 DEF CallOK
  <2>8. \A j \in (i + 1)..Len(batch) : status[j] = "todo" /\ j \notin ran
    BY <2>3, <2>6 DEF CallOK
  <2>9. Active = {i}
    BY <2>1, <2>7, <2>8 DEF Active
  <2> QED BY <2>7, <2>8, <2>9
<1> QED BY LoopInvariance, <1>1, PTL DEF IInv

(* What a batch tells the model is what happened: every call of a finished *)
(* one is answered, "not executed" is said only of calls that were not     *)
(* entered and a result given only for ones that were, and a child agent   *)
(* is said to have ended only if it has.                                   *)
THEOREM AnswersTellTheTruth == Spec => []AnswersAreTrue
<1>1. BatchInv /\ ChildInv => AnswersAreTrue
  <2> SUFFICES ASSUME BatchInv, ChildInv PROVE AnswersAreTrue
    OBVIOUS
  <2>1. ASSUME NEW i \in 1..Len(batch)
        PROVE  /\ BatchDone => answer[i] # "none"
               /\ answer[i] \in {"cancelled", "malformed", "denied"} => i \notin ran
               /\ answer[i] = "result" => i \in ran
    <3>1. CallOK(i) /\ SegmentOf(batch, i) \in Nat /\ LastSegment \in Nat
          /\ SegmentOf(batch, i) <= LastSegment
      BY CallSegment DEF BatchInv
    <3> QED BY <3>1 DEF CallOK, BatchDone
  <2>2. \A k \in 1..Len(reports) : reports[k] = "ended" => children[k] = "done"
    BY DEF ChildInv
  <2> QED BY <2>1, <2>2 DEF AnswersAreTrue
<1> QED BY LoopInvariance, <1>1, PTL DEF IInv

(* Every request the run sends, and every prefix it has summarized, is one *)
(* a provider accepts: through rounds, steers, nudges, compactions, the    *)
(* overflow retry and batches answered in any order.                       *)
THEOREM RequestsAreValid == Spec => []RequestsValid
<1>1. LoopInv => RequestsValid
  <2> SUFFICES ASSUME LoopInv PROVE RequestsValid
    OBVIOUS
  <2>1. pc \in {"call", "resend", "reuse", "engine"} => Valid(messages)
    BY DEF LoopInv
  <2>2. ASSUME pc \in {"reuse", "engine"} PROVE Valid(Earlier(messages, Cut(onward)))
    <3> DEFINE c == Cut(onward)
    <3>1. messages \in Seq(Messages) /\ Valid(messages) /\ c > 0
      BY <2>2 DEF LoopInv, LoopTyped, FoldInv
    <3>2. c \in 0..Len(messages) /\ IsSafeBoundary(messages, c)
      BY <3>1, CutIsSafe DEF Cut
    <3> HIDE DEF c
    <3>3. c \in 1..Len(messages)
      BY <3>1, <3>2, LenProperties
    <3>4. Valid(Earlier(messages, c))
      BY <3>1, <3>2, <3>3, ValidEarlier
    <3> QED BY <3>4 DEF c
  <2> QED BY <2>1, <2>2 DEF RequestsValid
<1> QED BY LoopInvariance, <1>1, PTL DEF IInv

(* A run that ends by itself leaves a recorded assistant message with text *)
(* to read.                                                                *)
THEOREM RunsEndVisibly == Spec => []EndsVisibly
<1>1. LoopInv => EndsVisibly
  BY DEF LoopInv
<1> QED BY LoopInvariance, <1>1, PTL DEF IInv
=============================================================================
