----------------------------- MODULE Providers -----------------------------
(***************************************************************************)
(* One model call after another on a growing history (avid/providers/):    *)
(* the history is rewritten for the protocol of the chosen route, the      *)
(* request is retried until its headers arrive, and the body is folded     *)
(* frame by frame into a turn while its text is shown.                     *)
(*                                                                         *)
(* The endpoint and the network are the environment.  An endpoint answers  *)
(* with a reply, a sequence of items; every item travels as fragments, and *)
(* fragments of different items may interleave.  Texts are sequences of    *)
(* <<item, fragment>>.                                                     *)
(***************************************************************************)
EXTENDS Naturals, Sequences, FiniteSets, SequencesExt

CONSTANTS
  Routes,        \* records [family, model] a call may be sent to
  Unnumbered,    \* responses routes whose frames do not number their items
  Replies,       \* what an endpoint may answer: sequences over Items
  Attempts,      \* RetryPolicy.attempts
  Fragments,     \* fragments of one item
  TurnBound,     \* calls of one behaviour
  HistoryBound   \* messages of the history

Items == {"reasoning", "text", "call"}

VARIABLES
  history,   \* the messages so far
  phase,     \* "idle", "sending", "body", "done"
  route,     \* where this call goes
  wire,      \* the request as the endpoint reads it
  attempt,   \* sends of this call
  reply,     \* what the endpoint answers
  opened,    \* items the endpoint has announced
  sent,      \* fragments sent of every item
  ended,     \* the closing frame has been sent
  acc,       \* the accumulator
  shown,     \* text handed to on_delta
  turns      \* calls made

vars == <<history, phase, route, wire, attempt, reply, opened, sent, ended, acc, shown, turns>>
transfer == <<reply, opened, sent, ended, acc, shown>>

(***************************************************************************)
(* The request.                                                            *)
(***************************************************************************)

NoRoute == [family |-> "none", model |-> "none"]

Msg(role, calls, id, record) ==
  [role |-> role, calls |-> calls, id |-> id, record |-> record, tail |-> FALSE]
UserMessage == Msg("user", <<>>, <<>>, NoRoute)
TailMessage == [UserMessage EXCEPT !.tail = TRUE]

\* plan_replay: the messages whose reasoning goes out again.  Same route, in
\* the trailing chain of calls and results, and answered by a tool result.
PlanReplay(ms, r) ==
  LET ends == {0} \cup {j \in 1..Len(ms) : ~ms[j].tail}
      end == CHOOSE e \in ends : \A f \in ends : f <= e
      chain == {i \in 1..end : \A j \in i..end : ms[j].role \in {"tool", "assistant"}}
  IN {i \in chain : /\ ms[i].role = "assistant"
                    /\ ms[i].record = r
                    /\ i < Len(ms) /\ ms[i + 1].role = "tool"}

Part(kind, id) == [kind |-> kind, id |-> id]
Calls(m) == [k \in 1..Len(m.calls) |-> Part("call", m.calls[k])]
Thinking(ms, i, r) == IF i \in PlanReplay(ms, r) THEN <<Part("thinking", <<i>>)>> ELSE <<>>

\* The parts of one message, in the order the protocols send them.
Parts(ms, i, r) ==
  CASE ms[i].role = "tool" -> <<Part("result", ms[i].id)>>
    [] ms[i].role = "assistant" ->
         (IF r.family = "responses" THEN <<>> ELSE Thinking(ms, i, r))
           \o <<Part("text", <<>>)>> \o Calls(ms[i])
    [] OTHER -> <<Part("text", <<>>)>>

Wired(role, parts) == [role |-> role, parts |-> parts]

\* openai: one message for one.
OpenAIMessages(ms, r) == [i \in 1..Len(ms) |-> Wired(ms[i].role, Parts(ms, i, r))]

\* responses: an item for every text, call and result.
ResponsesItems(ms, r) ==
  FlattenSeq([i \in 1..Len(ms) |->
    LET parts == Parts(ms, i, r) IN [k \in 1..Len(parts) |-> Wired(ms[i].role, <<parts[k]>>)]])

AnthropicEach(ms, r) ==
  [i \in 1..Len(ms) |->
     Wired(IF ms[i].role = "assistant" THEN "assistant" ELSE "user", Parts(ms, i, r))]

\* anthropic: results in a row share one user message, and texts of the user
\* in a row become one text; a text never joins a message of results.
AnthropicMessages(ms, r) ==
  LET Joins(i) ==
        /\ i > 1
        /\ \/ ms[i].role = "tool" /\ ms[i - 1].role = "tool"
           \/ ms[i].role = "user" /\ ms[i - 1].role = "user"
      heads == SetToSortSeq({i \in 1..Len(ms) : ~Joins(i)}, <)
      Group(h) == {i \in h..Len(ms) : \A j \in (h + 1)..i : Joins(j)}
      Foot(h) == CHOOSE i \in Group(h) : \A j \in Group(h) : j <= i
      Content(h) == IF ms[h].role = "user" THEN <<Part("text", <<>>)>>
                    ELSE FlattenSeq([k \in 1..(Foot(h) - h + 1) |-> Parts(ms, h + k - 1, r)])
  IN [k \in 1..Len(heads) |->
        Wired(IF ms[heads[k]].role = "assistant" THEN "assistant" ELSE "user",
              Content(heads[k]))]

BuildRequest(ms, r) ==
  CASE r.family = "openai" -> OpenAIMessages(ms, r)
    [] r.family = "responses" -> ResponsesItems(ms, r)
    [] r.family = "anthropic" -> AnthropicMessages(ms, r)

(***************************************************************************)
(* The accumulators.                                                       *)
(***************************************************************************)

Blank == [item |-> 0, kind |-> "call", data |-> <<>>]
EmptyAcc == [content |-> <<>>, slots |-> <<>>]

Pad(slots, n) ==
  slots \o [k \in 1..(IF n > Len(slots) THEN n - Len(slots) ELSE 0) |-> Blank]

\* The place of a call among the calls, and of an item in the output.
CallIndex(i) == Cardinality({j \in 1..i : reply[j] = "call"})

\* openai: fragments are joined per call index; the first carries the id.
MergeOpenAI(a, f) ==
  CASE f.kind = "text" -> [a EXCEPT !.content = Append(@, f.piece)]
    [] f.kind = "call" ->
         LET n == CallIndex(f.item)
             slots == Pad(a.slots, n)
         IN [a EXCEPT !.slots = [slots EXCEPT
               ![n].item = IF f.opens THEN f.item ELSE @,
               ![n].data = IF f.opens THEN @ ELSE Append(@, f.piece)]]
    [] OTHER -> a

\* anthropic: a block is opened by its index and filled by deltas; a delta
\* for a block that was never opened is dropped.
FeedAnthropic(a, f) ==
  LET known == {k \in 1..Len(a.slots) : a.slots[k].item = f.item}
  IN IF f.opens
     THEN IF known # {} THEN a
          ELSE [a EXCEPT !.slots =
                  Append(@, [item |-> f.item, kind |-> f.kind, data |-> <<>>])]
     ELSE IF known = {} THEN a
     ELSE LET k == CHOOSE n \in known : TRUE
          IN [a EXCEPT !.slots[k].data = Append(@, f.piece),
                       !.content = IF f.kind = "text" THEN Append(@, f.piece) ELSE @]

\* responses: the item's place in the output. In its absence, an item is a
\* new one and a fragment belongs to the call that was added last.
EventIndex(a, f) ==
  CASE route \notin Unnumbered          -> f.item
    [] route \in Unnumbered /\ f.opens  -> Len(a.slots) + 1
    [] OTHER                            -> IF a.slots = <<>> THEN 1 ELSE Len(a.slots)

MergeResponsesFresh(a, f) ==
  CASE f.kind = "text" -> [a EXCEPT !.content = Append(@, f.piece)]
    [] f.kind = "call" ->
         LET n == EventIndex(a, f)
             slots == Pad(a.slots, n)
         IN [a EXCEPT !.slots = [slots EXCEPT
               ![n].item = IF f.opens THEN f.item ELSE @,
               ![n].data = IF f.opens THEN <<>> ELSE Append(@, f.piece)]]
    [] OTHER -> a

\* responses: slots stand at the item's place in the output, with holes;
\* fragments may come before the item that names the call.
MergeResponses(a, f) ==
  CASE f.kind = "text" -> [a EXCEPT !.content = Append(@, f.piece)]
    [] f.kind = "call" ->
         LET n == EventIndex(a, f)
             slots == Pad(a.slots, n)
         IN [a EXCEPT !.slots = [slots EXCEPT
               ![n].item = IF f.opens THEN f.item ELSE @,
               ![n].data = IF f.opens THEN @ ELSE Append(@, f.piece)]]
    [] OTHER -> a

Merge(a, f) ==
  CASE route.family = "openai" -> MergeOpenAI(a, f)
    [] route.family = "anthropic" -> FeedAnthropic(a, f)
    [] route.family = "responses" -> MergeResponses(a, f)

Whole(i) == [k \in 1..Fragments |-> <<i, k>>]

\* parse_turn: a whole reply read at once.
ParseTurn ==
  LET Keeps(i) == reply[i] = "call" \/ route.family = "anthropic"
      kept == SetToSortSeq({i \in 1..Len(reply) : Keeps(i)}, <)
      texts == SetToSortSeq({i \in 1..Len(reply) : reply[i] = "text"}, <)
  IN [content |-> FlattenSeq([k \in 1..Len(texts) |-> Whole(texts[k])]),
      slots |-> [k \in 1..Len(kept) |->
        [item |-> kept[k], kind |-> reply[kept[k]], data |-> Whole(kept[k])]]]

\* to_turn: the text and the calls, <<item, arguments>>.  Nameless slots are
\* holes to responses; anthropic reads its blocks in the order they opened.
ToTurn(a) ==
  LET IsCall(s) == s.kind = "call" /\ (route.family = "responses" => s.item # 0)
      slots == SelectSeq(a.slots, IsCall)
      IsText(s) == s.kind = "text"
      texts == SelectSeq(a.slots, IsText)
  IN [text |-> IF route.family = "anthropic"
               THEN FlattenSeq([k \in 1..Len(texts) |-> texts[k].data])
               ELSE a.content,
      calls |-> [k \in 1..Len(slots) |-> <<slots[k].item, slots[k].data>>]]

(***************************************************************************)
(* The steps.                                                              *)
(***************************************************************************)

Open(ms) ==
  ms # <<>> /\ Last(ms).role = "assistant" /\ Last(ms).calls # <<>>

Ready == phase = "idle" /\ ~Open(history)

\* The user asks or steers.
Ask ==
  /\ Ready /\ Len(history) < HistoryBound
  /\ history' = Append(history, UserMessage)
  /\ UNCHANGED <<phase, route, wire, attempt, turns, transfer>>

\* The loop answers every call of the last turn, in their order.
ToolsAnswer ==
  /\ phase = "idle" /\ Open(history)
  /\ LET ids == Last(history).calls
     IN history' = history \o [k \in 1..Len(ids) |-> Msg("tool", <<>>, ids[k], NoRoute)]
  /\ UNCHANGED <<phase, route, wire, attempt, turns, transfer>>

\* stream(): build the request; the kernel may add its own tail message.
Call(r, answer) ==
  /\ Ready /\ history # <<>> /\ Last(history).role # "assistant"
  /\ turns < TurnBound /\ Len(history) < HistoryBound
  /\ \E ms \in {history, Append(history, TailMessage)} : wire' = BuildRequest(ms, r)
  /\ phase' = "sending" /\ route' = r /\ attempt' = 1 /\ turns' = turns + 1
  /\ reply' = answer
  /\ opened' = {} /\ sent' = [i \in 1..Len(answer) |-> 0] /\ ended' = FALSE
  /\ acc' = EmptyAcc /\ shown' = <<>>
  /\ UNCHANGED history

\* send_stream: no connection, or a status worth another try.
SendFails ==
  /\ phase = "sending"
  /\ \/ attempt < Attempts /\ attempt' = attempt + 1 /\ UNCHANGED phase
     \/ attempt = Attempts /\ phase' = "idle" /\ UNCHANGED attempt
  /\ UNCHANGED <<history, route, wire, turns, transfer>>

\* Any other status: the call fails, as an overflow or as an error.
Refused ==
  /\ phase = "sending"
  /\ phase' = "idle"
  /\ UNCHANGED <<history, route, wire, attempt, turns, transfer>>

Headers ==
  /\ phase = "sending"
  /\ phase' = "body"
  /\ UNCHANGED <<history, route, wire, attempt, turns, transfer>>

\* chat(): a request without streaming returns the whole reply or nothing.
Answered ==
  /\ phase = "sending"
  /\ phase' = "done"
  /\ acc' = ParseTurn /\ ended' = TRUE
  /\ opened' = 1..Len(reply) /\ sent' = [i \in 1..Len(reply) |-> Fragments]
  /\ UNCHANGED <<history, route, wire, attempt, turns, reply, shown>>

\* What the endpoint may send next: a responses call may be named late, an
\* anthropic block is opened in its turn, other items need no opening. Text
\* comes in order. Calls that are not numbered come one after the other.
Sequential(i, kind) == \A j \in 1..(i - 1) : reply[j] = kind => sent[j] = Fragments

Announces(i) ==
  /\ i \notin opened
  /\ route \in Unnumbered => Sequential(i, "call")
  /\ \/ route.family = "anthropic" /\ \A j \in 1..(i - 1) : j \in opened
     \/ route.family # "anthropic" /\ reply[i] = "call"

Sends(i) ==
  /\ sent[i] < Fragments
  /\ reply[i] = "text" => Sequential(i, "text")
  /\ \/ i \in opened
     \/ route.family = "responses" /\ route \notin Unnumbered
     \/ route.family # "anthropic" /\ reply[i] # "call"

\* One frame of the body: fold it, then show its text.
Frame(i) ==
  /\ phase = "body" /\ ~ended
  /\ \E opens \in BOOLEAN :
       /\ IF opens THEN Announces(i) ELSE Sends(i)
       /\ LET f == [item |-> i, kind |-> reply[i], opens |-> opens,
                    piece |-> <<i, sent[i] + 1>>]
          IN /\ acc' = Merge(acc, f)
             /\ shown' = IF f.kind = "text" /\ ~opens THEN Append(shown, f.piece) ELSE shown
       /\ opened' = IF opens THEN opened \cup {i} ELSE opened
       /\ sent' = IF opens THEN sent ELSE [sent EXCEPT ![i] = @ + 1]
  /\ UNCHANGED <<history, phase, route, wire, attempt, turns, reply, ended>>

Complete ==
  \A i \in 1..Len(reply) :
    sent[i] = Fragments /\ (reply[i] = "call" => i \in opened)

\* The closing frame; then the body ends.
Closing ==
  /\ phase = "body" /\ ~ended /\ Complete
  /\ ended' = TRUE
  /\ UNCHANGED <<history, phase, route, wire, attempt, turns, reply, opened, sent, acc, shown>>

BodyRetries ==
  /\ phase = "body"
  /\ \/ attempt < Attempts /\ attempt' = attempt + 1 /\ phase' = "sending"
     \/ attempt = Attempts /\ phase' = "idle" /\ UNCHANGED attempt
  /\ acc' = EmptyAcc /\ opened' = {} /\ sent' = [i \in DOMAIN sent |-> 0] /\ ended' = FALSE
  /\ UNCHANGED <<history, route, wire, turns, reply, shown>>

\* The connection breaks after the headers: the call fails, nothing is sent
\* again, because text has been shown already.
BodyFails ==
  /\ phase = "body"
  /\ phase' = "idle"
  /\ UNCHANGED <<history, route, wire, attempt, turns, transfer>>

\* The body is over; what was folded is the turn, closing frame or not.
BodyEnds ==
  /\ phase = "body"
  /\ phase' = "done"
  /\ UNCHANGED <<history, route, wire, attempt, turns, transfer>>

\* The caller appends the turn, with the reasoning filed under its route.
Settle ==
  /\ phase = "done"
  /\ LET calls == ToTurn(acc).calls
         thought == \E i \in 1..Len(reply) : reply[i] = "reasoning" /\ sent[i] > 0
     IN history' = Append(history,
          Msg("assistant", [k \in 1..Len(calls) |-> <<turns, calls[k][1]>>], <<>>,
              IF thought THEN route ELSE NoRoute))
  /\ phase' = "idle"
  /\ UNCHANGED <<route, wire, attempt, turns, transfer>>

Init ==
  /\ history = <<>> /\ phase = "idle" /\ route = NoRoute /\ wire = <<>>
  /\ attempt = 0 /\ turns = 0
  /\ reply = <<>> /\ opened = {} /\ sent = <<>> /\ ended = FALSE
  /\ acc = EmptyAcc /\ shown = <<>>

Next ==
  \/ Ask \/ ToolsAnswer
  \/ \E r \in Routes, answer \in Replies : Call(r, answer)
  \/ SendFails \/ Refused \/ Headers \/ Answered
  \/ \E i \in 1..Len(reply) : Frame(i)
  \/ Closing \/ BodyFails \/ BodyEnds \/ Settle

Spec == Init /\ [][Next]_vars

(***************************************************************************)
(* Properties.                                                             *)
(***************************************************************************)

ItemsOf(kind) == SetToSortSeq({i \in 1..Len(reply) : reply[i] = kind}, <)

\* Whatever the order in which fragments of several items arrive, and
\* whichever protocol carries them, a body that closed yields exactly the
\* reply: its whole text, its calls in their order, each with all of its
\* arguments and none of another's.
TurnIsTheReply ==
  phase = "done" /\ ended =>
    LET calls == ItemsOf("call")
        texts == ItemsOf("text")
    IN /\ ToTurn(acc).calls = [k \in 1..Len(calls) |-> <<calls[k], Whole(calls[k])>>]
       /\ ToTurn(acc).text = FlattenSeq([k \in 1..Len(texts) |-> Whole(texts[k])])

\* The text shown while a call streams is the reply's text from its start,
\* never a fragment twice: a call is retried only while nothing was shown.
ShownOnce ==
  LET texts == ItemsOf("text")
  IN IsPrefix(shown, FlattenSeq([k \in 1..Len(texts) |-> Whole(texts[k])]))

\* In every request that leaves, each protocol finds the results of a turn's
\* calls right behind the calls, all of them, in one message where it wants
\* one; and thinking goes back only to the route it came from.
WireKeepsPairs ==
  phase = "sending" =>
    LET flat == FlattenSeq([k \in 1..Len(wire) |-> wire[k].parts])
        ids(kind) == {flat[k].id : k \in {j \in 1..Len(flat) : flat[j].kind = kind}}
    IN /\ ids("call") = ids("result")
       /\ \A j \in 1..Len(flat) : flat[j].kind = "result" =>
            \E i \in 1..(j - 1) :
              /\ flat[i] = Part("call", flat[j].id)
              /\ \A k \in i..j : flat[k].kind \in {"call", "result"}
       /\ \A j \in 1..Len(flat) : flat[j].kind = "thinking" =>
            history[flat[j].id[1]].record = route
       /\ route.family = "anthropic" => \A k \in 1..Len(wire) :
            LET called == {p.id : p \in {q \in Range(wire[k].parts) : q.kind = "call"}}
            IN called # {} =>
                 /\ k < Len(wire)
                 /\ {p.id : p \in Range(wire[k + 1].parts)} = called
                 /\ \A p \in Range(wire[k + 1].parts) : p.kind = "result"
=============================================================================
