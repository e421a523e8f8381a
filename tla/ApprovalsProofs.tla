-------------------------- MODULE ApprovalsProofs --------------------------
(***************************************************************************)
(* Proofs about Approvals for any number of asking threads, items and      *)
(* answers.                                                                *)
(***************************************************************************)
EXTENDS Approvals, TLAPS

(* What the tool gets for an item: the decision, or the text.              *)
Final(i) ==
  IF kind[i] = "approval" THEN decision[i]
  ELSE IF answer[i] = "none" THEN "unanswered" ELSE answer[i]

(* No client and no timeout has reached the item.                          *)
Untouched(i) ==
  decision[i] = "none" /\ answer[i] = "none" /\ ~expired[i] /\ replies[i] = {}

(* A settled item is settled as its kind allows, once and for all.         *)
SettledInv(i) ==
  /\ kind[i] = "approval" => decision[i] \in Verdicts /\ answer[i] = "none"
  /\ kind[i] = "question" =>
       \/ decision[i] = "answered" /\ answer[i] \in Texts
       \/ decision[i] = "unanswered" /\ answer[i] = "none"
  /\ expired[i] => decision[i] = Fallback(i)

(* What the clients were told of it is what the tool will get.             *)
RepliesInv(i) ==
  /\ \A v \in Verdicts \cup Texts :
       <<"accepted", v>> \in replies[i] \/ <<"repeat", v>> \in replies[i] => v = Final(i)
  /\ Final(i) \in {"allow"} \cup Texts => <<"accepted", Final(i)>> \in replies[i]
  /\ \A v \in Verdicts \cup Texts : <<"expired", v>> \in replies[i] => expired[i]

ItemInv(i) ==
  /\ entry[i] # "decided" => Untouched(i)
  /\ entry[i] = "decided" => SettledInv(i) /\ RepliesInv(i)
  /\ Back(i) => entry[i] = "decided" /\ returned[i] = Final(i) /\ resolved[i] = decision[i]

(* Every thread in request() or ask() has an item to itself, which stands  *)
(* where the thread left it or a client put it.                            *)
HeldInv(w) ==
  /\ pc[w] = "idle" => mine[w] = NoId
  /\ pc[w] # "idle" => mine[w] \in Ids /\ returned[mine[w]] = "none"
  /\ pc[w] = "build" => entry[mine[w]] = "none"
  /\ pc[w] \in {"registered", "waiting"} => entry[mine[w]] # "none"
  /\ pc[w] \in {"settled", "resolved"} => entry[mine[w]] = "decided"
  /\ pc[w] = "resolved" => resolved[mine[w]] = decision[mine[w]]

OwnInv == \A w, v \in Askers : mine[w] = mine[v] /\ mine[w] # NoId => w = v

IInv ==
  /\ TypeOK /\ OwnInv /\ AwaitingMeansAsked
  /\ \A i \in Ids : ItemInv(i)
  /\ \A w \in Askers : HeldInv(w)
----------------------------------------------------------------------------
(* Frames: what a step leaves alone keeps its part of the invariant.       *)

(* An item none of whose fields changes.                                   *)
LEMMA ItemFrame ==
  ASSUME NEW i \in Ids, ItemInv(i),
         kind'[i] = kind[i] \/ entry[i] # "decided", entry'[i] = entry[i],
         decision'[i] = decision[i], answer'[i] = answer[i], expired'[i] = expired[i],
         returned'[i] = returned[i], resolved'[i] = resolved[i], replies'[i] = replies[i]
  PROVE  ItemInv(i)'
<1>1. CASE entry[i] # "decided"
  BY <1>1 DEF ItemInv, Untouched, Back
<1>2. CASE entry[i] = "decided"
  <2>1. Final(i)' = Final(i) /\ Fallback(i)' = Fallback(i)
    BY <1>2 DEF Final, Fallback
  <2>2. SettledInv(i)'
    BY <1>2, <2>1 DEF ItemInv, SettledInv
  <2>3. RepliesInv(i)'
    BY <1>2, <2>1 DEF ItemInv, RepliesInv
  <2>4. Back(i)' = Back(i)
    BY DEF Back
  <2> QED BY <1>2, <2>1, <2>2, <2>3, <2>4 DEF ItemInv
<1> QED BY <1>1, <1>2

(* A thread that does not move and whose item does not change.             *)
LEMMA HeldFrame ==
  ASSUME NEW w \in Askers, HeldInv(w), pc'[w] = pc[w], mine'[w] = mine[w],
         pc[w] # "idle" =>
           /\ returned'[mine[w]] = returned[mine[w]] /\ entry'[mine[w]] = entry[mine[w]]
           /\ resolved'[mine[w]] = resolved[mine[w]] /\ decision'[mine[w]] = decision[mine[w]]
  PROVE  HeldInv(w)'
BY DEF HeldInv

(* The run's status and the threads that wait for a human.                 *)
LEMMA AwaitFrame ==
  ASSUME AwaitingMeansAsked, status' = status,
         \A w \in Askers : pc[w] \in {"waiting", "settled", "resolved"} =>
           /\ pc'[w] \in {"waiting", "settled", "resolved"}
           /\ mine'[w] = mine[w] /\ kind'[mine[w]] = kind[mine[w]]
  PROVE  AwaitingMeansAsked'
BY DEF AwaitingMeansAsked

(* The item of another thread is another item.                             *)
LEMMA OtherItem ==
  ASSUME IInv, NEW w \in Askers, NEW v \in Askers, v # w, pc[w] # "idle", pc[v] # "idle"
  PROVE  mine[v] # mine[w]
<1>1. mine[w] # NoId
  BY IdsAssumption DEF IInv, HeldInv
<1> QED BY <1>1 DEF IInv, OwnInv

(* The thread of an item and the ways an item is settled.                  *)
LEMMA FallbackValue ==
  ASSUME TypeOK, NEW i \in Ids
  PROVE  /\ Fallback(i) \in {"deny", "unanswered"}
         /\ kind[i] = "approval" => Fallback(i) = "deny"
         /\ kind[i] = "question" => Fallback(i) = "unanswered"
         /\ kind[i] \in {"approval", "question"}
BY DEF TypeOK, Fallback, Kinds

(* The table of a new run is empty.                                        *)
LEMMA InitInv == Init => IInv
<1> SUFFICES ASSUME Init PROVE IInv
  OBVIOUS
<1> USE DEF Init
<1>1. TypeOK
  BY DEF TypeOK, Labels, Kinds, Decisions, Verdicts
<1>2. OwnInv
  BY DEF OwnInv
<1>3. AwaitingMeansAsked
  BY DEF AwaitingMeansAsked
<1>4. \A i \in Ids : ItemInv(i)
  BY DEF ItemInv, Untouched, Back
<1>5. \A w \in Askers : HeldInv(w)
  BY DEF HeldInv
<1> QED BY <1>1, <1>2, <1>3, <1>4, <1>5 DEF IInv

----------------------------------------------------------------------------
(* The asking thread.                                                      *)

(* request() and ask() begin with an item nobody used before.              *)
LEMMA AskStep ==
  ASSUME IInv, NEW w \in Askers, NEW i \in Ids, NEW k \in Kinds, Ask(w, i, k)
  PROVE  IInv'
<1>1. /\ UNCHANGED <<entry, decision, answer, expired, returned, resolved, replies>>
      /\ UNCHANGED <<status, cancelled, finished, closed>>
      /\ pc[w] = "idle" /\ mine' = [mine EXCEPT ![w] = i]
      /\ kind' = [kind EXCEPT ![i] = k] /\ pc' = [pc EXCEPT ![w] = "build"]
      /\ i \notin {mine[v] : v \in Askers} /\ entry[i] = "none" /\ returned[i] = "none"
  BY DEF Ask, Goto, Unused, Allocated, runVars
<1>2. TypeOK
  BY DEF IInv
<1>3. /\ pc \in [Askers -> Labels] /\ mine \in [Askers -> Ids \cup {NoId}]
      /\ kind \in [Ids -> Kinds]
  BY <1>2 DEF TypeOK
<1>4. TypeOK'
  <2>1. /\ pc' \in [Askers -> Labels] /\ mine' \in [Askers -> Ids \cup {NoId}]
        /\ kind' \in [Ids -> Kinds]
    BY <1>1, <1>3 DEF Labels
  <2> QED BY <1>1, <1>2, <2>1 DEF TypeOK
<1>5. \A v \in Askers : mine[v] # i
  BY <1>1
<1>6. OwnInv'
  BY <1>1, <1>3, <1>5 DEF IInv, OwnInv
<1>7. AwaitingMeansAsked'
  <2>1. \A v \in Askers : pc[v] \in {"waiting", "settled", "resolved"} =>
           /\ pc'[v] = pc[v] /\ mine'[v] = mine[v] /\ mine[v] \in Ids
    BY <1>1, <1>3 DEF IInv, HeldInv
  <2>2. \A v \in Askers : pc[v] \in {"waiting", "settled", "resolved"} =>
           kind'[mine[v]] = kind[mine[v]]
    BY <1>1, <1>3, <1>5, <2>1
  <2> QED BY <1>1, <2>1, <2>2, AwaitFrame DEF IInv
<1>8. ASSUME NEW j \in Ids PROVE ItemInv(j)'
  <2>1. ItemInv(j) /\ (kind'[j] = kind[j] \/ entry[j] # "decided")
    BY <1>1, <1>3 DEF IInv
  <2> QED BY <1>1, <2>1, ItemFrame
<1>9. ASSUME NEW v \in Askers PROVE HeldInv(v)'
  <2>1. CASE v = w
    BY <1>1, <1>3, <2>1 DEF HeldInv
  <2>2. CASE v # w
    BY <1>1, <1>3, <2>2, HeldFrame DEF IInv
  <2> QED BY <2>1, <2>2
<1> QED BY <1>4, <1>6, <1>7, <1>8, <1>9 DEF IInv

(* Registration, or the refusal when the table was closed meanwhile.       *)
LEMMA RegisterStep ==
  ASSUME IInv, NEW w \in Askers, Register(w)
  PROVE  IInv'
<1> DEFINE i == mine[w]
<1>1. /\ UNCHANGED <<kind, decision, answer, expired, resolved, replies>>
      /\ UNCHANGED <<status, cancelled, finished, closed>>
      /\ pc[w] = "build"
      /\ \/ /\ returned' = [returned EXCEPT ![i] = "refused"]
            /\ mine' = [mine EXCEPT ![w] = NoId]
            /\ pc' = [pc EXCEPT ![w] = "idle"]
            /\ UNCHANGED entry
         \/ /\ entry' = [entry EXCEPT ![i] = "pending"]
            /\ pc' = [pc EXCEPT ![w] = "registered"]
            /\ UNCHANGED <<mine, returned>>
  BY DEF Register, Goto, runVars
<1>2. TypeOK /\ i \in Ids /\ entry[i] = "none" /\ returned[i] = "none" /\ ItemInv(i)
  BY <1>1 DEF IInv, HeldInv
<1>3. /\ pc \in [Askers -> Labels] /\ mine \in [Askers -> Ids \cup {NoId}]
      /\ entry \in [Ids -> {"none", "pending", "decided"}]
      /\ returned \in [Ids -> Decisions \cup Texts \cup {"refused"}]
  BY <1>2 DEF TypeOK
<1>4. TypeOK'
  <2>1. /\ pc' \in [Askers -> Labels] /\ mine' \in [Askers -> Ids \cup {NoId}]
        /\ entry' \in [Ids -> {"none", "pending", "decided"}]
        /\ returned' \in [Ids -> Decisions \cup Texts \cup {"refused"}]
    BY <1>1, <1>2, <1>3 DEF Labels
  <2> QED BY <1>1, <1>2, <2>1 DEF TypeOK
<1>5. OwnInv'
  BY <1>1, <1>3 DEF IInv, OwnInv
<1>6. AwaitingMeansAsked'
  <2>1. \A v \in Askers : pc[v] \in {"waiting", "settled", "resolved"} =>
           /\ pc'[v] = pc[v] /\ mine'[v] = mine[v]
    BY <1>1, <1>3
  <2> QED BY <1>1, <2>1, AwaitFrame DEF IInv
<1>7. ASSUME NEW j \in Ids PROVE ItemInv(j)'
  <2>1. CASE j = i
    BY <1>1, <1>2, <1>3, <2>1 DEF ItemInv, Untouched, Back
  <2>2. CASE j # i
    <3>1. ItemInv(j) /\ entry'[j] = entry[j] /\ returned'[j] = returned[j]
      BY <1>1, <1>3, <2>2 DEF IInv
    <3> QED BY <1>1, <3>1, ItemFrame
  <2> QED BY <2>1, <2>2
<1>8. ASSUME NEW v \in Askers PROVE HeldInv(v)'
  <2>1. CASE v = w
    BY <1>1, <1>2, <1>3, <2>1 DEF HeldInv
  <2>2. CASE v # w
    <3>1. pc'[v] = pc[v] /\ mine'[v] = mine[v] /\ HeldInv(v)
      BY <1>1, <1>3, <2>2 DEF IInv
    <3>2. pc[v] # "idle" => mine[v] \in Ids /\ mine[v] # i
      BY <1>1, <2>2, <3>1, OtherItem DEF HeldInv
    <3>3. pc[v] # "idle" =>
            entry'[mine[v]] = entry[mine[v]] /\ returned'[mine[v]] = returned[mine[v]]
      BY <1>1, <1>3, <3>2
    <3> QED BY <1>1, <3>1, <3>3, HeldFrame
  <2> QED BY <2>1, <2>2
<1> QED BY <1>4, <1>5, <1>6, <1>7, <1>8 DEF IInv
(* A thread that moves on while the items and the run stay as they are.    *)
LEMMA MoveOn ==
  ASSUME IInv, NEW w \in Askers, NEW l \in Labels, pc' = [pc EXCEPT ![w] = l],
         UNCHANGED <<mine, kind, entry, decision, answer, expired>>,
         UNCHANGED <<returned, replies, cancelled, finished, closed>>,
         resolved' \in [Ids -> Decisions],
         \A i \in Ids : returned[i] # "none" => resolved'[i] = resolved[i],
         \A v \in Askers \ {w} : pc[v] # "idle" => resolved'[mine[v]] = resolved[mine[v]],
         status' \in {"running", "awaiting_approval", "awaiting_input", "terminal"},
         AwaitingMeansAsked', HeldInv(w)'
  PROVE  IInv'
<1>1. TypeOK /\ pc \in [Askers -> Labels]
  BY DEF IInv, TypeOK
<1>2. TypeOK'
  BY <1>1 DEF TypeOK
<1>3. OwnInv'
  BY DEF IInv, OwnInv
<1>4. ASSUME NEW i \in Ids PROVE ItemInv(i)'
  <2>1. ItemInv(i)
    BY DEF IInv
  <2>2. CASE returned[i] # "none"
    <3>1. resolved'[i] = resolved[i]
      BY <2>2
    <3> QED BY <2>1, <3>1, ItemFrame
  <2>3. CASE returned[i] = "none"
    BY <2>1, <2>3 DEF ItemInv, Untouched, Back, SettledInv, RepliesInv, Final, Fallback
  <2> QED BY <2>2, <2>3
<1>5. ASSUME NEW v \in Askers, v # w PROVE HeldInv(v)'
  BY <1>1, <1>5, HeldFrame DEF IInv
<1> QED BY <1>2, <1>3, <1>4, <1>5 DEF IInv

(* The asker shows the status while its item is pending.                   *)
LEMMA SetAwaitingStep ==
  ASSUME IInv, NEW w \in Askers, SetAwaiting(w)
  PROVE  IInv'
<1>1. /\ UNCHANGED <<mine, kind, entry, decision, answer, expired>>
      /\ UNCHANGED <<returned, resolved, replies, cancelled, finished, closed>>
      /\ pc[w] = "registered" /\ pc' = [pc EXCEPT ![w] = "waiting"]
      /\ status' = IF kind[mine[w]] = "question" THEN "awaiting_input"
                                                ELSE "awaiting_approval"
  BY DEF SetAwaiting, Goto, itemVars
<1>2. TypeOK /\ HeldInv(w) /\ pc \in [Askers -> Labels] /\ resolved \in [Ids -> Decisions]
  BY DEF IInv, TypeOK
<1>3. "waiting" \in Labels /\ pc'[w] = "waiting"
  BY <1>1, <1>2 DEF Labels
<1>4. AwaitingMeansAsked'
  BY <1>1, <1>3 DEF AwaitingMeansAsked
<1>5. HeldInv(w)'
  BY <1>1, <1>2, <1>3 DEF HeldInv
<1> QED BY <1>1, <1>2, <1>3, <1>4, <1>5, MoveOn

(* A waiter that finds its item settled takes the answer as it is.         *)
LEMMA AwaitSettledStep ==
  ASSUME IInv, NEW w \in Askers, AwaitSettled(w)
  PROVE  IInv'
<1>1. /\ UNCHANGED <<mine, kind, entry, decision, answer, expired>>
      /\ UNCHANGED <<returned, resolved, replies, status, cancelled, finished, closed>>
      /\ pc[w] = "waiting" /\ pc' = [pc EXCEPT ![w] = "settled"]
      /\ decision[mine[w]] # "none" \/ answer[mine[w]] # "none"
  BY DEF AwaitSettled, Goto, itemVars, runVars, Settled
<1>2. TypeOK /\ HeldInv(w) /\ pc \in [Askers -> Labels] /\ resolved \in [Ids -> Decisions]
  BY DEF IInv, TypeOK
<1>3. "settled" \in Labels /\ pc'[w] = "settled"
  BY <1>1, <1>2 DEF Labels
<1>4. AwaitingMeansAsked'
  <2>1. \A v \in Askers : pc[v] \in {"waiting", "settled", "resolved"}
                            => pc'[v] \in {"waiting", "settled", "resolved"}
    BY <1>1, <1>2
  <2> QED BY <1>1, <2>1, AwaitFrame DEF IInv
<1>5. HeldInv(w)'
  <2>1. mine[w] \in Ids
    BY <1>1, <1>2 DEF HeldInv
  <2>2. entry[mine[w]] = "decided"
    BY <1>1, <2>1 DEF IInv, ItemInv, Untouched
  <2> QED BY <1>1, <1>2, <1>3, <2>2 DEF HeldInv
<1>6. status' \in {"running", "awaiting_approval", "awaiting_input", "terminal"}
  BY <1>1, <1>2 DEF TypeOK
<1> QED BY <1>1, <1>2, <1>3, <1>4, <1>5, <1>6, MoveOn

(* The resolved event changes neither table nor status.                    *)
LEMMA EmitResolvedStep ==
  ASSUME IInv, NEW w \in Askers, EmitResolved(w)
  PROVE  IInv'
<1>1. /\ UNCHANGED <<mine, kind, entry, decision, answer, expired>>
      /\ UNCHANGED <<returned, replies, status, cancelled, finished, closed>>
      /\ pc[w] = "settled" /\ pc' = [pc EXCEPT ![w] = "resolved"]
      /\ resolved' = [resolved EXCEPT ![mine[w]] = decision[mine[w]]]
  BY DEF EmitResolved, Goto, itemVars, runVars
<1>2. /\ TypeOK /\ HeldInv(w) /\ pc \in [Askers -> Labels] /\ resolved \in [Ids -> Decisions]
      /\ decision \in [Ids -> Decisions]
  BY DEF IInv, TypeOK
<1>3. "resolved" \in Labels /\ pc'[w] = "resolved"
  BY <1>1, <1>2 DEF Labels
<1>4. mine[w] \in Ids /\ returned[mine[w]] = "none"
  BY <1>1, <1>2 DEF HeldInv
<1>5. AwaitingMeansAsked'
  <2>1. \A v \in Askers : pc[v] \in {"waiting", "settled", "resolved"}
                            => pc'[v] \in {"waiting", "settled", "resolved"}
    BY <1>1, <1>2
  <2> QED BY <1>1, <2>1, AwaitFrame DEF IInv
<1>6. HeldInv(w)'
  BY <1>1, <1>2, <1>3, <1>4 DEF HeldInv
<1>7. status' \in {"running", "awaiting_approval", "awaiting_input", "terminal"}
  BY <1>1, <1>2 DEF TypeOK
<1>8. /\ resolved' \in [Ids -> Decisions]
      /\ \A i \in Ids : returned[i] # "none" => resolved'[i] = resolved[i]
  BY <1>1, <1>2, <1>4
<1>9. ASSUME NEW v \in Askers \ {w}, pc[v] # "idle"
      PROVE  resolved'[mine[v]] = resolved[mine[v]]
  <2>1. mine[v] # mine[w] /\ mine[v] \in Ids
    BY <1>1, <1>9, OtherItem DEF IInv, HeldInv
  <2> QED BY <1>1, <1>2, <2>1
<1> QED BY <1>1, <1>3, <1>5, <1>6, <1>7, <1>8, <1>9, MoveOn

(* Cancelled, closed or expired: the thread settles its own item.          *)
LEMMA AwaitOverStep ==
  ASSUME IInv, NEW w \in Askers, AwaitEnded(w) \/ AwaitExpired(w)
  PROVE  IInv'
<1> DEFINE i == mine[w]
<1>1. /\ UNCHANGED <<mine, kind, answer, returned, resolved, replies>>
      /\ UNCHANGED <<status, cancelled, finished, closed>>
      /\ pc[w] = "waiting" /\ pc' = [pc EXCEPT ![w] = "settled"]
      /\ decision[i] = "none" /\ answer[i] = "none"
      /\ decision' = [decision EXCEPT ![i] = Fallback(i)]
      /\ entry' = [entry EXCEPT ![i] = "decided"]
      /\ expired' = expired \/ expired' = [expired EXCEPT ![i] = TRUE]
  BY DEF AwaitEnded, AwaitExpired, Goto, runVars, Settled, SettleAs
<1>2. TypeOK /\ HeldInv(w) /\ i \in Ids /\ ItemInv(i) /\ returned[i] = "none"
  BY <1>1 DEF IInv, HeldInv
<1>3. /\ pc \in [Askers -> Labels] /\ decision \in [Ids -> Decisions]
      /\ entry \in [Ids -> {"none", "pending", "decided"}] /\ expired \in [Ids -> BOOLEAN]
  BY <1>2 DEF TypeOK
<1>4. Fallback(i) \in {"deny", "unanswered"} /\ Fallback(i) \in Decisions
  BY <1>2, FallbackValue DEF Decisions, Verdicts
<1>5. entry[i] = "pending" /\ replies[i] = {}
  <2>1. entry[i] # "decided"
    BY <1>1, <1>2, FallbackValue DEF ItemInv, SettledInv, Verdicts
  <2> QED BY <1>1, <1>2, <1>3, <2>1 DEF ItemInv, Untouched, HeldInv
<1>6. TypeOK'
  <2>1. /\ pc' \in [Askers -> Labels] /\ decision' \in [Ids -> Decisions]
        /\ entry' \in [Ids -> {"none", "pending", "decided"}]
    BY <1>1, <1>2, <1>3, <1>4 DEF Labels
  <2>2. expired' \in [Ids -> BOOLEAN]
    BY <1>1, <1>2, <1>3
  <2> QED BY <1>1, <1>2, <2>1, <2>2 DEF TypeOK
<1>7. OwnInv'
  BY <1>1 DEF IInv, OwnInv
<1>8. AwaitingMeansAsked'
  <2>1. \A v \in Askers : pc[v] \in {"waiting", "settled", "resolved"}
                            => pc'[v] \in {"waiting", "settled", "resolved"}
    BY <1>1, <1>3
  <2> QED BY <1>1, <2>1, AwaitFrame DEF IInv
<1>9. ASSUME NEW j \in Ids PROVE ItemInv(j)'
  <2>1. CASE j = i
    <3>1. /\ entry'[j] = "decided" /\ decision'[j] = Fallback(j) /\ answer'[j] = "none"
          /\ kind'[j] = kind[j] /\ replies'[j] = {} /\ returned'[j] = "none"
      BY <1>1, <1>2, <1>3, <1>5, <2>1
    <3>2. Fallback(j)' = Fallback(j)
      BY <3>1 DEF Fallback
    <3>3. SettledInv(j)'
      BY <1>2, <3>1, <3>2, FallbackValue DEF SettledInv, Verdicts
    <3>4. Final(j)' \in {"deny", "unanswered"}
      BY <1>2, <3>1, FallbackValue DEF Final
    <3>5. RepliesInv(j)'
      BY <3>1, <3>4, TextsAssumption DEF RepliesInv
    <3> QED BY <3>1, <3>3, <3>5 DEF ItemInv, Back
  <2>2. CASE j # i
    <3>1. /\ ItemInv(j) /\ entry'[j] = entry[j] /\ decision'[j] = decision[j]
          /\ expired'[j] = expired[j]
      BY <1>1, <1>2, <1>3, <2>2 DEF IInv
    <3> QED BY <1>1, <3>1, ItemFrame
  <2> QED BY <2>1, <2>2
<1>10. ASSUME NEW v \in Askers PROVE HeldInv(v)'
  <2>1. CASE v = w
    BY <1>1, <1>2, <1>3, <2>1 DEF HeldInv
  <2>2. CASE v # w
    <3>1. pc'[v] = pc[v] /\ mine'[v] = mine[v] /\ HeldInv(v)
      BY <1>1, <1>3, <2>2 DEF IInv
    <3>2. pc[v] # "idle" => mine[v] \in Ids /\ mine[v] # i
      BY <1>1, <2>2, <3>1, OtherItem DEF HeldInv
    <3>3. pc[v] # "idle" =>
            entry'[mine[v]] = entry[mine[v]] /\ decision'[mine[v]] = decision[mine[v]]
      BY <1>1, <1>3, <3>2
    <3> QED BY <1>1, <3>1, <3>3, HeldFrame
  <2> QED BY <2>1, <2>2
<1> QED BY <1>6, <1>7, <1>8, <1>9, <1>10 DEF IInv
(* set_status("running") and the return value.                             *)
LEMMA SetRunningStep ==
  ASSUME IInv, NEW w \in Askers, SetRunning(w)
  PROVE  IInv'
<1> DEFINE i == mine[w]
<1>1. /\ UNCHANGED <<kind, entry, decision, answer, expired>>
      /\ UNCHANGED <<resolved, replies, cancelled, finished, closed>>
      /\ pc[w] = "resolved" /\ pc' = [pc EXCEPT ![w] = "idle"]
      /\ mine' = [mine EXCEPT ![w] = NoId] /\ status' = "running"
      /\ returned' = [returned EXCEPT ![i] = Final(i)]
  BY DEF SetRunning, Goto, itemVars, Final
<1>2. /\ TypeOK /\ i \in Ids /\ ItemInv(i) /\ entry[i] = "decided"
      /\ resolved[i] = decision[i]
  BY <1>1 DEF IInv, HeldInv
<1>3. /\ pc \in [Askers -> Labels] /\ mine \in [Askers -> Ids \cup {NoId}]
      /\ returned \in [Ids -> Decisions \cup Texts \cup {"refused"}]
      /\ decision \in [Ids -> Decisions] /\ answer \in [Ids -> Texts \cup {"none"}]
  BY <1>2 DEF TypeOK
<1>4. TypeOK'
  <2>1. Final(i) \in Decisions \cup Texts
    BY <1>2, <1>3 DEF Final, Decisions
  <2>2. returned' \in [Ids -> Decisions \cup Texts \cup {"refused"}]
    BY <1>1, <1>3, <2>1
  <2>3. pc' \in [Askers -> Labels] /\ mine' \in [Askers -> Ids \cup {NoId}]
    BY <1>1, <1>3 DEF Labels
  <2>4. status' \in {"running", "awaiting_approval", "awaiting_input", "terminal"}
    BY <1>1
  <2> QED BY <1>1, <1>2, <2>2, <2>3, <2>4 DEF TypeOK
<1>5. OwnInv'
  BY <1>1, <1>3 DEF IInv, OwnInv
<1>6. AwaitingMeansAsked'
  BY <1>1 DEF AwaitingMeansAsked
<1>7. ASSUME NEW j \in Ids PROVE ItemInv(j)'
  <2>1. CASE j = i
    <3>1. Final(j)' = Final(j) /\ Fallback(j)' = Fallback(j)
      BY <1>1 DEF Final, Fallback
    <3>2. returned'[j] = Final(j)
      BY <1>1, <1>2, <1>3, <2>1
    <3>3. SettledInv(j)' /\ RepliesInv(j)'
      BY <1>1, <1>2, <2>1, <3>1 DEF ItemInv, SettledInv, RepliesInv
    <3> QED BY <1>1, <1>2, <2>1, <3>1, <3>2, <3>3 DEF ItemInv
  <2>2. CASE j # i
    <3>1. ItemInv(j) /\ returned'[j] = returned[j]
      BY <1>1, <1>3, <2>2 DEF IInv
    <3> QED BY <1>1, <3>1, ItemFrame
  <2> QED BY <2>1, <2>2
<1>8. ASSUME NEW v \in Askers PROVE HeldInv(v)'
  <2>1. CASE v = w
    BY <1>1, <1>3, <2>1 DEF HeldInv
  <2>2. CASE v # w
    <3>1. pc'[v] = pc[v] /\ mine'[v] = mine[v] /\ HeldInv(v)
      BY <1>1, <1>3, <2>2 DEF IInv
    <3>2. pc[v] # "idle" => mine[v] \in Ids /\ mine[v] # i
      BY <1>1, <2>2, <3>1, OtherItem DEF HeldInv
    <3>3. pc[v] # "idle" => returned'[mine[v]] = returned[mine[v]]
      BY <1>1, <1>3, <3>2
    <3> QED BY <1>1, <3>1, <3>3, HeldFrame
  <2> QED BY <2>1, <2>2
<1> QED BY <1>4, <1>5, <1>6, <1>7, <1>8 DEF IInv

----------------------------------------------------------------------------
(* The request-handling threads.                                           *)

(* resolve() or answer() of a pending item; v is what the client said.     *)
LEMMA SettleStep ==
  ASSUME IInv, NEW i \in Ids, entry[i] = "pending",
         UNCHANGED <<pc, mine, kind, expired, returned, resolved>>,
         UNCHANGED <<status, cancelled, finished, closed>>,
         NEW v \in Verdicts \cup Texts, NEW d \in Decisions \ {"none"},
         SettleAs(i, d), Told(i, <<"accepted", v>>), answer' \in [Ids -> Texts \cup {"none"}],
         \A j \in Ids \ {i} : answer'[j] = answer[j],
         \/ kind[i] = "approval" /\ d = v /\ v \in Verdicts /\ answer'[i] = "none"
         \/ kind[i] = "question" /\ d = "answered" /\ v \in Texts /\ answer'[i] = v
  PROVE  IInv'
<1>1. /\ decision' = [decision EXCEPT ![i] = d] /\ entry' = [entry EXCEPT ![i] = "decided"]
      /\ replies' = [replies EXCEPT ![i] = replies[i] \cup {<<"accepted", v>>}]
  BY DEF SettleAs, Told
<1>2. TypeOK /\ ItemInv(i)
  BY DEF IInv
<1>3. /\ decision \in [Ids -> Decisions] /\ replies \in [Ids -> SUBSET Replies]
      /\ entry \in [Ids -> {"none", "pending", "decided"}]
  BY <1>2 DEF TypeOK
<1>4. TypeOK'
  <2>1. <<"accepted", v>> \in Replies
    BY DEF Replies
  <2>2. replies' \in [Ids -> SUBSET Replies]
    BY <1>1, <1>3, <2>1
  <2>3. decision' \in [Ids -> Decisions] /\ entry' \in [Ids -> {"none", "pending", "decided"}]
    BY <1>1, <1>3
  <2> QED BY <1>2, <2>2, <2>3 DEF TypeOK
<1>5. OwnInv' /\ AwaitingMeansAsked'
  BY DEF IInv, OwnInv, AwaitingMeansAsked
<1>6. ASSUME NEW j \in Ids PROVE ItemInv(j)'
  <2>1. CASE j = i
    <3>1. /\ entry'[i] = "decided" /\ decision'[i] = d /\ replies'[i] = {<<"accepted", v>>}
          /\ ~expired[i] /\ ~Back(i)
      BY <1>1, <1>2, <1>3 DEF ItemInv, Untouched
    <3>2. SettledInv(i)'
      BY <3>1 DEF SettledInv
    <3>3. Final(i)' = v
      BY <3>1, TextsAssumption DEF Final
    <3>4. RepliesInv(i)'
      BY <3>1, <3>3 DEF RepliesInv
    <3>5. ~Back(i)'
      BY <3>1 DEF Back
    <3> QED BY <2>1, <3>1, <3>2, <3>4, <3>5 DEF ItemInv
  <2>2. CASE j # i
    <3>1. /\ ItemInv(j) /\ entry'[j] = entry[j] /\ decision'[j] = decision[j]
          /\ replies'[j] = replies[j] /\ answer'[j] = answer[j]
      BY <1>1, <1>3, <2>2 DEF IInv
    <3> QED BY <3>1, ItemFrame
  <2> QED BY <2>1, <2>2
<1>7. ASSUME NEW w \in Askers PROVE HeldInv(w)'
  <2>1. HeldInv(w)
    BY DEF IInv
  <2>2. CASE mine[w] = i
    BY <1>1, <1>3, <2>1, <2>2 DEF HeldInv
  <2>3. CASE mine[w] # i
    <3>1. pc[w] # "idle" => mine[w] \in Ids
      BY <2>1 DEF HeldInv
    <3>2. pc[w] # "idle" =>
            entry'[mine[w]] = entry[mine[w]] /\ decision'[mine[w]] = decision[mine[w]]
      BY <1>1, <1>3, <2>3, <3>1
    <3> QED BY <2>1, <3>2, HeldFrame
  <2> QED BY <2>2, <2>3
<1> QED BY <1>4, <1>5, <1>6, <1>7 DEF IInv

(* An accepted verdict is the one the waiter will find.                    *)
LEMMA ResolveStep ==
  ASSUME IInv, NEW i \in Ids, NEW d \in Verdicts, Resolve(i, d)
  PROVE  IInv'
<1>1. /\ UNCHANGED <<pc, mine, kind, expired, returned, resolved, answer>>
      /\ UNCHANGED <<status, cancelled, finished, closed>>
      /\ entry[i] = "pending" /\ kind[i] = "approval"
      /\ SettleAs(i, d) /\ Told(i, <<"accepted", d>>)
  BY DEF Resolve, runVars
<1>2. answer \in [Ids -> Texts \cup {"none"}] /\ answer[i] = "none"
  BY <1>1 DEF IInv, TypeOK, ItemInv, Untouched
<1>3. d \in Decisions \ {"none"} /\ d \in Verdicts \cup Texts
  BY DEF Decisions, Verdicts
<1> QED BY <1>1, <1>2, <1>3, SettleStep

(* An accepted text is the one the waiter will find.                       *)
LEMMA AnswerStep ==
  ASSUME IInv, NEW i \in Ids, NEW t \in Texts, Answer(i, t)
  PROVE  IInv'
<1>1. /\ UNCHANGED <<pc, mine, kind, expired, returned, resolved>>
      /\ UNCHANGED <<status, cancelled, finished, closed>>
      /\ entry[i] = "pending" /\ kind[i] = "question"
      /\ answer' = [answer EXCEPT ![i] = t]
      /\ SettleAs(i, "answered") /\ Told(i, <<"accepted", t>>)
  BY DEF Answer, runVars
<1>2. answer \in [Ids -> Texts \cup {"none"}]
  BY DEF IInv, TypeOK
<1>3. /\ answer' \in [Ids -> Texts \cup {"none"}] /\ answer'[i] = t
      /\ \A j \in Ids \ {i} : answer'[j] = answer[j]
  BY <1>1, <1>2
<1>4. "answered" \in Decisions \ {"none"}
  BY DEF Decisions
<1> QED BY <1>1, <1>3, <1>4, SettleStep

(* resolve() or answer() of a settled item changes only what clients know. *)
LEMMA AgainStep ==
  ASSUME IInv, NEW i \in Ids, entry[i] = "decided",
         UNCHANGED <<pc, mine, kind, entry, decision, answer, expired>>,
         UNCHANGED <<returned, resolved, status, cancelled, finished, closed>>,
         NEW v \in Verdicts \cup Texts, NEW r \in {"expired", "conflict", "repeat"},
         Told(i, <<r, v>>), r = "expired" => expired[i], r = "repeat" => v = Final(i)
  PROVE  IInv'
<1>1. replies' = [replies EXCEPT ![i] = replies[i] \cup {<<r, v>>}]
  BY DEF Told
<1>2. TypeOK /\ replies \in [Ids -> SUBSET Replies]
  BY DEF IInv, TypeOK
<1>3. TypeOK'
  <2>1. <<r, v>> \in Replies
    BY DEF Replies
  <2>2. replies' \in [Ids -> SUBSET Replies]
    BY <1>1, <1>2, <2>1
  <2> QED BY <1>2, <2>2 DEF TypeOK
<1>4. OwnInv' /\ AwaitingMeansAsked'
  BY DEF IInv, OwnInv, AwaitingMeansAsked
<1>5. ASSUME NEW j \in Ids PROVE ItemInv(j)'
  <2>1. CASE j = i
    <3>1. ItemInv(i) /\ replies'[i] = replies[i] \cup {<<r, v>>}
      BY <1>1, <1>2 DEF IInv
    <3>2. Final(i)' = Final(i) /\ SettledInv(i)' /\ Back(i)' = Back(i)
      BY <3>1 DEF Final, SettledInv, Back, ItemInv, Fallback
    <3>3. RepliesInv(i)'
      <4>1. ASSUME NEW u \in Verdicts \cup Texts, NEW q \in {"accepted", "repeat", "expired"},
                   <<q, u>> \in replies'[i], <<q, u>> \notin replies[i]
            PROVE  q = r /\ u = v
        BY <3>1, <4>1
      <4>2. RepliesInv(i)
        BY <3>1 DEF ItemInv
      <4>3. \A u \in Verdicts \cup Texts :
              <<"accepted", u>> \in replies'[i] \/ <<"repeat", u>> \in replies'[i] => u = Final(i)
        BY <4>1, <4>2 DEF RepliesInv
      <4>4. \A u \in Verdicts \cup Texts : <<"expired", u>> \in replies'[i] => expired[i]
        BY <4>1, <4>2 DEF RepliesInv
      <4>5. Final(i) \in {"allow"} \cup Texts => <<"accepted", Final(i)>> \in replies'[i]
        BY <3>1, <4>2 DEF RepliesInv
      <4> QED BY <3>2, <4>3, <4>4, <4>5 DEF RepliesInv
    <3> QED BY <2>1, <3>1, <3>2, <3>3 DEF ItemInv
  <2>2. CASE j # i
    <3>1. ItemInv(j) /\ replies'[j] = replies[j]
      BY <1>1, <1>2, <2>2 DEF IInv
    <3> QED BY <3>1, ItemFrame
  <2> QED BY <2>1, <2>2
<1>6. \A w \in Askers : HeldInv(w)'
  BY DEF IInv, HeldInv
<1> QED BY <1>3, <1>4, <1>5, <1>6 DEF IInv

(* Answers to items that are settled, gone or closed are told what         *)
(* happened to the item.                                                   *)
LEMMA AgainSteps ==
  ASSUME IInv, NEW i \in Ids,
         \/ \E d \in Verdicts : ResolveAgain(i, d)
         \/ \E t \in Texts : AnswerAgain(i, t)
  PROVE  IInv'
<1>1. TypeOK /\ ItemInv(i) /\ kind[i] \in {"approval", "question"}
  BY FallbackValue DEF IInv
<1>2. ASSUME NEW d \in Verdicts, ResolveAgain(i, d) PROVE IInv'
  <2> DEFINE r == IF expired[i] THEN "expired"
                  ELSE IF decision[i] # d THEN "conflict" ELSE "repeat"
  <2>1. /\ UNCHANGED <<pc, mine, kind, entry, decision, answer, expired>>
        /\ UNCHANGED <<returned, resolved, status, cancelled, finished, closed>>
        /\ entry[i] = "decided" /\ Told(i, <<r, d>>)
    BY <1>2 DEF ResolveAgain, itemVars, runVars
  <2>2. r \in {"expired", "conflict", "repeat"} /\ (r = "expired" => expired[i])
    OBVIOUS
  <2>3. r = "repeat" => d = Final(i)
    BY <1>1, <2>1 DEF ItemInv, SettledInv, Final, Verdicts
  <2> HIDE DEF r
  <2> QED BY <2>1, <2>2, <2>3, AgainStep
<1>3. ASSUME NEW t \in Texts, AnswerAgain(i, t) PROVE IInv'
  <2> DEFINE r == IF expired[i] THEN "expired"
                  ELSE IF decision[i] # "answered" \/ answer[i] # t THEN "conflict"
                  ELSE "repeat"
  <2>1. /\ UNCHANGED <<pc, mine, kind, entry, decision, answer, expired>>
        /\ UNCHANGED <<returned, resolved, status, cancelled, finished, closed>>
        /\ entry[i] = "decided" /\ Told(i, <<r, t>>)
    BY <1>3 DEF AnswerAgain, itemVars, runVars
  <2>2. r \in {"expired", "conflict", "repeat"} /\ (r = "expired" => expired[i])
    OBVIOUS
  <2>3. r = "repeat" => t = Final(i)
    BY <1>1, <2>1, TextsAssumption DEF ItemInv, SettledInv, Final, Verdicts
  <2> HIDE DEF r
  <2> QED BY <2>1, <2>2, <2>3, AgainStep
<1> QED BY <1>2, <1>3

----------------------------------------------------------------------------
(* The run, and the theorems.                                              *)

(* A cancel, the end of the run and the closing of its table.              *)
LEMMA RunStep ==
  ASSUME IInv, Cancel \/ Finish \/ Close \/ UNCHANGED vars
  PROVE  IInv'
<1>1. /\ UNCHANGED <<pc, mine, kind, entry, decision, answer, expired>>
      /\ UNCHANGED <<returned, resolved, replies>>
      /\ status' \in {status, "terminal"}
  BY DEF Cancel, Finish, Close, vars, itemVars, runVars
<1>2. TypeOK /\ cancelled' \in BOOLEAN /\ finished' \in BOOLEAN /\ closed' \in BOOLEAN
  BY DEF IInv, TypeOK, Cancel, Finish, Close, vars, runVars
<1>3. TypeOK'
  BY <1>1, <1>2 DEF TypeOK
<1>4. OwnInv' /\ AwaitingMeansAsked'
  BY <1>1 DEF IInv, OwnInv, AwaitingMeansAsked
<1>5. \A i \in Ids : ItemInv(i)'
  BY <1>1, ItemFrame DEF IInv
<1>6. \A w \in Askers : HeldInv(w)'
  BY <1>1 DEF IInv, HeldInv
<1> QED BY <1>3, <1>4, <1>5, <1>6 DEF IInv

(* The invariant is inductive.                                             *)
LEMMA NextInv == IInv /\ [Next]_vars => IInv'
<1> SUFFICES ASSUME IInv, [Next]_vars PROVE IInv'
  OBVIOUS
<1>1. ASSUME NEW w \in Askers, AskerStep(w) PROVE IInv'
  BY <1>1, RegisterStep, SetAwaitingStep, AwaitSettledStep, AwaitOverStep,
     EmitResolvedStep, SetRunningStep DEF AskerStep
<1>2. ASSUME NEW w \in Askers, NEW i \in Ids, NEW k \in Kinds, Ask(w, i, k) PROVE IInv'
  BY <1>2, AskStep
<1>3. ASSUME NEW i \in Ids, ClientStep(i) PROVE IInv'
  BY <1>3, ResolveStep, AnswerStep, AgainSteps DEF ClientStep
<1> QED BY <1>1, <1>2, <1>3, RunStep DEF Next

(* Table, threads and run stay in step through every race of asking,       *)
(* answering, expiry, cancellation and the end of the run.                 *)
THEOREM TableInvariance == Spec => []IInv
<1> QED BY InitInv, NextInv, PTL DEF Spec

(* The table, the threads that use it and the run keep their types.        *)
THEOREM TableTypeCorrect == Spec => []TypeOK
<1>1. IInv => TypeOK
  BY DEF IInv
<1> QED BY <1>1, TableInvariance, PTL

(* What resolve() and answer() report to a client is what request() or     *)
(* ask() returns to the tool, for every number of threads and clients.     *)
THEOREM ClientsAreNotMisled == Spec => []ClientAndToolAgree
<1>1. ASSUME IInv, NEW i \in Ids, Back(i)
      PROVE  /\ \A v \in Verdicts \cup Texts :
                  {<<"accepted", v>>, <<"repeat", v>>} \cap replies[i] # {} => returned[i] = v
             /\ returned[i] \in {"allow"} \cup Texts => <<"accepted", returned[i]>> \in replies[i]
             /\ (\E v \in Verdicts \cup Texts : <<"expired", v>> \in replies[i])
                  => returned[i] \in {"deny", "unanswered"} /\ resolved[i] = returned[i]
  <2>1. /\ entry[i] = "decided" /\ returned[i] = Final(i) /\ resolved[i] = decision[i]
        /\ SettledInv(i) /\ RepliesInv(i) /\ TypeOK
    BY <1>1 DEF IInv, ItemInv
  <2>2. expired[i] => Final(i) \in {"deny", "unanswered"} /\ decision[i] = Final(i)
    BY <2>1, FallbackValue DEF SettledInv, Final
  <2> QED BY <2>1, <2>2 DEF RepliesInv
<1>2. IInv => ClientAndToolAgree
  BY <1>1 DEF ClientAndToolAgree
<1> QED BY <1>2, TableInvariance, PTL

(* The run's status never claims a wait that no thread is in, although     *)
(* several threads set it.                                                 *)
THEOREM StatusIsHonest == Spec => []AwaitingMeansAsked
<1>1. IInv => AwaitingMeansAsked
  BY DEF IInv
<1> QED BY <1>1, TableInvariance, PTL
============================================================================
