----------------------------- MODULE Approvals -----------------------------
(***************************************************************************)
(* The pending table of one run: approvals and questions that block a tool *)
(* on a human (avid/services/approvals.py), with the run's status as the   *)
(* table's callbacks change it (avid/services/runs.py).                    *)
(*                                                                         *)
(* Several threads ask at once: the run thread and the children of the     *)
(* subagent tool, which shares the parent's callback and does not wait for *)
(* a child that timed out. A child may therefore outlive the run.          *)
(***************************************************************************)
EXTENDS Integers, FiniteSets

CONSTANTS
  Askers,   \* threads that call request() or ask()
  Main,     \* the run thread, one of them
  Ids,      \* approval ids; each is allocated once (bounds the model)
  Texts,    \* texts a human may answer a question with
  NoId

ASSUME AskersAssumption == Main \in Askers
ASSUME IdsAssumption == NoId \notin Ids
ASSUME TextsAssumption ==
  Texts \cap {"none", "allow", "deny", "answered", "unanswered"} = {}

VARIABLES
  pc,        \* where each asker stands in request() / ask()
  mine,      \* the id of its pending item
  kind,      \* PendingApproval.kind
  entry,     \* which map holds the item: "none", "pending" or "decided"
  decision,  \* PendingApproval.decision, "none" for None
  answer,    \* PendingApproval.answer, "none" for None
  expired,   \* PendingApproval.expired
  returned,  \* what request() / ask() returned for the item
  resolved,  \* decision carried by the item's APPROVAL_RESOLVED event
  replies,   \* what the clients that answered the item were told
  status,    \* RunRecord.status, its three terminal values as one
  cancelled, \* RunRecord.cancel_requested
  finished,  \* _finish() has run
  closed     \* ApprovalTable._closed

itemVars == <<kind, entry, decision, answer, expired>>
runVars  == <<status, cancelled, finished, closed>>
vars     == <<pc, mine, itemVars, returned, resolved, replies, runVars>>

Kinds    == {"approval", "question"}
Verdicts == {"allow", "deny"}

Init ==
  /\ pc = [w \in Askers |-> "idle"]
  /\ mine = [w \in Askers |-> NoId]
  /\ kind = [i \in Ids |-> "approval"]
  /\ entry = [i \in Ids |-> "none"]
  /\ decision = [i \in Ids |-> "none"]
  /\ answer = [i \in Ids |-> "none"]
  /\ expired = [i \in Ids |-> FALSE]
  /\ returned = [i \in Ids |-> "none"]
  /\ resolved = [i \in Ids |-> "none"]
  /\ replies = [i \in Ids |-> {}]
  /\ status = "running"
  /\ cancelled = FALSE /\ finished = FALSE /\ closed = FALSE

----------------------------------------------------------------------------
(* The asking thread.                                                      *)

Goto(w, l) == pc' = [pc EXCEPT ![w] = l]

Allocated == {mine[w] : w \in Askers}
Unused(i) == i \notin Allocated /\ entry[i] = "none" /\ returned[i] = "none"

(* request() / ask() up to the registration; a cancelled or closed run     *)
(* refuses before an id exists. The run thread asks only while it runs.    *)
Ask(w, i, k) ==
  /\ pc[w] = "idle"
  /\ w = Main => ~finished
  /\ Unused(i)
  /\ ~cancelled /\ ~closed
  /\ mine' = [mine EXCEPT ![w] = i]
  /\ kind' = [kind EXCEPT ![i] = k]
  /\ Goto(w, "build")
  /\ UNCHANGED <<entry, decision, answer, expired, returned, resolved, replies, runVars>>

(* The table may have been closed while the item was being built.          *)
Register(w) ==
  /\ pc[w] = "build"
  /\ \/ /\ closed
        /\ returned' = [returned EXCEPT ![mine[w]] = "refused"]
        /\ mine' = [mine EXCEPT ![w] = NoId]
        /\ Goto(w, "idle")
        /\ UNCHANGED entry
     \/ /\ ~closed
        /\ entry' = [entry EXCEPT ![mine[w]] = "pending"]
        /\ Goto(w, "registered")
        /\ UNCHANGED <<mine, returned>>
  /\ UNCHANGED <<kind, decision, answer, expired, resolved, replies, runVars>>

(* set_status("awaiting_..."), then the APPROVAL_REQUESTED event.          *)
SetAwaiting(w) ==
  /\ pc[w] = "registered"
  /\ status' = IF kind[mine[w]] = "question" THEN "awaiting_input"
                                            ELSE "awaiting_approval"
  /\ Goto(w, "waiting")
  /\ UNCHANGED <<mine, itemVars, returned, resolved, replies, cancelled, finished,
                 closed>>

Settled(i) == decision[i] # "none" \/ answer[i] # "none"

Fallback(i) == IF kind[i] = "question" THEN "unanswered" ELSE "deny"

(* _finish(): out of _pending, into _decided, with the decision.           *)
SettleAs(i, d) ==
  /\ decision' = [decision EXCEPT ![i] = d]
  /\ entry' = [entry EXCEPT ![i] = "decided"]

(* One turn of _await()'s loop.                                            *)
AwaitSettled(w) ==
  /\ pc[w] = "waiting"
  /\ Settled(mine[w])
  /\ Goto(w, "settled")
  /\ UNCHANGED <<mine, itemVars, returned, resolved, replies, runVars>>

AwaitEnded(w) ==
  /\ pc[w] = "waiting"
  /\ ~Settled(mine[w])
  /\ closed \/ cancelled
  /\ SettleAs(mine[w], Fallback(mine[w]))
  /\ Goto(w, "settled")
  /\ UNCHANGED <<mine, kind, answer, expired, returned, resolved, replies, runVars>>

ExpiresQuestionsOnly(w) ==
  /\ pc[w] = "waiting"
  /\ kind[mine[w]] = "question"
  /\ ~Settled(mine[w])
  /\ ~closed /\ ~cancelled
  /\ expired' = [expired EXCEPT ![mine[w]] = TRUE]
  /\ SettleAs(mine[w], Fallback(mine[w]))
  /\ Goto(w, "settled")
  /\ UNCHANGED <<mine, kind, answer, returned, resolved, replies, runVars>>

AwaitExpiredKeepsPending(w) ==
  /\ pc[w] = "waiting"
  /\ ~Settled(mine[w])
  /\ ~closed /\ ~cancelled
  /\ expired' = [expired EXCEPT ![mine[w]] = TRUE]
  /\ decision' = [decision EXCEPT ![mine[w]] = Fallback(mine[w])]
  /\ Goto(w, "settled")
  /\ UNCHANGED <<mine, entry, kind, answer, returned, resolved, replies, runVars>>

AwaitExpired(w) ==
  /\ pc[w] = "waiting"
  /\ ~Settled(mine[w])
  /\ ~closed /\ ~cancelled
  /\ expired' = [expired EXCEPT ![mine[w]] = TRUE]
  /\ SettleAs(mine[w], Fallback(mine[w]))
  /\ Goto(w, "settled")
  /\ UNCHANGED <<mine, kind, answer, returned, resolved, replies, runVars>>

(* The APPROVAL_RESOLVED event.                                            *)
EmitResolved(w) ==
  /\ pc[w] = "settled"
  /\ resolved' = [resolved EXCEPT ![mine[w]] = decision[mine[w]]]
  /\ Goto(w, "resolved")
  /\ UNCHANGED <<mine, itemVars, returned, replies, runVars>>

SetRunningUnanswered(w) ==
  /\ pc[w] = "resolved"
  /\ status' = IF expired[mine[w]] THEN status ELSE "running"
  /\ returned' = [returned EXCEPT ![mine[w]] = decision[mine[w]]]
  /\ mine' = [mine EXCEPT ![w] = NoId]
  /\ Goto(w, "idle")
  /\ UNCHANGED <<itemVars, resolved, replies, cancelled, finished, closed>>

(* set_status("running"), whatever the status is by now, and return.       *)
SetRunning(w) ==
  /\ pc[w] = "resolved"
  /\ status' = "running"
  /\ returned' = [returned EXCEPT ![mine[w]] =
       IF kind[mine[w]] = "approval" THEN decision[mine[w]]
       ELSE IF answer[mine[w]] = "none" THEN "unanswered" ELSE answer[mine[w]]]
  /\ mine' = [mine EXCEPT ![w] = NoId]
  /\ Goto(w, "idle")
  /\ UNCHANGED <<itemVars, resolved, replies, cancelled, finished, closed>>

----------------------------------------------------------------------------
(* The request-handling threads.                                           *)

Told(i, reply) == replies' = [replies EXCEPT ![i] = @ \cup {reply}]

(* resolve() and answer() of a pending item. Both are refused (409, and no *)
(* state changes) when the item is of the other kind.                      *)
Resolve(i, d) ==
  /\ entry[i] = "pending" /\ kind[i] = "approval"
  /\ SettleAs(i, d)
  /\ Told(i, <<"accepted", d>>)
  /\ UNCHANGED <<pc, mine, kind, answer, expired, returned, resolved, runVars>>

Answer(i, t) ==
  /\ entry[i] = "pending" /\ kind[i] = "question"
  /\ answer' = [answer EXCEPT ![i] = t]
  /\ SettleAs(i, "answered")
  /\ Told(i, <<"accepted", t>>)
  /\ UNCHANGED <<pc, mine, kind, expired, returned, resolved, runVars>>

(* resolve() of a settled item: expired, a conflict, or a repeat of the    *)
(* decision on record.                                                     *)
ResolveAgain(i, d) ==
  /\ entry[i] = "decided"
  /\ Told(i, <<IF expired[i] THEN "expired"
               ELSE IF decision[i] # d THEN "conflict" ELSE "repeat", d>>)
  /\ UNCHANGED <<pc, mine, itemVars, returned, resolved, runVars>>

AnswerAgain(i, t) ==
  /\ entry[i] = "decided"
  /\ Told(i, <<IF expired[i] THEN "expired"
               ELSE IF decision[i] # "answered" \/ answer[i] # t THEN "conflict"
               ELSE "repeat", t>>)
  /\ UNCHANGED <<pc, mine, itemVars, returned, resolved, runVars>>

----------------------------------------------------------------------------
(* The run.                                                                *)

(* cancel(): refused once the record is terminal.                          *)
Cancel ==
  /\ status # "terminal"
  /\ ~cancelled
  /\ cancelled' = TRUE
  /\ UNCHANGED <<pc, mine, itemVars, returned, resolved, replies, status, finished,
                 closed>>

(* The run thread reaches _finish(): it is in no tool call, its abandoned  *)
(* children may be.                                                        *)
Finish ==
  /\ ~finished
  /\ pc[Main] = "idle"
  /\ finished' = TRUE
  /\ status' = "terminal"
  /\ UNCHANGED <<pc, mine, itemVars, returned, resolved, replies, cancelled, closed>>

(* close() in _run()'s finally.                                            *)
Close ==
  /\ finished /\ ~closed
  /\ closed' = TRUE
  /\ UNCHANGED <<pc, mine, itemVars, returned, resolved, replies, status, cancelled,
                 finished>>

----------------------------------------------------------------------------
AskerStep(w) ==
  \/ Register(w) \/ SetAwaiting(w)
  \/ AwaitSettled(w) \/ AwaitEnded(w) \/ AwaitExpired(w)
  \/ EmitResolved(w) \/ SetRunning(w)

ClientStep(i) ==
  \/ \E d \in Verdicts : Resolve(i, d) \/ ResolveAgain(i, d)
  \/ \E t \in Texts : Answer(i, t) \/ AnswerAgain(i, t)

Next ==
  \/ \E w \in Askers : AskerStep(w) \/ \E i \in Ids, k \in Kinds : Ask(w, i, k)
  \/ \E i \in Ids : ClientStep(i)
  \/ Cancel \/ Finish \/ Close

(* A thread inside request() polls every _POLL_SECONDS and its wait is     *)
(* bounded by expires_at; nothing makes anybody ask, answer, cancel or end *)
(* the run.                                                                *)
Spec == Init /\ [][Next]_vars /\ \A w \in Askers : WF_vars(AskerStep(w))

----------------------------------------------------------------------------
Labels    == {"idle", "build", "registered", "waiting", "settled", "resolved"}
Decisions == Verdicts \cup {"none", "answered", "unanswered"}
Replies   == {"accepted", "repeat", "conflict", "expired"} \X (Verdicts \cup Texts)

(* Type invariant of the table, of the threads that use it and of the run. *)
TypeOK ==
  /\ pc \in [Askers -> Labels] /\ mine \in [Askers -> Ids \cup {NoId}]
  /\ kind \in [Ids -> Kinds] /\ entry \in [Ids -> {"none", "pending", "decided"}]
  /\ decision \in [Ids -> Decisions] /\ answer \in [Ids -> Texts \cup {"none"}]
  /\ expired \in [Ids -> BOOLEAN]
  /\ returned \in [Ids -> Decisions \cup Texts \cup {"refused"}]
  /\ resolved \in [Ids -> Decisions] /\ replies \in [Ids -> SUBSET Replies]
  /\ status \in {"running", "awaiting_approval", "awaiting_input", "terminal"}
  /\ cancelled \in BOOLEAN /\ finished \in BOOLEAN /\ closed \in BOOLEAN

Back(i) == returned[i] \notin {"none", "refused"}

(* Client and tool agree, whatever races: an answer reported as accepted   *)
(* or as a repeat is what the tool gets, a tool is allowed to run only by  *)
(* an accepted answer, and one told "expired" was really not listened to.  *)
ClientAndToolAgree ==
  \A i \in Ids : Back(i) =>
    /\ \A v \in Verdicts \cup Texts :
         {<<"accepted", v>>, <<"repeat", v>>} \cap replies[i] # {} => returned[i] = v
    /\ returned[i] \in {"allow"} \cup Texts => <<"accepted", returned[i]>> \in replies[i]
    /\ (\E v \in Verdicts \cup Texts : <<"expired", v>> \in replies[i])
         => returned[i] \in {"deny", "unanswered"} /\ resolved[i] = returned[i]

(* The status says that the run waits for a human only while a thread does *)
(* wait for one, for an answer of that sort, whichever thread set it last. *)
AwaitingMeansAsked ==
  status \in {"awaiting_approval", "awaiting_input"} =>
    \E w \in Askers :
      /\ pc[w] \in {"waiting", "settled", "resolved"}
      /\ (kind[mine[w]] = "question") <=> (status = "awaiting_input")

(* Nobody waits for ever: every thread that asks gets its return value.    *)
EveryAskReturns == \A w \in Askers : (pc[w] # "idle") ~> (pc[w] = "idle")
============================================================================
