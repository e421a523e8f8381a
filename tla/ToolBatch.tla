----------------------------- MODULE ToolBatch -----------------------------
(***************************************************************************)
(* One batch of tool calls (avid/agent/execution.py): the segments it is   *)
(* split into, the pool that runs a segment of concurrency-safe calls, the *)
(* gates a call passes, the streak of denials and the children of the      *)
(* subagent tool (avid/agent/tools/subagent.py).                           *)
(*                                                                         *)
(* A call is its kind: "safe" and "exclusive" calls, the same two with     *)
(* arguments that fail to parse or to validate ("safeMalformed",           *)
(* "malformed": a tool declared safe overlaps whatever its arguments) and  *)
(* "subagent" ones. The children of a subagent call work in threads of     *)
(* their own and may outlive the call that waits for them.                 *)
(***************************************************************************)
EXTENDS Integers, Sequences, FiniteSets, SequencesExt, FiniteSetsExt

CONSTANTS
  BatchBound,    \* model bound: calls in one batch
  ParallelLimit, \* RunSpec.parallel_limit
  MaxChildren    \* MAX_PARALLEL: tasks of one subagent call

ASSUME BatchAssumption ==
  BatchBound \in Nat \ {0} /\ ParallelLimit \in Nat /\ MaxChildren \in Nat

VARIABLES
  batch,     \* the kinds of the calls of this batch, in source order
  segment,   \* the segment being executed; 0 when no batch is
  status,    \* where each call stands
  answer,    \* the content each call is answered with
  ran,       \* calls whose tool was really entered
  streak,    \* RunState.denial_streak
  children,  \* the futures of the latest subagent call: working or done
  reports,   \* what it says of them, as far as they are collected
  cancelled  \* RunState.cancelled

childVars == <<children, reports>>
batchVars == <<batch, segment, status, answer, ran, streak, childVars, cancelled>>

Safe      == {"safe", "safeMalformed"}
Malformed == {"malformed", "safeMalformed"}
Kinds     == {"safe", "exclusive", "subagent"} \cup Malformed
Batches   == UNION {[1..n -> Kinds] : n \in 1..BatchBound}

NoBatch ==
  /\ batch = <<>> /\ segment = 0 /\ status = <<>> /\ answer = <<>>
  /\ ran = {} /\ streak = 0
  /\ children = <<>> /\ reports = <<>> /\ cancelled = FALSE

----------------------------------------------------------------------------
(* plan_segments(): neighbouring safe calls share a segment.               *)

OverlapAll(b, i) == ParallelLimit > 1

MayOverlap(b, i) == ParallelLimit > 1 /\ b[i] \in Safe

(* The number of the segment of call i.                                    *)
SegmentOf(b, i) ==
  1 + Cardinality({j \in 2..i : ~(MayOverlap(b, j) /\ MayOverlap(b, j - 1))})

Members(s) == {i \in 1..Len(batch) : SegmentOf(batch, i) = s}
LastSegment == SegmentOf(batch, Len(batch))
Width(s) == IF Cardinality(Members(s)) < ParallelLimit
            THEN Cardinality(Members(s)) ELSE Max({1, ParallelLimit})

Active == {i \in 1..Len(batch) : status[i] \in {"gating", "running"}}

----------------------------------------------------------------------------
(* execute_batch(), called with the calls of one turn.                     *)
StartBatch(b) ==
  /\ batch' = b /\ segment' = 1
  /\ status' = [i \in 1..Len(b) |-> "todo"]
  /\ answer' = [i \in 1..Len(b) |-> "none"]
  /\ ran' = {}

(* The next segment: cancelled, nothing of it is dispatched and all its    *)
(* calls are answered; otherwise its calls are handed to the pool.         *)
OpenSegment ==
  /\ segment \in 1..LastSegment
  /\ \A i \in Members(segment) : status[i] = "todo"
  /\ LET to(l) == [i \in 1..Len(batch) |->
                     IF i \in Members(segment) THEN l ELSE status[i]]
     IN IF cancelled
        THEN /\ status' = to("answered")
             /\ answer' = [i \in 1..Len(batch) |->
                             IF i \in Members(segment) THEN "cancelled" ELSE answer[i]]
        ELSE /\ status' = to("queued")
             /\ UNCHANGED answer
  /\ UNCHANGED <<batch, segment, ran, streak, childVars, cancelled>>

Answered(i, a) ==
  /\ status' = [status EXCEPT ![i] = "answered"]
  /\ answer' = [answer EXCEPT ![i] = a]

(* A worker takes the first queued call and runs it: a cancellation that   *)
(* came while it was queued answers it, a malformed call is answered       *)
(* without being counted, any other one goes on to the gates.              *)
Start(i) ==
  /\ i \in 1..Len(batch) /\ status[i] = "queued"
  /\ \A j \in 1..(i - 1) : status[j] # "queued"
  /\ Cardinality(Active) < Width(segment)
  /\ IF cancelled THEN Answered(i, "cancelled")
     ELSE IF batch[i] \in Malformed THEN Answered(i, "malformed")
     ELSE status' = [status EXCEPT ![i] = "gating"] /\ UNCHANGED answer
  /\ UNCHANGED <<batch, segment, ran, streak, childVars, cancelled>>

(* A PreToolUse hook blocks, or the permission gate refuses.               *)
Deny(i) ==
  /\ i \in 1..Len(batch) /\ status[i] = "gating"
  /\ streak' = streak + 1
  /\ Answered(i, "denied")
  /\ UNCHANGED <<batch, segment, ran, childVars, cancelled>>

(* A hook or the permission gate raises: run() answers in the words of a   *)
(* failed tool, although the tool was never entered.                       *)
GateRaises(i) ==
  /\ i \in 1..Len(batch) /\ status[i] = "gating"
  /\ Answered(i, "failed")
  /\ UNCHANGED <<batch, segment, ran, streak, childVars, cancelled>>

(* Both gates pass and the tool is entered; the subagent tool hands each   *)
(* of its tasks to a child, or refuses the list of tasks and starts none.  *)
Allow(i) ==
  /\ i \in 1..Len(batch) /\ status[i] = "gating"
  /\ streak' = 0
  /\ status' = [status EXCEPT ![i] = "running"]
  /\ ran' = ran \cup {i}
  /\ IF batch[i] = "subagent"
     THEN /\ \E n \in 0..MaxChildren : children' = [k \in 1..n |-> "working"]
          /\ reports' = <<>>
     ELSE UNCHANGED childVars
  /\ UNCHANGED <<batch, segment, answer, cancelled>>

Waits(i) == batch[i] = "subagent" /\ children # <<>>

ReturnCancelled(i) ==
  /\ i \in 1..Len(batch) /\ status[i] = "running" /\ ~Waits(i)
  /\ Answered(i, IF cancelled THEN "cancelled" ELSE "result")
  /\ UNCHANGED <<batch, segment, ran, streak, childVars, cancelled>>

(* The tool returns, and PostToolUse may replace its text: a result. Or it *)
(* raises, or what follows it does: a failure.                             *)
Return(i) ==
  /\ i \in 1..Len(batch) /\ status[i] = "running" /\ ~Waits(i)
  /\ \E a \in {"result", "failed"} : Answered(i, a)
  /\ UNCHANGED <<batch, segment, ran, streak, childVars, cancelled>>

CollectWaits(i) ==
  /\ i \in 1..Len(batch) /\ status[i] = "running" /\ Waits(i)
  /\ Len(reports) < Len(children)
  /\ children[Len(reports) + 1] = "done"
  /\ reports' = Append(reports, "ended")
  /\ UNCHANGED <<batch, segment, status, answer, ran, streak, children, cancelled>>

(* _collect(), child after child: it has ended, well or badly, or the wait *)
(* for it ends first (the common deadline, or a cancellation).             *)
Collect(i) ==
  /\ i \in 1..Len(batch) /\ status[i] = "running" /\ Waits(i)
  /\ Len(reports) < Len(children)
  /\ \/ /\ children[Len(reports) + 1] = "done"
        /\ reports' = Append(reports, "ended")
     \/ /\ children[Len(reports) + 1] # "done" \/ cancelled
        /\ reports' = Append(reports, "left")
  /\ UNCHANGED <<batch, segment, status, answer, ran, streak, children, cancelled>>

(* All are accounted for: the call is answered, and the executor is let go *)
(* without waiting for the ones left behind.                               *)
Report(i) ==
  /\ i \in 1..Len(batch) /\ status[i] = "running" /\ Waits(i)
  /\ Len(reports) = Len(children)
  /\ Answered(i, "result")
  /\ UNCHANGED <<batch, segment, ran, streak, childVars, cancelled>>

(* A child ends, in time or late.                                          *)
ChildEnds(k) ==
  /\ k \in 1..Len(children) /\ children[k] = "working"
  /\ children' = [children EXCEPT ![k] = "done"]
  /\ UNCHANGED <<batch, segment, status, answer, ran, streak, reports, cancelled>>

(* The whole segment is answered: its results are stored in source order.  *)
CloseSegment ==
  /\ segment \in 1..LastSegment
  /\ \A i \in Members(segment) : status[i] = "answered"
  /\ segment' = segment + 1
  /\ UNCHANGED <<batch, status, answer, ran, streak, childVars, cancelled>>

BatchStep ==
  /\ batch # <<>>
  /\ \/ OpenSegment \/ CloseSegment
     \/ \E i \in 1..BatchBound :
          Start(i) \/ Deny(i) \/ GateRaises(i) \/ Allow(i) \/ Return(i) \/ Collect(i)
          \/ Report(i)

BatchDone == batch # <<>> /\ segment = LastSegment + 1

----------------------------------------------------------------------------
Statuses == {"todo", "queued", "gating", "running", "answered"}
Contents == {"none", "cancelled", "malformed", "denied", "failed", "result"}

BatchTypeOK ==
  /\ batch \in Batches \cup {<<>>}
  /\ segment \in 0..(BatchBound + 1)
  /\ status \in [1..Len(batch) -> Statuses]
  /\ answer \in [1..Len(batch) -> Contents]
  /\ ran \subseteq 1..Len(batch)
  /\ streak \in Nat /\ cancelled \in BOOLEAN
  /\ children \in Seq({"working", "done"}) /\ reports \in Seq({"ended", "left"})

(* A call that is not concurrency-safe runs alone: no other call of the    *)
(* batch is at its gates or running meanwhile, every earlier one has been  *)
(* answered and no later one has been entered (plan_segments: "a write     *)
(* splits the batch, which keeps earlier reads ahead of it").              *)
ExclusiveAlone ==
  \A i \in 1..Len(batch) :
    (status[i] = "running" /\ batch[i] \notin Safe) =>
      /\ Active = {i}
      /\ \A j \in 1..(i - 1) : status[j] = "answered"
      /\ \A j \in (i + 1)..Len(batch) : j \notin ran

(* What a batch tells the model is what happened: a finished one has an    *)
(* answer for every call, a call that is said not to have been executed    *)
(* (CANCELLED_CONTENT, a denial, bad arguments) never entered its tool and *)
(* one that is given a result did, and a child agent that is given one had *)
(* ended when it was collected. Of a call that is said to have failed      *)
(* nothing follows: an exception in its gates is put in the same words.    *)
AnswersAreTrue ==
  /\ BatchDone => \A i \in 1..Len(batch) : answer[i] # "none"
  /\ \A i \in 1..Len(batch) :
       /\ answer[i] \in {"cancelled", "malformed", "denied"} => i \notin ran
       /\ answer[i] = "result" => i \in ran
  /\ \A k \in 1..Len(reports) : reports[k] = "ended" => children[k] = "done"
============================================================================
