----------------------------- MODULE AgentLoop -----------------------------
(***************************************************************************)
(* The rounds of one run (avid/agent/run.py): delivery of steers, assembly *)
(* of the request with its compaction (context.py, compaction.py), the     *)
(* model call and its overflow retry, the tool batch, and every way a run  *)
(* can end (stop.py).                                                      *)
(*                                                                         *)
(* The run thread is one process, the workers of a tool batch, the         *)
(* children of a subagent call, the user who steers and the caller of      *)
(* cancel() are the others. The model, the summarizer and the hook scripts *)
(* answer whatever they like.                                              *)
(***************************************************************************)
EXTENDS ToolBatch, Transcript

CONSTANTS
  RoundBound,   \* model bound: rounds of the run
  SteerBound,   \* model bound: steers the user sends
  Histories,    \* what the session's branch may project to when the run starts
  KeepRecent,   \* ContextBudget.keep_recent_turns
  TriggerLine,  \* effective_trigger(): the size above which a round compacts
  MaxDenials,   \* RunSpec.max_consecutive_denials
  MaxBlocks     \* RunSpec.max_stop_blocks

(* What a message says: all the loop tells apart.                          *)
Texts == {"none", "prompt", "steer", "summary", "nudge", "said", "blank", "notice", "result"}

Messages == [role : {"user", "assistant", "tool"}, text : Texts, calls : Seq(Nat), id : Nat]

ASSUME LoopAssumption ==
  /\ {RoundBound, SteerBound, KeepRecent, TriggerLine, MaxDenials, MaxBlocks} \subseteq Nat
  /\ Histories \subseteq Seq(Messages) /\ \A h \in Histories : Valid(h)

VARIABLES
  pc,         \* where the run thread stands
  messages,   \* the transcript
  recorded,   \* the last message handed to on_message
  round,      \* RunState.round
  steers,     \* steers in the inbox: <<waiting, ever sent>>
  pending,    \* pending_steers: taken at a gate, not yet delivered
  blocks,     \* RunState.stop_blocks
  compacted,  \* RunState.compacted
  retried,    \* RunState.retried
  onward,     \* where the run goes after the compaction under way
  reason      \* RunOutcome.reason, or how the run was broken off

loopVars == <<pc, messages, recorded, round, steers, pending, blocks, compacted, retried,
              onward, reason>>
vars == <<loopVars, batchVars>>

Init ==
  /\ NoBatch
  /\ \E h \in Histories : messages = h
  /\ pc \in {"submit", "compactNow"}
  /\ recorded = UserSays("none") /\ round = 0 /\ steers = <<0, 0>> /\ pending = 0 /\ blocks = 0
  /\ compacted = FALSE /\ retried = FALSE /\ onward = "call"
  /\ reason = "none"

Goto(l) == pc' = l
Says(ms) ==
  /\ messages' = messages \o ms
  /\ recorded' = IF ms = <<>> THEN recorded ELSE Last(ms)
End(why) == Goto("ended") /\ reason' = why

----------------------------------------------------------------------------
(* The user.                                                               *)
Steer ==
  /\ steers[2] < SteerBound /\ pc # "ended"
  /\ steers' = <<steers[1] + 1, steers[2] + 1>>
  /\ UNCHANGED <<pc, messages, recorded, round, pending, blocks, compacted, retried,
                 onward, reason, batchVars>>

Cancel ==
  /\ ~cancelled /\ pc # "ended"
  /\ cancelled' = TRUE
  /\ UNCHANGED <<loopVars, batch, segment, status, answer, ran, streak, childVars>>

----------------------------------------------------------------------------
(* The prompt is the last message; a UserPromptSubmit hook may block it.   *)
Submit ==
  /\ pc = "submit"
  /\ messages' = Append(messages, UserSays("prompt"))
  /\ \/ End("prompt_blocked") /\ UNCHANGED recorded
     \/ Goto("top") /\ recorded' = UserSays("prompt") /\ UNCHANGED reason
  /\ UNCHANGED <<round, steers, pending, blocks, compacted, retried, onward,
                 batchVars>>

(* Checkpoint 1.                                                           *)
TopCancelled ==
  /\ pc = "top" /\ cancelled
  /\ round' = round + 1 /\ End("cancelled")
  /\ UNCHANGED <<messages, recorded, steers, pending, blocks, compacted, retried,
                 onward, batchVars>>

(* The only point at which steers join the transcript.                     *)
Deliver ==
  /\ pc = "top" /\ ~cancelled
  /\ round < RoundBound
  /\ round' = round + 1
  /\ Says([i \in 1..(pending + steers[1]) |-> UserSays("steer")])
  /\ steers' = <<0, steers[2]>> /\ pending' = 0
  /\ Goto("compose")
  /\ UNCHANGED <<blocks, compacted, retried, onward, reason, batchVars>>

----------------------------------------------------------------------------
(* Compaction: run_compaction().                                           *)

(* The automatic pass leads to the call; /compact and a refused prompt     *)
(* force one.                                                              *)
Forced(o) == o # "call"
Cut(o) == CutPoint(messages, KeepWindow(messages, KeepRecent, Forced(o)))

(* The trigger line and the guard of the automatic path; a forced pass     *)
(* skips both.                                                             *)
Wanted(o) == Forced(o) \/ (Size(messages) > TriggerLine /\ ~compacted)

(* One pass that ends in o: nothing is done when it is not wanted or there *)
(* is no earlier history.                                                  *)
Compact(o) ==
  /\ onward' = o
  /\ Goto(IF Wanted(o) /\ Cut(o) > 0 THEN "reuse" ELSE o)

(* compose() before a round's request.                                     *)
Compose ==
  /\ pc = "compose"
  /\ Compact("call")
  /\ UNCHANGED <<messages, recorded, round, steers, pending, blocks, compacted, retried,
                 reason, batchVars>>

(* /compact.                                                               *)
CompactNow ==
  /\ pc = "compactNow"
  /\ Compact("command")
  /\ UNCHANGED <<messages, recorded, round, steers, pending, blocks, compacted, retried,
                 reason, batchVars>>

(* The summarizer gives no text: over the run's own prefix it is asked     *)
(* again with the engine prompt, then the old history stays.               *)
SummaryFails ==
  /\ pc \in {"reuse", "engine"}
  /\ Goto(IF pc = "reuse" THEN "engine" ELSE onward)
  /\ UNCHANGED <<messages, recorded, round, steers, pending, blocks, compacted, retried,
                 onward, reason, batchVars>>

(* A summary replaces everything before the cut.                           *)
Fold ==
  /\ pc \in {"reuse", "engine"}
  /\ messages' = Compacted(messages, Cut(onward))
  /\ compacted' = TRUE
  /\ Goto(onward)
  /\ UNCHANGED <<recorded, round, steers, pending, blocks, retried, onward, reason,
                 batchVars>>

(* /compact ends with one assistant message.                               *)
Command ==
  /\ pc = "command"
  /\ Says(<<AssistantSays("said")>>)
  /\ End("command")
  /\ UNCHANGED <<round, steers, pending, blocks, compacted, retried, onward,
                 batchVars>>

----------------------------------------------------------------------------
(* The model call: ContextManager.call().                                  *)

(* The provider refuses the prompt as too long: a forced compaction, once  *)
(* per run.                                                                *)
TooLong ==
  /\ pc \in {"call", "resend"}
  /\ IF retried
     THEN End("failed") /\ UNCHANGED <<retried, onward>>
     ELSE retried' = TRUE /\ Compact("resend") /\ UNCHANGED reason
  /\ UNCHANGED <<messages, recorded, round, steers, pending, blocks, compacted, batchVars>>

(* Any other provider error ends the run.                                  *)
CallFails ==
  /\ pc \in {"call", "resend"}
  /\ End("failed")
  /\ UNCHANGED <<messages, recorded, round, steers, pending, blocks, compacted, retried,
                 onward, batchVars>>

(* A turn without tool calls, with visible text or without.                *)
Reply(t) ==
  /\ pc \in {"call", "resend"}
  /\ Says(<<AssistantSays(t)>>)
  /\ Goto("gate")
  /\ UNCHANGED <<round, steers, pending, blocks, compacted, retried, onward, reason,
                 batchVars>>

(* A turn that calls tools.                                                *)
ReplyCalls(b) ==
  /\ pc \in {"call", "resend"}
  /\ Says(<<Message("assistant", "blank", [i \in 1..Len(b) |-> i], 0)>>)
  /\ StartBatch(b)
  /\ Goto("batch")
  /\ UNCHANGED <<round, steers, pending, blocks, compacted, retried, onward, reason,
                 streak, childVars, cancelled>>

----------------------------------------------------------------------------
(* The tool batch.                                                         *)

(* Checkpoint 2.                                                           *)
BatchCancelled ==
  /\ pc = "batch" /\ cancelled
  /\ End("cancelled")
  /\ UNCHANGED <<messages, recorded, round, steers, pending, blocks, compacted, retried,
                 onward, batchVars>>

Dispatch ==
  /\ pc = "batch" /\ ~cancelled
  /\ Goto("tools")
  /\ UNCHANGED <<messages, recorded, round, steers, pending, blocks, compacted, retried,
                 onward, reason, batchVars>>

Execute ==
  /\ pc = "tools"
  /\ BatchStep
  /\ UNCHANGED loopVars

RunChild == (\E k \in 1..MaxChildren : ChildEnds(k)) /\ UNCHANGED loopVars

(* The outcomes of a batch, in source order.                               *)
Outcomes == [i \in 1..Len(batch) |-> Answer(i, "result")]

(* All results join the transcript; then the streak of denials is looked   *)
(* at, and a steer may still redirect the run. Nobody holds the futures of *)
(* children left behind any more.                                          *)
Results ==
  /\ pc = "tools" /\ BatchDone
  /\ Says(Outcomes)
  /\ Goto(IF streak >= MaxDenials THEN "denied" ELSE "top")
  /\ batch' = <<>> /\ segment' = 0 /\ status' = <<>> /\ answer' = <<>>
  /\ ran' = {} /\ children' = <<>> /\ reports' = <<>>
  /\ UNCHANGED <<round, steers, pending, blocks, compacted, retried, onward,
                 reason, streak, cancelled>>

(* The gates "model is done" and "too many denials": a steer goes first.   *)
GateSteers ==
  /\ pc \in {"gate", "denied"} /\ steers[1] > 0
  /\ pending' = steers[1] /\ steers' = <<0, steers[2]>>
  /\ Goto("top")
  /\ UNCHANGED <<messages, recorded, round, blocks, compacted, retried, onward,
                 reason, batchVars>>

DenialHalt ==
  /\ pc = "denied" /\ steers[1] = 0
  /\ Says(<<AssistantSays("notice")>>)
  /\ End("denial_halted")
  /\ UNCHANGED <<round, steers, pending, blocks, compacted, retried, onward,
                 batchVars>>

----------------------------------------------------------------------------
(* decide(): the end of a round without calls. The Stop hooks allow the    *)
(* end, block it with a reason (the nudge) or block it silently; a script  *)
(* that fails in any way blocks.                                           *)

StopHooks == {"allow", "reason", "silent"}
Blank == Last(messages).text = "blank"

Nudged(h) == IF h = "silent" THEN <<>> ELSE <<UserSays("nudge")>>

(* One more round, within the budget of blocks.                            *)
GoesOn(h) == (h # "allow" \/ Blank) /\ blocks < MaxBlocks

NoticeIfAllowed(h) == Blank /\ h = "allow"

(* The notice that stands in for a blank answer.                           *)
NeedsNotice(h) == Blank

Decide(h) ==
  /\ pc = "gate" /\ steers[1] = 0
  /\ IF GoesOn(h)
     THEN /\ blocks' = blocks + 1
          /\ Says(Nudged(h))
          /\ Goto("top") /\ UNCHANGED reason
     ELSE /\ UNCHANGED blocks
          /\ IF NeedsNotice(h)
             THEN Says(<<AssistantSays("notice")>>) /\ End("blank_notice")
             ELSE /\ UNCHANGED <<messages, recorded>>
                  /\ End(IF h = "allow" THEN "final_text" ELSE "hook_budget_exit")
  /\ UNCHANGED <<round, steers, pending, compacted, retried, onward,
                 batchVars>>

----------------------------------------------------------------------------
Loop ==
  \/ Submit \/ TopCancelled \/ Deliver \/ Compose \/ CompactNow \/ SummaryFails \/ Fold
  \/ Command \/ TooLong \/ CallFails \/ \E t \in {"said", "blank"} : Reply(t)
  \/ \E b \in Batches : ReplyCalls(b)
  \/ BatchCancelled \/ Dispatch \/ Results \/ GateSteers \/ DenialHalt
  \/ \E h \in StopHooks : Decide(h)

Next == Loop \/ Execute \/ RunChild \/ Steer \/ Cancel

(* The run thread and the workers keep being scheduled; nothing obliges    *)
(* the user to do anything or a child agent to end.                        *)
Spec == Init /\ [][Next]_vars /\ WF_vars(Loop) /\ WF_vars(Execute)

----------------------------------------------------------------------------
Labels == {"submit", "top", "compose", "compactNow", "call", "resend", "command", "gate",
           "reuse", "engine", "batch", "tools", "denied", "ended"}

Reasons == {"none", "prompt_blocked", "cancelled", "failed", "command", "final_text",
            "blank_notice", "hook_budget_exit", "denial_halted"}

TypeOK ==
  /\ BatchTypeOK
  /\ pc \in Labels /\ reason \in Reasons
  /\ {round, pending, steers[1], steers[2]} \subseteq Nat
  /\ blocks \in 0..MaxBlocks
  /\ {compacted, retried} \subseteq BOOLEAN

(* Every request the run sends is one a provider accepts: each tool call   *)
(* in it is answered once, directly after the message that made it, also   *)
(* in the prefix a summarizer gets (transcript.py validate(); compaction:  *)
(* "the cut never lands inside a tool batch").                             *)
RequestsValid ==
  /\ pc \in {"call", "resend", "reuse", "engine"} => Valid(messages)
  /\ pc \in {"reuse", "engine"} => Valid(Earlier(messages, Cut(onward)))

(* A run that ends by itself leaves something to read: its last message is *)
(* an assistant's, with visible text, and it was recorded (stop.py: "a     *)
(* blank answer always ends in a visible notice, never a silent empty      *)
(* string").                                                               *)
EndsVisibly ==
  reason \in {"command", "final_text", "blank_notice", "hook_budget_exit", "denial_halted"} =>
    /\ Last(messages).role = "assistant" /\ Last(messages).text # "blank"
    /\ recorded = Last(messages)

(* A cancelled run ends: at the next checkpoint, once the model call, the  *)
(* compaction or the tool calls under way have returned.                   *)
CancelConverges == cancelled ~> pc = "ended"
============================================================================
