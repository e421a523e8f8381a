---------------------------- MODULE SessionTree ----------------------------
(***************************************************************************)
(* One session as its runs see it: the tree of entries with its branch     *)
(* tips (avid/session/session.py, state.py), what a run records in it      *)
(* (recorder.py), what the next run reads back (projection.py), the write- *)
(* ahead snapshots of the file tools (avid/agent/checkpoints.py) and the   *)
(* /rewind and /compact commands (avid/services/runs.py).                  *)
(*                                                                         *)
(* One run at a time writes (RunLifecycle); it may be broken off anywhere, *)
(* by a crash, an error or a cancellation. An entry's number is its id and *)
(* stands for its seq. File contents are numbers, 0 for a missing file.    *)
(***************************************************************************)
EXTENDS Transcript

CONSTANTS
  Branches,    \* names of branches, the default one included
  Main,        \* the default branch
  Files,       \* the files the tools write
  KeepRecent,  \* ContextBudget.keep_recent_turns
  CallBound,   \* model bound: calls of one turn
  EntryBound,  \* model bound: entries of the session
  WriteBound,  \* model bound: contents ever written
  ForkBound,   \* model bound: entries up to which branches are created
  PassBound    \* model bound: compactions, plans and failures ever recorded

ASSUME TreeAssumption ==
  /\ Main \in Branches /\ {KeepRecent, EntryBound, WriteBound, ForkBound, PassBound} \subseteq Nat
  /\ CallBound \in 1..2

VARIABLES
  entries,   \* the committed entries, by seq
  tip,       \* avid.branch.tip: an entry, 0 for None, -1 without a value
  cursor,    \* avid.compaction of each branch
  plan,      \* avid.plan: the tip it was written at, -1 without a value
  pc,        \* what the run thread does; "idle" without a run
  branch,    \* the branch of the run
  live,      \* the transcript of the run
  drifted,   \* a pass of this run kept answers that are on no disk
  files,     \* the work tree
  written,   \* contents written so far
  passes,    \* compactions, plans and failures recorded so far
  snaps,     \* the snapshots on disk
  armed,     \* a file that has been saved and is about to be written
  anchor,    \* the entry /rewind goes back to
  left,      \* files /rewind has still to restore
  failed,    \* files it could not restore
  torn,      \* branches with a /rewind broken off between its steps
  at         \* for each input of the user, the work tree when it was recorded

treeVars  == <<entries, tip, cursor, plan>>
runVars   == <<pc, branch, live, drifted>>
diskVars  == <<files, written, snaps, armed>>
rewindVars == <<anchor, left, failed, torn>>
vars == <<treeVars, runVars, diskVars, rewindVars, passes, at>>

None == [through |-> 0, keep |-> 0, summary |-> 0]

(* A behaviour of the model spends its writes or its passes, not both.     *)
Init ==
  /\ \/ written = 0 /\ passes = PassBound
     \/ written = WriteBound /\ passes = 0
  /\ entries = <<>> /\ at = <<>>
  /\ tip = [b \in Branches |-> -1] /\ plan = tip
  /\ cursor = [b \in Branches |-> None]
  /\ pc = "idle" /\ branch = Main /\ live = <<>> /\ drifted = FALSE
  /\ files = [f \in Files |-> 0] /\ snaps = {} /\ armed = {}
  /\ anchor = 0 /\ left = {} /\ failed = {} /\ torn = {}

----------------------------------------------------------------------------
(* Reading a branch back.                                                  *)

(* scan_branch(): from an entry back along the parents, oldest first.      *)
Chain[n \in 0..Len(entries)] ==
  IF n = 0 THEN <<>> ELSE Append(Chain[entries[n].parent], n)

ChainOf(b) == IF tip[b] <= 0 THEN <<>> ELSE Chain[tip[b]]

(* The messages of a chain; the record of a failure is none.               *)
Messages(ids) ==
  LET said == SelectSeq(ids, LAMBDA n : entries[n].type # "error")
  IN [i \in 1..Len(said) |-> entries[said[i]].message]

(* repair_incomplete_batches(): an answer to no open call is dropped, and  *)
(* a call that stayed open is answered in its place, in source order.      *)
Orphan(ms, n) == ms[n].role = "tool" /\ ms[n].id \notin Expected(ms, n - 1)
CutOff(ms, n) ==
  IF n < Len(ms) /\ ms[n + 1].role = "tool" THEN <<>>
  ELSE LET o == Owner(ms, n)
       IN IF o = 0 THEN <<>>
          ELSE LET open == SelectSeq(ms[o].calls, LAMBDA c : c \in Expected(ms, n))
               IN [i \in 1..Len(open) |-> Answer(open[i], 0)]

Repaired(ms) ==
  FlattenSeq([n \in 1..Len(ms) |->
                (IF Orphan(ms, n) THEN <<>> ELSE <<ms[n]>>) \o CutOff(ms, n)])

LastOf(s, n) == SubSeq(s, Max({1, Len(s) - n + 1}), Len(s))

CoveredShort(ids, through) == SelectSeq(ids, LAMBDA n : n < through)

Covered(ids, through) == SelectSeq(ids, LAMBDA n : n <= through)

(* messages_for_branch(): the part a cursor covers is its summary and the  *)
(* last messages the pass kept.                                            *)
Projection(b) ==
  LET ids == ChainOf(b)
      c   == cursor[b]
      cov == Covered(ids, c.through)
  IN IF c = None \/ cov = <<>> THEN Repaired(Messages(ids))
     ELSE Repaired(<<UserSays(c.summary)>> \o LastOf(Messages(cov), c.keep)
                     \o Messages(SubSeq(ids, Len(cov) + 1, Len(ids))))

----------------------------------------------------------------------------
(* Writing.                                                                *)
NewId == Len(entries) + 1

(* No anchor of a rewind: its work tree is of no interest.                 *)
Unwatched == [f \in Files |-> [was |-> 0, first |-> "unsaved"]]

(* append_message(): the entry and the tip in one commit.                  *)
Record(b, m, type) ==
  /\ Len(entries) < EntryBound
  /\ entries' = Append(entries, [parent |-> Max({tip[b], 0}), type |-> type, message |-> m])
  /\ tip' = [tip EXCEPT ![b] = NewId]
  /\ at' = Append(at, IF m.role = "user" /\ type = "message"
                       THEN [f \in Files |-> [was |-> files[f], first |-> "same"]]
                       ELSE Unwatched)

(* The run adds a message to its transcript and hands it to the recorder.  *)
Say(m, type) == Record(branch, m, type) /\ live' = Append(live, m)

(* The run is over: what it held in memory is gone.                        *)
Over == pc' = "idle" /\ live' = <<>> /\ branch' = Main /\ drifted' = FALSE

(* A branch to run on. One without a tip value is created first, at no     *)
(* entry, by ensure_branch(): CreateBranch below.                          *)
Known(b) == b = Main \/ tip[b] # -1

(* The work tree changes; ghost: what came first after each entry.         *)
Put(f, c, how) ==
  /\ files' = [files EXCEPT ![f] = c]
  /\ at' = IF c = files[f] THEN at
           ELSE [n \in 1..Len(at) |->
                   IF at[n][f].first = "same" THEN [at[n] EXCEPT ![f].first = how] ELSE at[n]]

----------------------------------------------------------------------------
(* A run of the model on branch b: its history and the prompt.             *)
StartRun(b) ==
  /\ pc = "idle" /\ Known(b)
  /\ Record(b, UserSays(NewId), "message")
  /\ live' = Append(Projection(b), UserSays(NewId))
  /\ branch' = b /\ drifted' = FALSE /\ pc' = "compose"
  /\ UNCHANGED <<passes, cursor, plan, diskVars, rewindVars>>

(* /compact and a command that is not known: no prompt is recorded. The    *)
(* bound leaves room for the message it ends with.                         *)
StartCommand(b) ==
  /\ pc = "idle" /\ Known(b) /\ Len(entries) < EntryBound
  /\ live' = Projection(b)
  /\ branch' = b /\ drifted' = FALSE /\ pc' = "command"
  /\ UNCHANGED <<passes, treeVars, diskVars, rewindVars, at>>

(* run_compaction() with record_compaction(): forced by a command or a     *)
(* refused prompt, otherwise by the size of the transcript.                *)
Compact(force) ==
  /\ pc \in {"compose"} \cup (IF force THEN {"command"} ELSE {})
  /\ tip[branch] > 0 /\ passes < PassBound /\ passes' = passes + 1
  /\ LET cut  == CutPoint(live, KeepWindow(live, KeepRecent, force))
         tail == Kept(live, cut)
     IN /\ cut > 0
        /\ live' = <<UserSays(-Len(entries))>> \o tail
        /\ cursor' = [cursor EXCEPT ![branch] =
             [through |-> tip[branch], keep |-> Len(tail), summary |-> -Len(entries)]]
        /\ drifted' = (drifted \/ \E i \in 1..Len(tail) : tail[i].role = "tool" /\ tail[i].text = 0)
  /\ UNCHANGED <<entries, tip, plan, pc, branch, diskVars, rewindVars, at>>

(* The one assistant message a command ends with.                          *)
Command ==
  /\ pc = "command"
  /\ Record(branch, AssistantSays(NewId), "message")
  /\ Over
  /\ UNCHANGED <<passes, cursor, plan, diskVars, rewindVars>>

Reply ==
  /\ pc = "compose"
  /\ Say(AssistantSays(NewId), "message")
  /\ pc' = "gate"
  /\ UNCHANGED <<passes, cursor, plan, branch, drifted, diskVars, rewindVars>>

(* A turn with k calls.                                                    *)
ReplyCalls(k) ==
  /\ pc = "compose"
  /\ Say(Message("assistant", NewId, [i \in 1..k |-> 2 * NewId + i - 1], 0), "message")
  /\ pc' = "tools"
  /\ UNCHANGED <<passes, cursor, plan, branch, drifted, diskVars, rewindVars>>

(* What a round without calls leads to: the end, a nudge (stored as a      *)
(* notice) or a steer (a message of the user).                             *)
Finish ==
  /\ pc = "gate" /\ Over
  /\ UNCHANGED <<passes, treeVars, diskVars, rewindVars, at>>

GoOn(type) ==
  /\ pc = "gate"
  /\ Say(UserSays(NewId), type)
  /\ pc' = "compose"
  /\ UNCHANGED <<passes, cursor, plan, branch, drifted, diskVars, rewindVars>>

----------------------------------------------------------------------------
(* The tools of a batch; their answers are recorded when all have run.     *)

(* snapshot(): the first state of a file at this tip wins.                 *)
Snapshot(f) ==
  /\ pc = "tools" /\ armed = {} /\ written < WriteBound
  /\ armed' = {f}
  /\ snaps' = IF \E x \in snaps : x.seq = tip[branch] /\ x.file = f THEN snaps
              ELSE snaps \cup {[seq |-> tip[branch], file |-> f, was |-> files[f]]}
  /\ UNCHANGED <<passes, treeVars, runVars, files, written, rewindVars, at>>

WriteFile(f) ==
  /\ pc = "tools" /\ f \in armed
  /\ Put(f, written + 1, "saved")
  /\ written' = written + 1 /\ armed' = {}
  /\ UNCHANGED <<passes, treeVars, runVars, snaps, rewindVars>>

(* A shell command writes a file.                                          *)
ShellWrite(f) ==
  /\ pc = "tools" /\ written < WriteBound /\ armed = {}
  /\ Put(f, written + 1, "unsaved")
  /\ written' = written + 1
  /\ UNCHANGED <<passes, treeVars, runVars, snaps, armed, rewindVars>>

(* todo_write: the plan is stored whole; a finished one is deleted. What   *)
(* stores the same again is no step.                                       *)
RecordPlan(open) ==
  /\ pc = "tools" /\ passes < PassBound /\ passes' = passes + 1
  /\ plan' = [plan EXCEPT ![branch] = IF open THEN tip[branch] ELSE -1]
  /\ plan' # plan
  /\ UNCHANGED <<entries, tip, cursor, runVars, diskVars, rewindVars, at>>

(* The next answer of the batch; the last one closes it.                   *)
RecordResult ==
  /\ pc \in {"tools", "results"} /\ armed = {}
  /\ LET open == Expected(live, Len(live))
     IN /\ Say(Answer(Min(open), NewId), "message")
        /\ pc' = IF Cardinality(open) = 1 THEN "compose" ELSE "results"
  /\ UNCHANGED <<passes, cursor, plan, branch, drifted, diskVars, rewindVars>>

(* The tip has moved and what hangs on the chain has not.                  *)
HalfWay == pc \in {"dropCursor", "dropPlan"}

(* Whatever the run was doing is left where it is.                         *)
Drop ==
  /\ pc # "idle" /\ Over
  /\ armed' = {} /\ anchor' = 0 /\ left' = {} /\ failed' = {}
  /\ torn' = torn \cup (IF HalfWay THEN {branch} ELSE {})
  /\ UNCHANGED <<cursor, plan, files, written, snaps>>

(* The process dies, or the run is cancelled, or it fails and cannot even  *)
(* record that.                                                            *)
BreakOff == Drop /\ UNCHANGED <<passes, entries, tip, at>>

(* The run fails: an error entry at the tip, unless the branch is gone.    *)
Fail ==
  /\ Drop
  /\ passes < PassBound /\ passes' = passes + 1
  /\ branch = Main \/ tip[branch] # -1
  /\ Record(branch, AssistantSays(NewId), "error")

----------------------------------------------------------------------------
(* /rewind.                                                                *)

Anchors(b) ==
  {n \in ToSet(ChainOf(b)) : entries[n].type = "message" /\ entries[n].message.role = "user"}

(* rewind_target() and the move of the tip.                                *)
Rewind(b) ==
  /\ pc = "idle" /\ Known(b) /\ branch' = b
  /\ IF Anchors(b) = {}
     THEN /\ pc' = "report" /\ UNCHANGED <<anchor, tip>>
     ELSE /\ anchor' = Max(Anchors(b)) /\ pc' = "dropCursor"
          /\ tip' = [tip EXCEPT ![b] =
               IF entries[Max(Anchors(b))].parent = 0 THEN -1
               ELSE entries[Max(Anchors(b))].parent]
  /\ live' = <<>> /\ drifted' = FALSE
  /\ UNCHANGED <<passes, entries, cursor, plan, diskVars, left, failed, torn, at>>

CursorStays(b) == UNCHANGED cursor

CursorGoes(b) == cursor' = [cursor EXCEPT ![b] = None]

RewindCursor ==
  /\ pc = "dropCursor" /\ pc' = "dropPlan"
  /\ CursorGoes(branch)
  /\ UNCHANGED <<passes, entries, tip, plan, branch, live, drifted, diskVars, rewindVars, at>>

(* The plan goes, and restore() collects what was saved after the anchor.  *)
After(n) == {x \in snaps : x.seq > n}

RewindPlan ==
  /\ pc = "dropPlan" /\ pc' = "restore"
  /\ plan' = [plan EXCEPT ![branch] = -1]
  /\ left' = {x.file : x \in After(anchor)}
  /\ UNCHANGED <<passes, entries, tip, cursor, branch, live, drifted, diskVars, anchor, failed, torn, at>>

Newest(f, n) == CHOOSE x \in After(n) : x.file = f /\ \A y \in After(n) : y.file = f => y.seq <= x.seq

Earliest(f, n) == CHOOSE x \in After(n) : x.file = f /\ \A y \in After(n) : y.file = f => y.seq >= x.seq

Restore(f) ==
  /\ pc = "restore" /\ f \in left
  /\ left' = left \ {f}
  /\ Put(f, Earliest(f, anchor).was, "unsaved")
  /\ UNCHANGED <<passes, treeVars, runVars, written, snaps, armed, anchor, failed, torn>>

(* A path that cannot be written is reported and the others go on.         *)
RestoreFails(f) ==
  /\ pc = "restore" /\ f \in left
  /\ left' = left \ {f} /\ failed' = failed \cup {f}
  /\ UNCHANGED <<passes, treeVars, runVars, diskVars, anchor, torn, at>>

RestoreDone ==
  /\ pc = "restore" /\ left = {} /\ pc' = "report"
  /\ UNCHANGED <<passes, treeVars, branch, live, drifted, diskVars, rewindVars, at>>

(* The report is recorded at the new tip; a branch that lost its tip value *)
(* is not known any more, which fails the run.                             *)
Report ==
  /\ pc = "report" /\ Over
  /\ IF branch # Main /\ tip[branch] = -1
     THEN UNCHANGED <<entries, tip, at>>
     ELSE Record(branch, AssistantSays(NewId), "message")
  /\ anchor' = 0 /\ failed' = {}
  /\ UNCHANGED <<passes, cursor, plan, diskVars, left, torn>>

(* create_branch(), of the service or of a recorder that finds no branch:  *)
(* refused for a known name.                                               *)
CreateBranch(b, n) ==
  /\ pc = "idle" /\ b # Main /\ tip[b] = -1 /\ Len(entries) <= ForkBound
  /\ tip' = [tip EXCEPT ![b] = n]
  /\ UNCHANGED <<passes, entries, cursor, plan, runVars, diskVars, rewindVars, at>>

----------------------------------------------------------------------------
Next ==
  \/ \E b \in Branches : StartRun(b) \/ StartCommand(b) \/ Rewind(b)
  \/ \E b \in Branches, n \in 0..Len(entries) : CreateBranch(b, n)
  \/ \E force \in BOOLEAN : Compact(force) \/ RecordPlan(force)
  \/ Command \/ Reply \/ \E k \in 1..CallBound : ReplyCalls(k)
  \/ Finish \/ \E type \in {"message", "notice"} : GoOn(type)
  \/ \E f \in Files : Snapshot(f) \/ WriteFile(f) \/ ShellWrite(f) \/ Restore(f) \/ RestoreFails(f)
  \/ RecordResult \/ BreakOff \/ Fail \/ RewindCursor \/ RewindPlan \/ RestoreDone \/ Report

Spec == Init /\ [][Next]_vars

----------------------------------------------------------------------------
(* What a run sends is what the next run would read back from the session: *)
(* the chain with its cursor, repaired, equals the transcript in memory    *)
(* whenever a request is composed. A pass that kept answers the projection *)
(* itself had made up is the exception: it counts messages that are on no  *)
(* disk (recorder.py: "projection replaces history up to the tip with the  *)
(* summary plus kept tail").                                               *)
ProjectionIsLive ==
  pc = "compose" /\ ~drifted =>
    /\ Projection(branch) = live
    /\ Valid(live)

(* A branch carries no summary and no plan of entries that are not on its  *)
(* chain, after any sequence of runs, commands, forks and crashes but one: *)
(* a /rewind that is broken off between its steps (runs.py: "if it is not  *)
(* cleared the projection splices the summary onto a stub").               *)
NoForeignSummary ==
  \A b \in Branches \ torn :
    (HalfWay /\ b = branch) \/
      /\ cursor[b].through \in ToSet(ChainOf(b)) \cup {0}
      /\ plan[b] \in ToSet(ChainOf(b)) \cup {-1}

(* A /rewind that reports has brought every file back to its content at    *)
(* the moment its anchor was recorded, however many runs, branches, broken *)
(* runs and earlier rewinds lie in between - except a file whose first     *)
(* change since then went past the snapshots (a shell command, or a rewind *)
(* of another branch) and one it reports as failed (checkpoints.py         *)
(* restore()).                                                             *)
RewindRestores ==
  pc = "report" /\ anchor > 0 =>
    \A f \in Files \ failed :
      at[anchor][f].first # "unsaved" => files[f] = at[anchor][f].was
============================================================================
