--------------------------- MODULE RunLifecycle ---------------------------
(***************************************************************************)
(* The life of the runs of one session: the slot a run reserves, the one   *)
(* session handle it shares with readers, the inputs that wait for it, its *)
(* rounds, its cancellation and its end (avid/services/runs.py, inbox.py,  *)
(* sessions.py and the loop of avid/agent/run.py).                         *)
(*                                                                         *)
(* The threads are: one per submitted or claimed input, one per run, the   *)
(* readers of the session, the callers of cancel(). The handle lock        *)
(* (session_lock) is a mutex here: its table of reference counts, which    *)
(* only decides when an unused lock is forgotten, is left out.             *)
(***************************************************************************)
EXTENDS Integers, Sequences, FiniteSets, SequencesExt

CONSTANTS
  Runs,      \* run ids; each is allocated once (bounds the model)
  Inputs,    \* what the user sends; each is sent once (bounds the model)
  Readers,   \* threads in SessionService._session() or delete()
  ReadBound, \* model bound: reads and deletions of the session
  None

ASSUME NoneAssumption == None \notin Runs \cup Inputs \cup Readers
ASSUME DistinctAssumption ==
  Runs \cap Inputs = {} /\ Runs \cap Readers = {} /\ Inputs \cap Readers = {}
ASSUME ReadAssumption == ReadBound \in Nat

VARIABLES
  lock,      \* the thread that holds the session's handle lock
  active,    \* RunRegistry._active of the session
  handle,    \* who has the session file open
  gone,      \* the session was deleted
  at,        \* where each input is, or stands in submit_input / start
  mode,      \* PendingInput.mode; "direct" for a run asked for without inbox
  orphan,    \* the inbox the input's thread looked up left _inboxes since
  inbox,     \* SessionInbox._items
  accepted,  \* inputs an inbox has ever accepted
  rpc,       \* where each run thread stands
  prompt,    \* the input the run was started for
  requested, \* RunRecord.cancel_requested
  state,     \* RunRecord.state: "none", "live" or "cancelled"
  pending,   \* local pending_steers of Run.run()
  cpc,       \* where the caller of cancel() stands
  reader,    \* where each reader stands
  reads      \* reads and deletions so far (bounds the model)

slotVars  == <<lock, active, handle, gone>>
inputVars == <<at, mode, orphan, inbox, accepted>>
runVars   == <<rpc, prompt, requested, state, pending, cpc>>
readVars  == <<reader, reads>>
vars      == <<slotVars, inputVars, runVars, readVars>>

(* session_lock(): who gets it finds it free.                              *)
Free == lock = None

Init ==
  /\ lock = None /\ active = None /\ handle = None /\ gone = FALSE
  /\ at = [i \in Inputs |-> "new"]
  /\ mode = [i \in Inputs |-> "after"]
  /\ orphan = [i \in Inputs |-> FALSE]
  /\ inbox = <<>> /\ accepted = {}
  /\ rpc = [r \in Runs |-> "unused"]
  /\ prompt = [r \in Runs |-> None]
  /\ requested = [r \in Runs |-> FALSE]
  /\ state = [r \in Runs |-> "none"]
  /\ pending = [r \in Runs |-> <<>>]
  /\ cpc = [r \in Runs |-> "none"]
  /\ reader = [w \in Readers |-> "idle"] /\ reads = 0

(* The elements of a sequence that are in S, in their order: a filter in a *)
(* closed form, which proofs can use.                                      *)
Only(s, S) ==
  LET kept == {k \in 1..Len(s) : s[k] \in S}
      Rank(k) == Cardinality({j \in kept : j <= k})
  IN  [n \in 1..Cardinality(kept) |-> s[CHOOSE k \in kept : Rank(k) = n]]

Move(i, l) == at' = [at EXCEPT ![i] = l]
Goto(r, l) == rpc' = [rpc EXCEPT ![r] = l]

----------------------------------------------------------------------------
(* submit_input(), start() and start_queued(): the thread of input i.      *)

(* submit_input() up to the lookup of the inbox, or a direct start().      *)
Submit(i, m) ==
  /\ at[i] = "new"
  /\ ~gone
  /\ mode' = [mode EXCEPT ![i] = m]
  /\ Move(i, IF m = "direct" THEN "start" ELSE "deciding")
  /\ UNCHANGED <<slotVars, orphan, inbox, accepted, runVars, readVars>>

(* An idle session starts a run for a `now` input, a busy one queues it.   *)
Decide(i) ==
  /\ at[i] = "deciding"
  /\ Move(i, IF mode[i] = "now" /\ active = None THEN "start" ELSE "adding")
  /\ UNCHANGED <<slotVars, mode, orphan, inbox, accepted, runVars, readVars>>

(* SessionInbox.add() on the inbox looked up in Submit.                    *)
Add(i) ==
  /\ at[i] = "adding"
  /\ Move(i, IF orphan[i] THEN "orphaned" ELSE "queued")
  /\ inbox' = IF orphan[i] THEN inbox ELSE Append(inbox, i)
  /\ accepted' = accepted \cup {i}
  /\ UNCHANGED <<slotVars, mode, orphan, runVars, readVars>>

(* start() raised: submit_input() and the direct route report the error,   *)
(* start_queued() puts the input back.                                     *)
Raised(i) == IF i \in accepted THEN "restoring" ELSE "refused"

(* start() looks the session up before it takes the handle lock.           *)
Find(i) ==
  /\ at[i] \in {"start", "claimed"}
  /\ Move(i, IF gone THEN Raised(i) ELSE "locking")
  /\ UNCHANGED <<slotVars, mode, orphan, inbox, accepted, runVars, readVars>>

(* RunBusy: a `now` input falls back to the queue as `after`.              *)
Busy(i) ==
  /\ at[i] = "locking" /\ Free
  /\ active # None
  /\ IF mode[i] = "now" /\ i \notin accepted
     THEN mode' = [mode EXCEPT ![i] = "after"] /\ Move(i, "adding")
     ELSE UNCHANGED mode /\ Move(i, Raised(i))
  /\ UNCHANGED <<slotVars, orphan, inbox, accepted, runVars, readVars>>

NewRun == CHOOSE r \in Runs : rpc[r] = "unused"

(* The slot is reserved and the handle opened in one hold of the lock.     *)
Reserve(i) ==
  /\ at[i] = "locking" /\ Free
  /\ active = None
  /\ \E r \in Runs : rpc[r] = "unused"
  /\ lock' = i /\ active' = NewRun
  /\ prompt' = [prompt EXCEPT ![NewRun] = i]
  /\ Goto(NewRun, "reserved")
  /\ Move(i, "opening")
  /\ UNCHANGED <<handle, gone, mode, orphan, inbox, accepted,
                 requested, state, pending, cpc, readVars>>

OpenOk(i) ==
  /\ at[i] = "opening"
  /\ handle = None /\ ~gone
  /\ handle' = active
  /\ lock' = None
  /\ Goto(active, "boot")
  /\ Move(i, "prompt")
  /\ UNCHANGED <<active, gone, mode, orphan, inbox, accepted,
                 prompt, requested, state, pending, cpc, readVars>>

(* A SessionError: the file is gone, damaged, or already open.             *)
OpenFail(i) ==
  /\ at[i] = "opening"
  /\ lock' = None /\ active' = None
  /\ Goto(active, "void")
  /\ Move(i, Raised(i))
  /\ UNCHANGED <<handle, gone, mode, orphan, inbox, accepted,
                 prompt, requested, state, pending, cpc, readVars>>

ClaimPeeks(i) ==
  /\ at[i] = "queued"
  /\ Move(i, "claimed")
  /\ UNCHANGED <<slotVars, mode, orphan, inbox, accepted, runVars, readVars>>

(* start_queued(): take_for_run(), and after a failure inbox() / restore() *)
Claim(i) ==
  /\ at[i] = "queued"
  /\ inbox' = Only(inbox, Inputs \ {i})
  /\ Move(i, "claimed")
  /\ UNCHANGED <<slotVars, mode, orphan, accepted, runVars, readVars>>

LookUpAgain(i) ==
  /\ at[i] = "restoring"
  /\ orphan' = [orphan EXCEPT ![i] = FALSE]
  /\ Move(i, "putback")
  /\ UNCHANGED <<slotVars, mode, inbox, accepted, runVars, readVars>>

Restore(i) ==
  /\ at[i] = "putback"
  /\ Move(i, IF orphan[i] THEN "orphaned" ELSE "queued")
  /\ inbox' = IF orphan[i] THEN inbox ELSE <<i>> \o inbox
  /\ UNCHANGED <<slotVars, mode, orphan, accepted, runVars, readVars>>

(* drop_input(): the user withdraws an input nobody took.                  *)
Drop(i) ==
  /\ at[i] = "queued"
  /\ inbox' = Only(inbox, Inputs \ {i})
  /\ Move(i, "dropped")
  /\ UNCHANGED <<slotVars, mode, orphan, accepted, runVars, readVars>>

(* Threads that hold a reference to the inbox they looked up.              *)
HoldsInbox(i) ==
  \/ at[i] \in {"deciding", "adding", "putback"}
  \/ at[i] \in {"start", "locking", "opening"} /\ mode[i] = "now" /\ i \notin accepted

(* _sweep(), called by the end of a run of any other session, deletes the  *)
(* empty inbox of an idle session.                                         *)
SweepInbox ==
  /\ active = None
  /\ inbox = <<>>
  /\ \E i \in Inputs : HoldsInbox(i) /\ ~orphan[i]
  /\ orphan' = [i \in Inputs |-> orphan[i] \/ HoldsInbox(i)]
  /\ UNCHANGED <<slotVars, at, mode, inbox, accepted, runVars, readVars>>

----------------------------------------------------------------------------
(* The run thread: _run().                                                 *)

(* It ends before the loop: an error while its parts are built, or an      *)
(* in-session command, which only a direct start() carries.                *)
EndEarly(r) ==
  /\ \/ rpc[r] = "boot"
     \/ rpc[r] = "prompting"
  /\ Goto(r, "ending")
  /\ Move(prompt[r], "unsaved")
  /\ UNCHANGED <<slotVars, mode, orphan, inbox, accepted,
                 prompt, requested, state, pending, cpc, readVars>>

(* record.state is published ...                                           *)
Assemble(r) ==
  /\ rpc[r] = "boot"
  /\ state' = [state EXCEPT ![r] = "live"]
  /\ Goto(r, "assembled")
  /\ UNCHANGED <<slotVars, inputVars, prompt, requested, pending, cpc, readVars>>

ReplayForgotten(r) ==
  /\ rpc[r] = "assembled"
  /\ Goto(r, "prompting")
  /\ UNCHANGED <<slotVars, inputVars, prompt, requested, state, pending, cpc, readVars>>

(* ... and only then cancel_requested is read again.                       *)
ReplayCancel(r) ==
  /\ rpc[r] = "assembled"
  /\ state' = [state EXCEPT ![r] = IF requested[r] THEN "cancelled" ELSE @]
  /\ Goto(r, "prompting")
  /\ UNCHANGED <<slotVars, inputVars, prompt, requested, pending, cpc, readVars>>

(* The prompt is recorded in the session (a hook may block it: EndEarly).  *)
RecordPrompt(r) ==
  /\ rpc[r] = "prompting"
  /\ Goto(r, "top")
  /\ Move(prompt[r], "recorded")
  /\ UNCHANGED <<slotVars, mode, orphan, inbox, accepted,
                 prompt, requested, state, pending, cpc, readVars>>

Steers == Only(inbox, {i \in Inputs : mode[i] = "now"})
Others == Only(inbox, {i \in Inputs : mode[i] # "now"})

MoveAll(S, l, T, k) ==
  at' = [i \in Inputs |-> IF i \in S THEN l ELSE IF i \in T THEN k ELSE at[i]]

(* Checkpoint 1 raises RunCancelled; what the gates took goes with it.     *)
TopCancelled(r) ==
  /\ rpc[r] = "top"
  /\ state[r] = "cancelled"
  /\ MoveAll(Range(pending[r]), "lost", {}, "lost")
  /\ pending' = [pending EXCEPT ![r] = <<>>]
  /\ Goto(r, "ending")
  /\ UNCHANGED <<slotVars, mode, orphan, inbox, accepted,
                 prompt, requested, state, cpc, readVars>>

(* The sole delivery point: pending steers first, then the new ones. The n *)
(* first are recorded; a SessionError ends the run before the others are.  *)
Deliver(r, n) ==
  LET all == pending[r] \o Steers
  IN  /\ rpc[r] = "top"
      /\ state[r] # "cancelled"
      /\ n <= Len(all)
      /\ inbox' = Others
      /\ pending' = [pending EXCEPT ![r] = <<>>]
      /\ MoveAll({all[k] : k \in 1..n}, "recorded",
                 {all[k] : k \in (n + 1)..Len(all)}, "unsaved")
      /\ Goto(r, IF n = Len(all) THEN "calling" ELSE "ending")
      /\ UNCHANGED <<slotVars, mode, orphan, accepted, prompt, requested, state, cpc,
                     readVars>>

(* The model call and its recording: tool calls, a final text, an error.   *)
CallModel(r) ==
  /\ rpc[r] = "calling"
  /\ \E l \in {"tools", "gate", "ending"} : Goto(r, l)
  /\ UNCHANGED <<slotVars, inputVars, prompt, requested, state, pending, cpc, readVars>>

(* Checkpoint 2, then the tool batch; "halt" when too many were denied.    *)
RunTools(r) ==
  /\ rpc[r] = "tools"
  /\ \E l \in IF state[r] = "cancelled" THEN {"ending"} ELSE {"top", "halt", "ending"} :
       Goto(r, l)
  /\ UNCHANGED <<slotVars, inputVars, prompt, requested, state, pending, cpc, readVars>>

(* The two gates before the end of the loop: steers continue it.           *)
GateSteers(r) ==
  /\ rpc[r] \in {"gate", "halt"}
  /\ Steers # <<>>
  /\ inbox' = Others
  /\ pending' = [pending EXCEPT ![r] = Steers]
  /\ MoveAll(Range(Steers), "taken", {}, "taken")
  /\ Goto(r, "top")
  /\ UNCHANGED <<slotVars, mode, orphan, accepted,
                 prompt, requested, state, cpc, readVars>>

(* Without steers: the end, or after a final text a nudge to go on.        *)
GateEnd(r) ==
  /\ rpc[r] \in {"gate", "halt"}
  /\ Steers = <<>>
  /\ \E l \in IF rpc[r] = "gate" THEN {"ending", "top"} ELSE {"ending"} : Goto(r, l)
  /\ UNCHANGED <<slotVars, inputVars, prompt, requested, state, pending, cpc, readVars>>

(* _finish(): usage is persisted and the gate shut ...                     *)
Downgrade(r) ==
  /\ rpc[r] = "ending"
  /\ mode' = [i \in Inputs |->
                IF i \in Range(inbox) /\ mode[i] = "now" THEN "after" ELSE mode[i]]
  /\ Goto(r, "downgraded")
  /\ UNCHANGED <<slotVars, at, orphan, inbox, accepted,
                 prompt, requested, state, pending, cpc, readVars>>

(* ... and only then status and terminal event change.                     *)
Announce(r) ==
  /\ rpc[r] = "downgraded"
  /\ Goto(r, "terminal")
  /\ UNCHANGED <<slotVars, inputVars, prompt, requested, state, pending, cpc, readVars>>

Terminal(r) == rpc[r] \in {"terminal", "detached", "ended"}

DetachUnlocked(r) ==
  /\ rpc[r] = "terminal"
  /\ active' = None
  /\ Goto(r, "detached")
  /\ UNCHANGED <<lock, handle, gone, inputVars, prompt, requested, state, pending, cpc,
                 readVars>>

DetachKeepsSlot(r) ==
  /\ rpc[r] = "terminal" /\ Free
  /\ lock' = r
  /\ Goto(r, "detached")
  /\ UNCHANGED <<active, handle, gone, inputVars, prompt, requested, state, pending, cpc,
                 readVars>>

(* The finally block: the slot is freed before the handle is closed, both  *)
(* in one hold of the handle lock.                                         *)
Detach(r) ==
  /\ rpc[r] = "terminal" /\ Free
  /\ lock' = r /\ active' = None
  /\ Goto(r, "detached")
  /\ UNCHANGED <<handle, gone, inputVars, prompt, requested, state, pending, cpc, readVars>>

CloseHandle(r) ==
  /\ rpc[r] = "detached"
  /\ handle' = None
  /\ lock' = None
  /\ Goto(r, "ended")
  /\ UNCHANGED <<active, gone, inputVars, prompt, requested, state, pending, cpc, readVars>>

----------------------------------------------------------------------------
(* cancel(): the flag first, then the state if it exists by then.          *)
RequestCancel(r) ==
  /\ rpc[r] \notin {"unused", "void"}
  /\ ~Terminal(r)
  /\ cpc[r] = "none"
  /\ requested' = [requested EXCEPT ![r] = TRUE]
  /\ cpc' = [cpc EXCEPT ![r] = "flagged"]
  /\ UNCHANGED <<slotVars, inputVars, rpc, prompt, state, pending, readVars>>

CancelForgetsState(r) ==
  /\ cpc[r] = "flagged"
  /\ cpc' = [cpc EXCEPT ![r] = "returned"]
  /\ UNCHANGED <<slotVars, inputVars, rpc, prompt, requested, state, pending, readVars>>

CancelState(r) ==
  /\ cpc[r] = "flagged"
  /\ state' = [state EXCEPT ![r] = IF @ = "none" THEN @ ELSE "cancelled"]
  /\ cpc' = [cpc EXCEPT ![r] = "returned"]
  /\ UNCHANGED <<slotVars, inputVars, rpc, prompt, requested, pending, readVars>>

----------------------------------------------------------------------------
(* SessionService._session(): the active run's handle, or one of its own.  *)
Read(w) ==
  /\ reader[w] = "idle" /\ Free
  /\ reads < ReadBound /\ ~gone
  /\ lock' = w /\ reads' = reads + 1
  /\ reader' = [reader EXCEPT ![w] = IF active # None THEN "borrowing" ELSE "opening"]
  /\ UNCHANGED <<active, handle, gone, inputVars, runVars>>

(* delete(): refused while a run is active; it opens the session itself,   *)
(* to read where it works, before it removes the file.                     *)
Delete(w) ==
  /\ reader[w] = "idle" /\ Free
  /\ reads < ReadBound /\ ~gone
  /\ active = None
  /\ lock' = w /\ reads' = reads + 1
  /\ reader' = [reader EXCEPT ![w] = "deleting"]
  /\ UNCHANGED <<active, handle, gone, inputVars, runVars>>

ReaderOpens(w) ==
  /\ reader[w] \in {"opening", "deleting"}
  /\ handle = None
  /\ handle' = w
  /\ reader' = [reader EXCEPT ![w] = IF @ = "opening" THEN "reading" ELSE "releasing"]
  /\ UNCHANGED <<lock, active, gone, inputVars, runVars, reads>>

ReaderClosesAll(w) ==
  /\ reader[w] \in {"borrowing", "reading", "releasing"}
  /\ handle' = None
  /\ gone' = (gone \/ reader[w] = "releasing")
  /\ lock' = None
  /\ reader' = [reader EXCEPT ![w] = "idle"]
  /\ UNCHANGED <<active, inputVars, runVars, reads>>

ReaderDone(w) ==
  /\ reader[w] \in {"borrowing", "reading", "releasing"}
  /\ handle' = IF reader[w] = "borrowing" THEN handle ELSE None
  /\ gone' = (gone \/ reader[w] = "releasing")
  /\ lock' = None
  /\ reader' = [reader EXCEPT ![w] = "idle"]
  /\ UNCHANGED <<active, inputVars, runVars, reads>>

----------------------------------------------------------------------------
InputStep(i) ==
  \/ Decide(i) \/ Add(i) \/ Find(i) \/ Busy(i) \/ Reserve(i)
  \/ OpenOk(i) \/ OpenFail(i) \/ LookUpAgain(i) \/ Restore(i)

RunStep(r) ==
  \/ EndEarly(r) \/ Assemble(r) \/ ReplayCancel(r) \/ RecordPrompt(r)
  \/ TopCancelled(r) \/ \E n \in 0..Cardinality(Inputs) : Deliver(r, n)
  \/ CallModel(r) \/ RunTools(r) \/ GateSteers(r) \/ GateEnd(r)
  \/ Downgrade(r) \/ Announce(r) \/ Detach(r) \/ CloseHandle(r)

ReaderStep(w) == ReaderOpens(w) \/ ReaderDone(w)

Next ==
  \/ \E i \in Inputs :
       \/ \E m \in {"now", "after", "direct"} : Submit(i, m)
       \/ InputStep(i) \/ Claim(i) \/ Drop(i)
  \/ SweepInbox
  \/ \E r \in Runs : RunStep(r) \/ RequestCancel(r) \/ CancelState(r)
  \/ \E w \in Readers : Read(w) \/ Delete(w) \/ ReaderStep(w)

(* Every thread that is inside a call goes on; a model call and a tool end *)
(* by their own timeouts. Nobody has to send, claim, cancel or read.       *)
Spec ==
  /\ Init /\ [][Next]_vars
  /\ \A i \in Inputs : WF_vars(InputStep(i))
  /\ \A r \in Runs : WF_vars(RunStep(r)) /\ WF_vars(CancelState(r))
  /\ \A w \in Readers : WF_vars(ReaderStep(w))

----------------------------------------------------------------------------
Places == {"new", "deciding", "adding", "queued", "start", "claimed", "locking",
           "opening", "restoring", "putback", "prompt", "taken", "recorded",
           "unsaved", "refused", "dropped", "orphaned", "lost"}

RunLabels == {"unused", "void", "reserved", "boot", "assembled", "prompting", "top",
              "calling", "tools", "gate", "halt", "ending", "downgraded",
              "terminal", "detached", "ended"}

(* Type invariant of the slot, the inputs, the runs and their callers.     *)
TypeOK ==
  /\ lock \in Runs \cup Inputs \cup Readers \cup {None}
  /\ active \in Runs \cup {None}
  /\ handle \in Runs \cup Readers \cup {None} /\ gone \in BOOLEAN
  /\ at \in [Inputs -> Places] /\ mode \in [Inputs -> {"now", "after", "direct"}]
  /\ orphan \in [Inputs -> BOOLEAN]
  /\ inbox \in Seq(Inputs) /\ accepted \subseteq Inputs
  /\ rpc \in [Runs -> RunLabels] /\ prompt \in [Runs -> Inputs \cup {None}]
  /\ requested \in [Runs -> BOOLEAN]
  /\ state \in [Runs -> {"none", "live", "cancelled"}]
  /\ pending \in [Runs -> Seq(Inputs)]
  /\ cpc \in [Runs -> {"none", "flagged", "returned"}]
  /\ reader \in [Readers -> {"idle", "borrowing", "opening", "reading", "deleting",
                             "releasing"}]
  /\ reads \in Nat

(* No open ever meets SessionAlreadyOpenError: whoever is about to open    *)
(* the session finds no handle on it (runs.py:298: "otherwise a read path  *)
(* and the run thread race into SessionAlreadyOpenError").                 *)
NeverAlreadyOpen ==
  /\ \A i \in Inputs : at[i] = "opening" => handle = None
  /\ \A w \in Readers : reader[w] \in {"opening", "deleting"} => handle = None

(* A run's thread writes to the session (prompt, messages, usage) only     *)
(* through a handle that is open, and never into a deleted session.        *)
WritesHaveHandle ==
  \A r \in Runs :
    rpc[r] \notin {"unused", "void", "reserved", "ended"} => handle = r /\ ~gone

(* A cancel is never lost: once cancel() returned, the run begins no       *)
(* further round, whether the call came before record.state existed, while *)
(* it was being published, or during the loop.                             *)
CancelStopsRounds ==
  [][\A r \in Runs :
       cpc[r] = "returned" /\ rpc[r] = "top" => rpc'[r] # "calling"]_vars

(* The inbox and the places of the inputs agree: an input is offered to    *)
(* claimers and gates exactly once, and to nobody once it was used.        *)
QueueIsExact ==
  /\ IsInjective(inbox)
  /\ Range(inbox) = {i \in Inputs : at[i] = "queued"}

(* Every cancelled run ends and hands the session back; one whose handle   *)
(* could not be opened never existed.                                      *)
CancelEnds ==
  \A r \in Runs : (cpc[r] = "returned") ~> (rpc[r] \in {"ended", "void"})

(* A run that announced its end releases slot and handle, and no thread    *)
(* keeps waiting for the handle lock.                                      *)
SlotIsFreed ==
  \A r \in Runs : (active = r /\ Terminal(r)) ~> (active # r /\ handle # r)

(* "Accepted input never disappears" (inbox.py:4), and "a cancelled run    *)
(* never consumes the pending steer" (tests/test_run_steers.py:112): an    *)
(* accepted input is never gone because the run it waited for was cancelled. *)
CancelKeepsSteers == \A i \in Inputs : i \in accepted => at[i] # "lost"
============================================================================
